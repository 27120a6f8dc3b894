----------------------------- MODULE DesktopLease -----------------------------
(* The shared desktop of one workspace. Users watch it and computer-use runs  *)
(* act on it: each holds a lease on the runner's session object, and the one  *)
(* Xvnc process is meant to stay up while a lease is left. Every check, start *)
(* and stop of the process is a command that the runner awaits, without a     *)
(* lock. The backend keeps a copy of the session, for its proxy.              *)
EXTENDS Naturals, Sequences, FiniteSets

CONSTANTS
  Viewers,   \* users' visits: each starts the desktop once and stops it once
  Runs,      \* computer-use runs
  MaxFaults  \* bound: aborts, timeouts, failed starts, crashes, runner restarts

ASSUME DesktopAssumption == Viewers \cap Runs = {} /\ MaxFaults \in Nat

VARIABLES
  visit,     \* where each user is
  run,       \* where each run is: the action it awaits
  ops,       \* the runner's handlers that are under way
  objs,      \* the DesktopSession objects, with their leases
  cache,     \* _desktop_sessions[workspace_id]; 0 is none
  xvnc,      \* the process listens
  films,     \* _desktop_recordings
  beat,      \* where the heartbeat coroutine is
  events,    \* what the runner has reported, in order
  active,    \* the backend's _active_desktops[workspace_id]
  faults

vars == <<visit, run, ops, objs, cache, xvnc, films, beat, events, active, faults>>

Leases == [viewer : BOOLEAN, runs : SUBSET Runs]
NoLease == [viewer |-> FALSE, runs |-> {}]
Off == [on |-> FALSE, viewer |-> FALSE, cu |-> FALSE]
IdleBeat == [pc |-> "idle", obj |-> 0, alive |-> FALSE, announce |-> FALSE]

Init ==
  /\ visit = [v \in Viewers |-> "new"]
  /\ run = [r \in Runs |-> "new"]
  /\ ops = {} /\ objs = <<>> /\ cache = 0 /\ xvnc = FALSE /\ films = {}
  /\ beat = IdleBeat /\ events = <<>> /\ active = Off /\ faults = 0

-----------------------------------------------------------------------------
Fault == faults < MaxFaults /\ faults' = faults + 1

(* A handler: the call it serves, where it is, the session it found, the      *)
(* leases it read and what the last check said.                               *)
NewOp(who, kind) ==
  [who |-> who, kind |-> kind, pc |-> "new", obj |-> 0, keep |-> NoLease, alive |-> FALSE]

Moves(o, next) == ops' = (ops \ {o}) \cup {next}

Shown(obj) == [on |-> TRUE, viewer |-> objs'[obj].viewer, cu |-> objs'[obj].runs # {}]
Emits(what, shown) == events' = Append(events, [what |-> what, shown |-> shown])

(* What a run does next, after an action that succeeded or failed. The tool   *)
(* calls of a run are one "act", which ensures the process like any of them.  *)
AfterAction(kind, ok) ==
  CASE kind = "hold" -> IF ok THEN "record" ELSE "done"
    [] kind = "record" -> IF ok THEN "act" ELSE "release"
    [] kind = "act" -> "unrecord"
    [] kind = "unrecord" -> "release"
    [] kind = "release" -> "done"

Request(r, pc) == IF pc = "done" THEN {} ELSE {NewOp(r, pc)}

(* The answer of a handler: a run that has given up waiting does not get it.  *)
Answers(o, ok) ==
  IF o.who \in Runs /\ run[o.who] = o.kind
  THEN LET next == AfterAction(o.kind, ok) IN
       /\ run' = [run EXCEPT ![o.who] = next]
       /\ ops' = (ops \ {o}) \cup Request(o.who, next)
  ELSE ops' = ops \ {o} /\ UNCHANGED run

-----------------------------------------------------------------------------
(* ensure_desktop_process, and acquire_desktop after it. The session object,  *)
(* the leases on it and the check are taken before the first await.           *)
Ensures == {"start", "hold", "act"}

LeasesOf(obj) == IF obj = 0 THEN NoLease ELSE objs[obj]

EnsureBegins(o) ==
  /\ o.pc = "new" /\ o.kind \in Ensures
  /\ Moves(o, [o EXCEPT !.pc = "checked", !.obj = cache, !.keep = LeasesOf(cache), !.alive = xvnc])
  /\ UNCHANGED <<visit, run, objs, cache, xvnc, films, beat, events, active, faults>>

(* The lease goes to the object that the handler holds, cached or not.        *)
Leased(o, lease) ==
  CASE o.kind = "start" -> [lease EXCEPT !.viewer = TRUE]
    [] o.kind = "hold" -> [lease EXCEPT !.runs = @ \cup {o.who}]
    [] o.kind = "act" -> lease

Acquires(o, obj) ==
  IF o.kind = "start" THEN Emits("started", Shown(obj)) ELSE UNCHANGED events

ReturnsCached(o) ==
  /\ o.pc = "checked" /\ o.kind \in Ensures /\ o.obj # 0 /\ o.alive
  /\ objs' = [objs EXCEPT ![o.obj] = Leased(o, @)]
  /\ Acquires(o, o.obj) /\ Answers(o, TRUE)
  /\ UNCHANGED <<visit, cache, xvnc, films, beat, active, faults>>

DropsStale(o) ==
  /\ o.pc = "checked" /\ o.kind \in Ensures /\ o.obj # 0 /\ ~o.alive
  /\ cache' = 0
  /\ Moves(o, [o EXCEPT !.obj = 0, !.alive = xvnc])
  /\ UNCHANGED <<visit, run, objs, xvnc, films, beat, events, active, faults>>

ReturnsNew(o) ==
  /\ objs' = Append(objs, Leased(o, o.keep)) /\ cache' = Len(objs) + 1
  /\ Acquires(o, Len(objs) + 1) /\ Answers(o, TRUE)
  /\ UNCHANGED <<visit, xvnc, films, beat, active, faults>>

Recovers(o) == o.pc = "checked" /\ o.kind \in Ensures /\ o.obj = 0 /\ o.alive /\ ReturnsNew(o)

(* The stop script runs before the start script.                              *)
Clears(o) ==
  /\ o.pc = "checked" /\ o.kind \in Ensures /\ o.obj = 0 /\ ~o.alive
  /\ xvnc' = FALSE /\ Moves(o, [o EXCEPT !.pc = "cleared"])
  /\ UNCHANGED <<visit, run, objs, cache, films, beat, events, active, faults>>

Starts(o) ==
  /\ o.pc = "cleared" /\ xvnc' = TRUE /\ Moves(o, [o EXCEPT !.pc = "started"])
  /\ UNCHANGED <<visit, run, objs, cache, films, beat, events, active, faults>>

StartFails(o) ==
  /\ o.pc = "cleared" /\ Fault /\ xvnc' = FALSE /\ Answers(o, FALSE)
  /\ UNCHANGED <<visit, objs, cache, films, beat, events, active>>

Started(o) == o.pc = "started" /\ ReturnsNew(o)

-----------------------------------------------------------------------------
(* release_desktop without force. What remains is decided before recordings   *)
(* are interrupted and the stop script is awaited.                            *)
Releases == {"stop", "release"}

Dropped(o, lease) ==
  IF o.kind = "stop" THEN [lease EXCEPT !.viewer = FALSE] ELSE [lease EXCEPT !.runs = @ \ {o.who}]

Reports(o, what, shown) ==
  IF o.kind = "stop" THEN Emits(what, shown) ELSE UNCHANGED events

NothingToRelease(o) ==
  /\ o.pc = "new" /\ o.kind \in Releases /\ cache = 0
  /\ Reports(o, "stopped", Off) /\ Answers(o, TRUE)
  /\ UNCHANGED <<visit, objs, cache, xvnc, films, beat, active, faults>>

Drops(o) ==
  /\ o.pc = "new" /\ o.kind \in Releases /\ cache # 0
  /\ objs' = [objs EXCEPT ![cache] = Dropped(o, @)]

LeaseLeft(o) ==
  /\ Drops(o) /\ objs'[cache] # NoLease
  /\ Reports(o, "released", Shown(cache)) /\ Answers(o, TRUE)
  /\ UNCHANGED <<visit, cache, xvnc, films, beat, active, faults>>

LastReleased(o) ==
  /\ Drops(o) /\ objs'[cache] = NoLease
  /\ IF films = {} THEN cache' = 0 /\ Moves(o, [o EXCEPT !.pc = "stopping"])
     ELSE UNCHANGED cache /\ Moves(o, [o EXCEPT !.pc = "interrupting"])
  /\ UNCHANGED <<visit, run, xvnc, films, beat, events, active, faults>>

Interrupted(o) ==
  /\ o.pc = "interrupting" /\ films' = {} /\ cache' = 0
  /\ Moves(o, [o EXCEPT !.pc = "stopping"])
  /\ UNCHANGED <<visit, run, objs, xvnc, beat, events, active, faults>>

Stops(o) ==
  /\ o.pc = "stopping" /\ xvnc' = FALSE /\ Moves(o, [o EXCEPT !.pc = "stopped"])
  /\ UNCHANGED <<visit, run, objs, cache, films, beat, events, active, faults>>

Stopped(o) ==
  /\ o.pc = "stopped" /\ films' = {}
  /\ Reports(o, "stopped", Off) /\ Answers(o, TRUE)
  /\ UNCHANGED <<visit, objs, cache, xvnc, beat, active, faults>>

-----------------------------------------------------------------------------
(* record_start and record_stop                                               *)
FilmBegins(o) ==
  /\ o.pc = "new" /\ o.kind \in {"record", "unrecord"}
  /\ Moves(o, [o EXCEPT !.pc = "checked", !.alive = xvnc])
  /\ UNCHANGED <<visit, run, objs, cache, xvnc, films, beat, events, active, faults>>

FilmRefused(o) ==
  /\ o.pc = "checked" /\ o.kind \in {"record", "unrecord"}
  /\ ~o.alive \/ (o.kind = "unrecord" /\ o.who \notin films)
  /\ Answers(o, FALSE)
  /\ UNCHANGED <<visit, objs, cache, xvnc, films, beat, events, active, faults>>

FilmAccepted(o) ==
  /\ o.pc = "checked" /\ o.kind \in {"record", "unrecord"} /\ o.alive
  /\ o.kind = "unrecord" => o.who \in films
  /\ IF o.kind = "record" /\ o.who \in films THEN Answers(o, TRUE)
     ELSE Moves(o, [o EXCEPT !.pc = "filming"]) /\ UNCHANGED run
  /\ UNCHANGED <<visit, objs, cache, xvnc, films, beat, events, active, faults>>

FilmEnds(o) ==
  /\ o.pc = "filming"
  /\ films' = IF o.kind = "record" THEN films \cup {o.who} ELSE films \ {o.who}
  /\ Answers(o, TRUE)
  /\ UNCHANGED <<visit, objs, cache, xvnc, beat, events, active, faults>>

-----------------------------------------------------------------------------
(* A user opens the desktop and closes it; to close it before it is there is  *)
(* counted as a fault: the start then goes on and leaves it up.               *)
Opens(v) ==
  /\ visit[v] = "new" /\ visit' = [visit EXCEPT ![v] = "open"]
  /\ ops' = ops \cup {NewOp(v, "start")}
  /\ UNCHANGED <<run, objs, cache, xvnc, films, beat, events, active, faults>>

Starting(v) == \E o \in ops : o.who = v /\ o.kind = "start"

Closes(v) ==
  /\ visit[v] = "open" /\ IF Starting(v) THEN Fault ELSE UNCHANGED faults
  /\ visit' = [visit EXCEPT ![v] = "closed"]
  /\ ops' = ops \cup {NewOp(v, "stop")}
  /\ UNCHANGED <<run, objs, cache, xvnc, films, beat, events, active>>

(* _run_computeruse_inner                                                     *)
Begins(r) ==
  /\ run[r] = "new" /\ run' = [run EXCEPT ![r] = "hold"]
  /\ ops' = ops \cup {NewOp(r, "hold")}
  /\ UNCHANGED <<visit, objs, cache, xvnc, films, beat, events, active, faults>>

Waits(r) == run[r] \notin {"new", "done"}

(* The call times out: an error like one of the runner's, but its handler     *)
(* goes on there.                                                             *)
TimesOut(r) ==
  /\ Fault /\ Waits(r)
  /\ LET next == AfterAction(run[r], FALSE) IN
     /\ run' = [run EXCEPT ![r] = next] /\ ops' = ops \cup Request(r, next)
  /\ UNCHANGED <<visit, objs, cache, xvnc, films, beat, events, active>>

(* The run is cancelled. "held" and "record_started" are set after the answer,*)
(* and a cancellation inside the finally clause leaves it.                    *)
AfterCancel(r) ==
  CASE run[r] = "record" -> "release"
    [] run[r] = "act" -> "unrecord"
    [] OTHER -> "done"

Cancelled(r) ==
  /\ Fault /\ Waits(r)
  /\ run' = [run EXCEPT ![r] = AfterCancel(r)]
  /\ ops' = ops \cup Request(r, AfterCancel(r))
  /\ UNCHANGED <<visit, objs, cache, xvnc, films, beat, events, active>>

-----------------------------------------------------------------------------
(* get_workspace_heartbeat_statuses: also used when the runner connects, to   *)
(* announce what it recovered.                                                *)
Beating == \E i \in DOMAIN events : events[i].what = "heartbeat"

BeatBegins ==
  /\ beat.pc = "idle" /\ (cache # 0 \/ active.on \/ beat.announce) /\ ~Beating
  /\ IF cache # 0
     THEN /\ beat' = [beat EXCEPT !.pc = "checked", !.obj = cache, !.alive = xvnc]
          /\ UNCHANGED events
     ELSE /\ beat' = IdleBeat
          /\ IF beat.announce THEN UNCHANGED events ELSE Emits("heartbeat", Off)
  /\ UNCHANGED <<visit, run, ops, objs, cache, xvnc, films, active, faults>>

(* Mutant: a session that does not answer stays in the cache.                 *)
KeepsDead == cache

Pruned == 0

BeatChecked ==
  /\ beat.pc = "checked" /\ beat' = IdleBeat
  /\ UNCHANGED <<visit, run, ops, objs, xvnc, films, active, faults>>
  /\ IF beat.alive
     THEN /\ UNCHANGED cache
          /\ Emits(IF beat.announce THEN "process" ELSE "heartbeat", Shown(beat.obj))
     ELSE /\ cache' = Pruned
          /\ IF beat.announce THEN UNCHANGED events ELSE Emits("heartbeat", Off)

(* The runner restarts: what it knew is gone, the process in the workspace is *)
(* not, and recover_desktop_sessions_from_runtime looks for it.               *)
Restarts ==
  /\ Fault /\ cache' = 0 /\ films' = {} /\ ops' = {} /\ events' = <<>>
  /\ beat' = [IdleBeat EXCEPT !.pc = "recovering", !.alive = xvnc, !.announce = TRUE]
  /\ UNCHANGED <<visit, run, objs, xvnc, active>>

Recovered ==
  /\ beat.pc = "recovering" /\ beat' = [beat EXCEPT !.pc = "idle"]
  /\ IF beat.alive THEN objs' = Append(objs, NoLease) /\ cache' = Len(objs) + 1
     ELSE UNCHANGED <<objs, cache>>
  /\ UNCHANGED <<visit, run, ops, xvnc, films, events, active, faults>>

(* The process dies in the workspace.                                         *)
XvncDies ==
  /\ Fault /\ xvnc /\ xvnc' = FALSE
  /\ UNCHANGED <<visit, run, ops, objs, cache, films, beat, events, active>>

-----------------------------------------------------------------------------
(* Mutant: a heartbeat without a desktop leaves the copy as it is.            *)
SyncsLiveOnly(shown) == IF shown.on THEN shown ELSE active

(* _sync_desktop_state_from_heartbeat                                         *)
Synced(shown) == shown

(* The backend's handlers of the five reports.                                *)
Handles ==
  /\ events # <<>> /\ events' = Tail(events)
  /\ LET e == Head(events) IN
     active' = CASE e.what \in {"started", "process"} -> e.shown
                 [] e.what = "released" ->
                      IF active.on THEN [active EXCEPT !.viewer = FALSE, !.cu = e.shown.cu] ELSE active
                 [] e.what = "stopped" -> Off
                 [] e.what = "heartbeat" -> Synced(e.shown)
  /\ UNCHANGED <<visit, run, ops, objs, cache, xvnc, films, beat, faults>>

-----------------------------------------------------------------------------
OpNext(o) ==
  \/ EnsureBegins(o) \/ ReturnsCached(o) \/ DropsStale(o) \/ Recovers(o) \/ Clears(o)
  \/ Starts(o) \/ Started(o)
  \/ NothingToRelease(o) \/ LeaseLeft(o) \/ LastReleased(o) \/ Interrupted(o) \/ Stops(o) \/ Stopped(o)
  \/ FilmBegins(o) \/ FilmRefused(o) \/ FilmAccepted(o) \/ FilmEnds(o)

RunnerNext == (\E o \in ops : OpNext(o)) \/ BeatChecked \/ Recovered
Heartbeats == BeatBegins

Next ==
  \/ RunnerNext \/ Heartbeats \/ Handles
  \/ \E o \in ops : StartFails(o)
  \/ \E v \in Viewers : Opens(v) \/ Closes(v)
  \/ \E r \in Runs : Begins(r) \/ TimesOut(r) \/ Cancelled(r)
  \/ Restarts \/ XvncDies

(* Handlers and the heartbeat go on.                                          *)
Fairness == WF_vars(RunnerNext) /\ WF_vars(Heartbeats) /\ WF_vars(Handles)

Spec == Init /\ [][Next]_vars
FairSpec == Spec /\ Fairness

-----------------------------------------------------------------------------
(* The variables have their types.                                            *)
TypeOK ==
  /\ visit \in [Viewers -> {"new", "open", "closed"}]
  /\ run \in [Runs -> {"new", "hold", "record", "act", "unrecord", "release", "done"}]
  /\ objs \in Seq(Leases) /\ cache \in 0..Len(objs)
  /\ films \subseteq Runs
  /\ \A o \in ops : o.who \in Viewers \cup Runs /\ o.obj \in 0..Len(objs) /\ o.keep \in Leases
  /\ beat.obj \in 0..Len(objs)

(* "The process is stopped only when both are empty": the runner does not stop*)
(* it under a run that was granted the desktop.                               *)
Granted == {r \in Runs : run[r] \in {"record", "act", "unrecord"}}
StoppedOnlyUnheld == [][xvnc /\ ~xvnc' /\ UNCHANGED faults => Granted = {}]_vars

(* The backend's copy is right in the end, after crashes and restarts too: it *)
(* is what decides whether users reach the desktop.                           *)
CopySettles ==
  <>[](active = IF cache = 0 THEN Off
                ELSE [on |-> TRUE, viewer |-> objs[cache].viewer, cu |-> objs[cache].runs # {}])

(* A session whose process is dead does not stay.                             *)
DeadSessionEnds == (cache # 0 /\ ~xvnc) ~> (cache = 0 \/ xvnc)
===============================================================================
