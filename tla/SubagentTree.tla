---------------------------- MODULE SubagentTree ----------------------------
(****************************************************************************)
(* The tree of runs that the "task" tool grows: a run whose model asks for  *)
(* subagents executes one asyncio task per tool call, joined by             *)
(* asyncio.gather (runner.py, _run_step_tools); each of them creates a      *)
(* child session, starts its run and awaits it (harness_service.py,         *)
(* _run_subagent_tool).  abort_run cancels one run and whatever it awaits.  *)
(*                                                                          *)
(* Cancellation is asyncio's: cancelling a task that awaits another task    *)
(* (or a gather) cancels what it awaits, and the CancelledError reaches     *)
(* the awaiting task only when that is over.  HarnessRun models one         *)
(* session's runs in more detail; here a session has the one run its tool   *)
(* call starts.                                                             *)
(****************************************************************************)
EXTENDS Naturals, FiniteSets

CONSTANTS
  Sessions,   (* sessions, used or not                                      *)
  Root,       (* the session the user prompted                              *)
  None,       (* no session                                                 *)
  Aborts,     (* abort requests of the user                                 *)
  MaxDepth    (* RunOptions.max_depth                                       *)

ASSUME RootAssumption == Root \in Sessions /\ None \notin Sessions
ASSUME MaxDepthAssumption == MaxDepth \in Nat

VARIABLES
  parent,     (* HarnessSession.parent                                      *)
  row,        (* HarnessSession.status                                      *)
  finish,     (* HarnessMessage.finish of the session's assistant message   *)
  run,        (* phase of the session's run task                            *)
  outcome,    (* how the run task ended                                     *)
  tool,       (* phase of the tool call that created the session            *)
  cancelRun,  (* run tasks with a CancelledError to be delivered            *)
  cancelTool, (* tool tasks with a CancelledError to be delivered           *)
  cancelStep, (* runs whose gather was cancelled                            *)
  abort,      (* phase of each abort request                                *)
  target,     (* the session it is aborting                                 *)
  todo,       (* the children it still has to abort                         *)
  seen,       (* the target's status as the request read it                 *)
  asked,      (* history: the session the user asked to abort               *)
  stopped     (* history: the requests that found it running and cancelled  *)

treeVars   == <<parent, row, finish, run, outcome>>
cancelVars == <<cancelRun, cancelTool, cancelStep>>
abortVars  == <<abort, target, todo, seen, asked, stopped>>
vars == <<treeVars, tool, cancelVars, abortVars>>

-----------------------------------------------------------------------------
RunPhases  == {"none", "early", "model", "gather", "completing", "aborting",
               "closing", "over"}
ToolPhases == {"none", "creating", "starting", "started", "joining", "handler",
               "reporting", "done", "cancelled", "taken"}

Live(s)     == run[s] \notin {"none", "over"}

(* A run is in the registry _tasks from its start until its finally clause. *)
Registered(s) == run[s] \notin {"none", "closing", "over"}

ToolOpen(c) == tool[c] \notin {"none", "done", "cancelled", "taken"}
Children(s) == {c \in Sessions : parent[c] = s}

(* The tool calls of the step run s is executing.                           *)
StepCalls(s) == {c \in Children(s) : tool[c] # "taken"}

Init ==
  /\ parent = [s \in Sessions |-> None]
  /\ row = [s \in Sessions |-> IF s = Root THEN "busy" ELSE "absent"]
  /\ finish = [s \in Sessions |-> "none"]
  /\ run = [s \in Sessions |-> IF s = Root THEN "early" ELSE "none"]
  /\ outcome = [s \in Sessions |-> "none"]
  /\ tool = [s \in Sessions |-> "none"]
  /\ cancelRun = {}
  /\ cancelTool = {}
  /\ cancelStep = {}
  /\ abort = [a \in Aborts |-> "ready"]
  /\ target = [a \in Aborts |-> None]
  /\ todo = [a \in Aborts |-> {}]
  /\ seen = [a \in Aborts |-> "idle"]
  /\ asked = [a \in Aborts |-> None]
  /\ stopped = {}

-----------------------------------------------------------------------------
(* task.cancel()                                                            *)

(* Tool call c is suspended on the run of its child session.                *)
Awaits(c) == tool[c] \in {"joining", "handler"} /\ run[c] # "over"

(* The runs a cancellation of run s reaches: s, and through the tool calls  *)
(* of a step in progress the runs these calls await; the least such set.    *)
PassesOn(R) ==
  \A c \in Sessions : parent[c] \in R /\ run[parent[c]] = "gather" /\ Awaits(c) => c \in R

Reached(s) ==
  {t \in Sessions : \A R \in SUBSET Sessions : s \in R /\ PassesOn(R) => t \in R}

InStep(s) == run[s] = "gather" /\ \E c \in StepCalls(s) : ToolOpen(c)

(* Variant: only the calls already suspended on a child are cancelled.      *)
HitNoTools(s) == {}

(* What a cancellation of run s hits: runs, steps, and open tool calls.     *)
HitRuns(s)  == {t \in Sessions : t \in Reached(s) /\ Live(t) /\ ~InStep(t)}
HitSteps(s) == {t \in Sessions : t \in Reached(s) /\ InStep(t)}
HitTools(s) == {c \in Sessions : /\ parent[c] \in HitSteps(s)
                                 /\ ToolOpen(c)
                                 /\ ~Awaits(c)}

Cancel(s) ==
  /\ cancelRun'  = cancelRun \cup HitRuns(s)
  /\ cancelStep' = cancelStep \cup HitSteps(s)
  /\ cancelTool' = cancelTool \cup HitTools(s)

-----------------------------------------------------------------------------
(* A run                                                                    *)

RunStep(s, from, to) ==
  /\ run[s] = from
  /\ run' = [run EXCEPT ![s] = to]

Undisturbed(s) == s \notin cancelRun /\ UNCHANGED cancelVars

Interrupted(s) ==
  /\ s \in cancelRun
  /\ cancelRun' = cancelRun \ {s}
  /\ UNCHANGED <<cancelTool, cancelStep>>

Ends(s, how) ==
  /\ run' = [run EXCEPT ![s] = "over"]
  /\ outcome' = [outcome EXCEPT ![s] = how]

EnterLoop(s) ==
  /\ RunStep(s, "early", "model")
  /\ Undisturbed(s)
  /\ UNCHANGED <<parent, row, finish, outcome, tool, abortVars>>

PreludeRaises(s) ==
  /\ run[s] = "early"
  /\ Ends(s, "raised")
  /\ Undisturbed(s)
  /\ UNCHANGED <<parent, row, finish, tool, abortVars>>

(* RunOptions.depth of a session's run: _execute_run does not set it.       *)
Depth(s) == 0

(* The model answers with a set of task calls.  The tool is withheld and    *)
(* refused once the depth limit is reached.                                 *)
LaunchTools(s, cs) ==
  /\ Depth(s) < MaxDepth
  /\ \A c \in cs : c # Root /\ tool[c] = "none"
  /\ RunStep(s, "model", "gather")
  /\ Undisturbed(s)
  /\ parent' = [c \in Sessions |-> IF c \in cs THEN s ELSE parent[c]]
  /\ tool' = [c \in Sessions |-> IF c \in cs THEN "creating" ELSE tool[c]]
  /\ UNCHANGED <<row, finish, outcome, abortVars>>

(* The gather is over when every call is.  Its outcome: the cancellation,   *)
(* if it was cancelled; else the CancelledError of a call, which            *)
(* _run_step_tools re-raises; else the outcomes go back to the model.       *)
StepCancelled(s) ==
  \/ s \in cancelStep
  \/ s \in cancelRun
  \/ \E c \in StepCalls(s) : tool[c] = "cancelled"

StepOver(s) ==
  /\ run[s] = "gather"
  /\ \A c \in StepCalls(s) : ~ToolOpen(c)
  /\ run' = [run EXCEPT ![s] = IF StepCancelled(s) THEN "aborting" ELSE "model"]
  /\ tool' = [c \in Sessions |-> IF c \in StepCalls(s) THEN "taken" ELSE tool[c]]
  /\ cancelRun' = cancelRun \ {s}
  /\ cancelStep' = cancelStep \ {s}
  /\ UNCHANGED <<parent, row, finish, outcome, cancelTool, abortVars>>

LoopEnds(s) ==
  /\ RunStep(s, "model", "completing")
  /\ Undisturbed(s)
  /\ UNCHANGED <<parent, row, finish, outcome, tool, abortVars>>

(* messages.complete, on the way out of the try block.                      *)
CompleteMessage(s) ==
  /\ \/ /\ RunStep(s, "completing", "closing")
        /\ \E f \in {"stop", "error"} : finish' = [finish EXCEPT ![s] = f]
     \/ /\ RunStep(s, "aborting", "closing")
        /\ finish' = [finish EXCEPT ![s] = "aborted"]
  /\ Undisturbed(s)
  /\ UNCHANGED <<parent, row, outcome, tool, abortVars>>

(* The finally clause; the CancelledError of an aborted run is re-raised.   *)
CloseRun(s) ==
  /\ run[s] = "closing"
  /\ row' = [row EXCEPT ![s] = "idle"]
  /\ Ends(s, IF finish[s] = "aborted" THEN "cancelled" ELSE "normal")
  /\ Undisturbed(s)
  /\ UNCHANGED <<parent, finish, tool, abortVars>>

CancelledRun(s) ==
  /\ Interrupted(s)
  /\ \/ /\ run[s] = "early"
        /\ Ends(s, "cancelled")
        /\ UNCHANGED row
     \/ /\ \E from \in {"model", "completing"} : RunStep(s, from, "aborting")
        /\ UNCHANGED <<row, outcome>>
     \/ /\ RunStep(s, "aborting", "closing")
        /\ UNCHANGED <<row, outcome>>
     \/ /\ run[s] = "closing"
        /\ Ends(s, "cancelled")
        /\ \E st \in {row[s], "idle"} : row' = [row EXCEPT ![s] = st]
  /\ IF run[s] = "aborting"
       THEN \E f \in {finish[s], "aborted"} : finish' = [finish EXCEPT ![s] = f]
       ELSE UNCHANGED finish
  /\ UNCHANGED <<parent, tool, abortVars>>

(* The steps that depend on the model.                                      *)
ModelStep(s) ==
  LoopEnds(s) \/ \E cs \in SUBSET Sessions : cs # {} /\ LaunchTools(s, cs)

RunProgress(s) ==
  \/ EnterLoop(s) \/ PreludeRaises(s) \/ StepOver(s) \/ CompleteMessage(s)
  \/ CloseRun(s) \/ CancelledRun(s)

-----------------------------------------------------------------------------
(* _run_subagent_tool, the tool call that creates child session c           *)

ToolStep(c, from, to) ==
  /\ tool[c] = from
  /\ tool' = [tool EXCEPT ![c] = to]

Uncancelled(c) == c \notin cancelTool /\ UNCHANGED cancelVars

CreateChild(c) ==
  /\ ToolStep(c, "creating", "starting")
  /\ row' = [row EXCEPT ![c] = "idle"]
  /\ Uncancelled(c)
  /\ UNCHANGED <<parent, finish, run, outcome, abortVars>>

(* Variant: a status the model does not have.                               *)
MarkChildRunning(c) ==
  /\ tool[c] = "starting"
  /\ row[c] = "idle"
  /\ row' = [row EXCEPT ![c] = "running"]
  /\ Uncancelled(c)
  /\ UNCHANGED <<parent, finish, run, outcome, tool, abortVars>>

(* start_run, up to the child's row being marked busy ...                   *)
MarkChildBusy(c) ==
  /\ tool[c] = "starting"
  /\ row[c] = "idle"
  /\ row' = [row EXCEPT ![c] = "busy"]
  /\ Uncancelled(c)
  /\ UNCHANGED <<parent, finish, run, outcome, tool, abortVars>>

(* ... and the spawning of its run; start_run still emits an event.         *)
SpawnChild(c) ==
  /\ row[c] = "busy"
  /\ ToolStep(c, "starting", "started")
  /\ run' = [run EXCEPT ![c] = "early"]
  /\ Uncancelled(c)
  /\ UNCHANGED <<parent, row, finish, outcome, abortVars>>

(* start_run raises: an ordinary tool error.                                *)
StartFails(c) ==
  /\ ToolStep(c, "starting", "done")
  /\ Uncancelled(c)
  /\ UNCHANGED <<treeVars, abortVars>>

(* child_task is read from the registry and awaited, unless it already left *)
(* the registry.                                                            *)
JoinChild(c) ==
  /\ ToolStep(c, "started", IF Registered(c) THEN "joining" ELSE "reporting")
  /\ Uncancelled(c)
  /\ UNCHANGED <<treeVars, abortVars>>

(* The await returns, or raises what the child's task ended with.           *)
AfterJoin == [normal |-> "reporting", raised |-> "done", cancelled |-> "cancelled"]

ChildOver(c) ==
  /\ run[c] = "over"
  /\ ToolStep(c, "joining", AfterJoin[outcome[c]])
  /\ Uncancelled(c)
  /\ UNCHANGED <<treeVars, abortVars>>

Report(c) ==
  /\ ToolStep(c, "reporting", "done")
  /\ Uncancelled(c)
  /\ UNCHANGED <<treeVars, abortVars>>

(* Variants: the clause cancels the child's task without joining it; there  *)
(* is no such clause.                                                       *)
CancelledToolNoJoin(c) ==
  /\ c \in cancelTool
  /\ ToolOpen(c)
  /\ tool' = [tool EXCEPT ![c] = "cancelled"]
  /\ cancelRun' = cancelRun \cup (IF Registered(c) THEN HitRuns(c) ELSE {})
  /\ cancelStep' = cancelStep \cup HitSteps(c)
  /\ cancelTool' = (cancelTool \ {c}) \cup HitTools(c)
  /\ UNCHANGED <<treeVars, abortVars>>

CancelledToolLeavesChild(c) ==
  /\ c \in cancelTool
  /\ ToolOpen(c)
  /\ tool' = [tool EXCEPT ![c] = "cancelled"]
  /\ cancelTool' = cancelTool \ {c}
  /\ UNCHANGED <<treeVars, cancelRun, cancelStep, abortVars>>

(* The "except CancelledError" clause cancels and joins the child's task    *)
(* when that is still registered.                                           *)
CancelledTool(c) ==
  /\ c \in cancelTool
  /\ IF tool[c] = "started" /\ Registered(c)
       THEN /\ tool' = [tool EXCEPT ![c] = "handler"]
            /\ cancelRun' = cancelRun \cup HitRuns(c)
            /\ cancelStep' = cancelStep \cup HitSteps(c)
            /\ cancelTool' = (cancelTool \cup HitTools(c)) \ {c}
       ELSE /\ tool' = [tool EXCEPT ![c] = "cancelled"]
            /\ cancelTool' = cancelTool \ {c}
            /\ UNCHANGED <<cancelRun, cancelStep>>
  /\ \/ UNCHANGED row
     \/ tool[c] = "creating" /\ row' = [row EXCEPT ![c] = "idle"]
     \/ tool[c] = "starting" /\ row' = [row EXCEPT ![c] = "busy"]
  /\ UNCHANGED <<parent, finish, run, outcome, abortVars>>

HandlerJoined(c) ==
  /\ run[c] = "over"
  /\ ToolStep(c, "handler", "cancelled")
  /\ Uncancelled(c)
  /\ UNCHANGED <<treeVars, abortVars>>

ToolProgress(c) ==
  \/ CreateChild(c) \/ MarkChildBusy(c) \/ SpawnChild(c) \/ StartFails(c)
  \/ JoinChild(c) \/ ChildOver(c) \/ Report(c) \/ CancelledTool(c) \/ HandlerJoined(c)

-----------------------------------------------------------------------------
(* abort_run, on the session the user names and then on its children.       *)

AbortStep(a, from, to) ==
  /\ abort[a] = from
  /\ abort' = [abort EXCEPT ![a] = to]

Known(s) == row[s] # "absent"

(* Read the session and the list of its children.                           *)
LoadTarget(a, s) ==
  /\ target' = [target EXCEPT ![a] = s]
  /\ seen' = [seen EXCEPT ![a] = row[s]]
  /\ todo' = [todo EXCEPT ![a] = (@ \ {s}) \cup {c \in Children(s) : Known(c)}]
  /\ UNCHANGED <<treeVars, tool, cancelVars, stopped>>

RequestAbort(a, s) ==
  /\ Known(s)
  /\ AbortStep(a, "ready", "loaded")
  /\ LoadTarget(a, s)
  /\ asked' = [asked EXCEPT ![a] = s]

AbortNext(a) ==
  /\ AbortStep(a, "next", "loaded")
  /\ \E s \in todo[a] : LoadTarget(a, s)
  /\ UNCHANGED asked

CancelTarget(a) ==
  /\ AbortStep(a, "loaded", "joining")
  /\ Registered(target[a])
  /\ Cancel(target[a])
  /\ stopped' = IF target[a] = asked[a] THEN stopped \cup {a} ELSE stopped
  /\ UNCHANGED <<treeVars, tool, target, todo, seen, asked>>

(* No task is registered: "idle" is written if the row as read was not.     *)
NothingToCancel(a) ==
  /\ AbortStep(a, "loaded", IF seen[a] = "idle" THEN "next" ELSE "settling")
  /\ ~Registered(target[a])
  /\ UNCHANGED <<treeVars, tool, cancelVars, target, todo, seen, asked, stopped>>

TargetJoined(a) ==
  /\ AbortStep(a, "joining", "settling")
  /\ run[target[a]] = "over"
  /\ UNCHANGED <<treeVars, tool, cancelVars, target, todo, seen, asked, stopped>>

(* Variant: the belt-and-braces write is left out.                          *)
SettleNothing(a) ==
  /\ AbortStep(a, "settling", "next")
  /\ UNCHANGED <<treeVars, tool, cancelVars, target, todo, seen, asked, stopped>>

(* The belt-and-braces write of "idle", then on to the children.            *)
SettleTarget(a) ==
  /\ AbortStep(a, "settling", "next")
  /\ row' = [row EXCEPT ![target[a]] = "idle"]
  /\ UNCHANGED <<parent, finish, run, outcome, tool, cancelVars, target, todo, seen,
                 asked, stopped>>

AbortReturns(a) ==
  /\ todo[a] = {}
  /\ AbortStep(a, "next", "returned")
  /\ UNCHANGED <<treeVars, tool, cancelVars, target, todo, seen, asked, stopped>>

AbortProgress(a) ==
  \/ AbortNext(a) \/ CancelTarget(a) \/ NothingToCancel(a) \/ TargetJoined(a)
  \/ SettleTarget(a) \/ AbortReturns(a)

-----------------------------------------------------------------------------
Next ==
  \/ \E s \in Sessions : ModelStep(s) \/ RunProgress(s) \/ ToolProgress(s)
  \/ \E a \in Aborts : AbortProgress(a) \/ \E s \in Sessions : RequestAbort(a, s)

Spec == Init /\ [][Next]_vars

(* Everything but the model and the user makes progress.                    *)
Fairness ==
  /\ \A s \in Sessions : WF_vars(RunProgress(s)) /\ WF_vars(ToolProgress(s))
  /\ \A a \in Aborts : WF_vars(AbortProgress(a))

FairSpec == Spec /\ Fairness

-----------------------------------------------------------------------------
(* Properties                                                               *)

TypeOK ==
  /\ parent \in [Sessions -> Sessions \cup {None}]
  /\ row \in [Sessions -> {"absent", "idle", "busy"}]
  /\ finish \in [Sessions -> {"none", "stop", "error", "aborted"}]
  /\ run \in [Sessions -> RunPhases]
  /\ outcome \in [Sessions -> {"none", "normal", "raised", "cancelled"}]
  /\ tool \in [Sessions -> ToolPhases]
  /\ cancelRun \in SUBSET Sessions
  /\ cancelTool \in SUBSET Sessions
  /\ cancelStep \in SUBSET Sessions
  /\ abort \in [Aborts -> {"ready", "loaded", "joining", "settling", "next", "returned"}]
  /\ target \in [Aborts -> Sessions \cup {None}]
  /\ todo \in [Aborts -> SUBSET Sessions]
  /\ seen \in [Aborts -> {"absent", "idle", "busy"}]
  /\ asked \in [Aborts -> Sessions \cup {None}]
  /\ stopped \in SUBSET Aborts

(* Structured concurrency: while a child's run executes, the tool call that *)
(* started it is open and the parent's run is still in the step of that     *)
(* call.  However a run is aborted, from whichever level and how often, it  *)
(* never leaves a subagent behind, but for the finally clause of a run that *)
(* left the registry while its start_run was still returning.               *)
NoOrphanRun ==
  \A c \in Sessions \ {Root} :
    Registered(c) => /\ tool[c] \in {"started", "joining", "handler"}
                     /\ run[parent[c]] = "gather"

(* Below(s): s and every session under it, the least set that holds s and   *)
(* the children of its members.                                             *)
Below(s) ==
  {t \in Sessions : \A R \in SUBSET Sessions :
     s \in R /\ (\A r \in R : Children(r) \subseteq R) => t \in R}

(* When the cancelled run of the session the user aborted has been joined,  *)
(* no run is active any more in that session or below it, at any depth, and *)
(* none will be: no tool call is left that could spawn one.                 *)
AbortStopsTree ==
  \A a \in stopped :
    abort[a] \in {"settling", "next", "returned"} =>
      \A c \in Below(asked[a]) : ~Registered(c) /\ (c # asked[a] => ~ToolOpen(c))

(* ... and after the abort the session is shown as idle.                    *)
AbortedIsIdle ==
  \A a \in stopped : abort[a] = "returned" => row[asked[a]] = "idle"

(* A cancellation is never lost on the way down: a step that was cancelled  *)
(* and still has open calls has a cancellation under way for one of them.   *)
CancelNotLost ==
  \A s \in cancelStep :
    \A c \in StepCalls(s) :
      ToolOpen(c) => c \in cancelTool \/ c \in cancelRun \/ c \in cancelStep
                       \/ tool[c] = "handler" \/ run[c] \in {"aborting", "closing", "over"}

(* An abort returns, whatever the models do.                                *)
AbortCompletes == \A a \in Aborts : abort[a] = "loaded" ~> abort[a] = "returned"

-----------------------------------------------------------------------------
(* What the documentation says and the code does not do.                    *)

(* "Parent build/plan sessions are left running"                            *)
(* (abort_busy_computeruse_for_workspace): only a run the user aborted, or  *)
(* one below it, is marked aborted.                                         *)
ParentKeepsRunning ==
  finish[Root] = "aborted" => \E a \in Aborts : asked[a] = Root
=============================================================================
