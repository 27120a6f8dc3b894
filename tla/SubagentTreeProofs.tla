------------------------- MODULE SubagentTreeProofs -------------------------
(****************************************************************************)
(* Theorems about SubagentTree, for every set of sessions and aborts and    *)
(* every depth of the tree.                                                 *)
(****************************************************************************)
EXTENDS SubagentTree, TLAPS

(* A run that is over ended in some way: the await of a child's run raises  *)
(* or returns accordingly.                                                  *)
OverHasOutcome == \A s \in Sessions : run[s] = "over" => outcome[s] # "none"

(* Every variable keeps its type; that the phase after the await of a child *)
(* is defined rests on OverHasOutcome.                                      *)
LEMMA TypeAndOutcome == Spec => [](TypeOK /\ OverHasOutcome)
<1> USE RootAssumption
<1>1. Init => TypeOK /\ OverHasOutcome
  BY DEF Init, TypeOK, OverHasOutcome, RunPhases, ToolPhases
<1>2. TypeOK /\ OverHasOutcome /\ [Next]_vars => TypeOK'
  <2> SUFFICES ASSUME TypeOK, OverHasOutcome, [Next]_vars PROVE TypeOK'
    OBVIOUS
  <2> USE DEF TypeOK, RunPhases, ToolPhases
  <2>1. ASSUME NEW s \in Sessions, ModelStep(s) PROVE TypeOK'
    <3>1. CASE LoopEnds(s)
      BY <3>1 DEF LoopEnds, RunStep, Undisturbed, abortVars, cancelVars
    <3>2. ASSUME NEW cs \in SUBSET Sessions, LaunchTools(s, cs) PROVE TypeOK'
      BY <3>2 DEF LaunchTools, RunStep, Undisturbed, abortVars, cancelVars
    <3> QED BY <2>1, <3>1, <3>2 DEF ModelStep
  <2>2. ASSUME NEW s \in Sessions, RunProgress(s) PROVE TypeOK'
    <3> USE DEF RunStep, Undisturbed, Interrupted, Ends, abortVars, cancelVars
    <3>1. CASE EnterLoop(s) BY <3>1 DEF EnterLoop
    <3>2. CASE PreludeRaises(s) BY <3>2 DEF PreludeRaises
    <3>3. CASE StepOver(s) BY <3>3 DEF StepOver
    <3>4. CASE CompleteMessage(s) BY <3>4 DEF CompleteMessage
    <3>5. CASE CloseRun(s) BY <3>5 DEF CloseRun
    <3>6. CASE CancelledRun(s)
      <4>1. run' \in [Sessions -> RunPhases]
        BY <3>6 DEF CancelledRun
      <4>2. outcome' \in [Sessions -> {"none", "normal", "raised", "cancelled"}]
        BY <3>6 DEF CancelledRun
      <4>3. row' \in [Sessions -> {"absent", "idle", "busy"}]
        BY <3>6 DEF CancelledRun
      <4>4. finish' \in [Sessions -> {"none", "stop", "error", "aborted"}]
        BY <3>6 DEF CancelledRun
      <4>5. cancelRun' \in SUBSET Sessions
        BY <3>6 DEF CancelledRun
      <4> QED BY <3>6, <4>1, <4>2, <4>3, <4>4, <4>5 DEF CancelledRun
    <3> QED BY <2>2, <3>1, <3>2, <3>3, <3>4, <3>5, <3>6 DEF RunProgress
  <2>3. ASSUME NEW c \in Sessions, ToolProgress(c) PROVE TypeOK'
    <3> USE DEF ToolStep, Uncancelled, treeVars, abortVars, cancelVars
    <3>1. CASE CreateChild(c) BY <3>1 DEF CreateChild
    <3>2. CASE MarkChildBusy(c) BY <3>2 DEF MarkChildBusy
    <3>3. CASE SpawnChild(c) BY <3>3 DEF SpawnChild
    <3>4. CASE StartFails(c) BY <3>4 DEF StartFails
    <3>5. CASE JoinChild(c) BY <3>5 DEF JoinChild
    <3>6. CASE ChildOver(c)
      <4>1. outcome[c] \in {"normal", "raised", "cancelled"}
        BY <3>6 DEF ChildOver, OverHasOutcome
      <4>2. AfterJoin[outcome[c]] \in ToolPhases
        BY <4>1 DEF AfterJoin
      <4>3. tool' \in [Sessions -> ToolPhases]
        BY <3>6, <4>2 DEF ChildOver
      <4> QED BY <3>6, <4>3 DEF ChildOver
    <3>7. CASE Report(c) BY <3>7 DEF Report
    <3>8. CASE CancelledTool(c)
      <4>1. tool' \in [Sessions -> ToolPhases]
        BY <3>8 DEF CancelledTool
      <4>2. row' \in [Sessions -> {"absent", "idle", "busy"}]
        BY <3>8 DEF CancelledTool
      <4>3. /\ cancelRun' \in SUBSET Sessions
            /\ cancelTool' \in SUBSET Sessions
            /\ cancelStep' \in SUBSET Sessions
        BY <3>8 DEF CancelledTool, HitRuns, HitSteps, HitTools
      <4> QED BY <3>8, <4>1, <4>2, <4>3 DEF CancelledTool
    <3>9. CASE HandlerJoined(c) BY <3>9 DEF HandlerJoined
    <3> QED BY <2>3, <3>1, <3>2, <3>3, <3>4, <3>5, <3>6, <3>7, <3>8, <3>9
            DEF ToolProgress
  <2>4. ASSUME NEW a \in Aborts, NEW s \in Sessions, RequestAbort(a, s) PROVE TypeOK'
    BY <2>4 DEF RequestAbort, AbortStep, LoadTarget, Children, treeVars, cancelVars
  <2>5. ASSUME NEW a \in Aborts, AbortProgress(a) PROVE TypeOK'
    <3> USE DEF AbortStep, treeVars, cancelVars
    <3>1. CASE AbortNext(a) BY <3>1 DEF AbortNext, LoadTarget, Children
    <3>2. CASE CancelTarget(a)
      BY <3>2 DEF CancelTarget, Cancel, HitRuns, HitSteps, HitTools
    <3>3. CASE NothingToCancel(a) BY <3>3 DEF NothingToCancel
    <3>4. CASE TargetJoined(a) BY <3>4 DEF TargetJoined
    <3>5. CASE SettleTarget(a) BY <3>5 DEF SettleTarget
    <3>6. CASE AbortReturns(a) BY <3>6 DEF AbortReturns
    <3> QED BY <2>5, <3>1, <3>2, <3>3, <3>4, <3>5, <3>6 DEF AbortProgress
  <2>6. CASE UNCHANGED vars
    BY <2>6 DEF vars, treeVars, cancelVars, abortVars
  <2> QED BY <2>1, <2>2, <2>3, <2>4, <2>5, <2>6 DEF Next
<1>3. TypeOK /\ OverHasOutcome /\ [Next]_vars => OverHasOutcome'
  <2> SUFFICES ASSUME TypeOK, OverHasOutcome, [Next]_vars,
                      NEW t \in Sessions, run'[t] = "over"
               PROVE  outcome'[t] # "none"
    BY DEF OverHasOutcome
  <2> USE DEF TypeOK, OverHasOutcome, RunStep, Ends, treeVars
  <2>1. ASSUME NEW s \in Sessions, ModelStep(s) PROVE outcome'[t] # "none"
    BY <2>1 DEF ModelStep, LoopEnds, LaunchTools
  <2>2. ASSUME NEW s \in Sessions, RunProgress(s) PROVE outcome'[t] # "none"
    BY <2>2 DEF RunProgress, EnterLoop, PreludeRaises, StepOver, CompleteMessage,
                CloseRun, CancelledRun
  <2>3. ASSUME NEW c \in Sessions, ToolProgress(c) PROVE outcome'[t] # "none"
    BY <2>3 DEF ToolProgress, CreateChild, MarkChildBusy, SpawnChild, StartFails,
                JoinChild, ChildOver, Report, CancelledTool, HandlerJoined
  <2>4. ASSUME NEW a \in Aborts, NEW s \in Sessions, RequestAbort(a, s)
        PROVE  outcome'[t] # "none"
    BY <2>4 DEF RequestAbort, LoadTarget
  <2>5. ASSUME NEW a \in Aborts, AbortProgress(a) PROVE outcome'[t] # "none"
    BY <2>5 DEF AbortProgress, AbortNext, LoadTarget, CancelTarget, NothingToCancel,
                TargetJoined, SettleTarget, AbortReturns
  <2>6. CASE UNCHANGED vars
    BY <2>6 DEF vars
  <2> QED BY <2>1, <2>2, <2>3, <2>4, <2>5, <2>6 DEF Next
<1> QED BY <1>1, <1>2, <1>3, PTL DEF Spec

(* Every variable keeps its type.                                           *)
THEOREM TreeTypeCorrect == Spec => []TypeOK
BY TypeAndOutcome, PTL

-----------------------------------------------------------------------------
(* Structured concurrency                                                   *)

(* The tool call that creates a session comes before the session's run.     *)
SpawnedByCall ==
  \A c \in Sessions \ {Root} :
    tool[c] \in {"none", "creating", "starting"} => run[c] = "none"

(* The run of a subagent is active only while its tool call is open.        *)
RunsInsideCall ==
  \A c \in Sessions \ {Root} :
    Registered(c) => tool[c] \in {"started", "joining", "handler"}

(* A tool call is open only while its parent's run is in the step.          *)
CallInsideStep ==
  \A c \in Sessions : ToolOpen(c) => parent[c] \in Sessions /\ run[parent[c]] = "gather"

(* A CancelledError waits for a tool call only when the call is open and    *)
(* suspended on something else than the child's run: the cancellation of a  *)
(* call that awaits its child is the child's.                               *)
CancelledElsewhere == \A c \in cancelTool : ToolOpen(c) /\ ~Awaits(c)

(* The session the user prompted is nobody's child.                         *)
RootIsRoot == parent[Root] = None /\ tool[Root] = "none"

TreeInv ==
  /\ SpawnedByCall
  /\ RunsInsideCall
  /\ CallInsideStep
  /\ CancelledElsewhere
  /\ RootIsRoot

(* Each kind of step keeps the tree in shape: the steps of a run ...        *)
LEMMA RunKeepsTree ==
  ASSUME TypeOK, TreeInv, NEW s \in Sessions, ModelStep(s) \/ RunProgress(s)
  PROVE  TreeInv'
<1> USE RootAssumption
<1> USE DEF TypeOK, TreeInv, SpawnedByCall, RunsInsideCall, CallInsideStep,
            CancelledElsewhere, RootIsRoot, Registered, ToolOpen, Awaits
<1>1. ASSUME NEW cs \in SUBSET Sessions, LaunchTools(s, cs) PROVE TreeInv'
  <2> USE DEF LaunchTools, RunStep, Undisturbed, cancelVars
  <2>1. SpawnedByCall' BY <1>1
  <2>2. RunsInsideCall' BY <1>1
  <2>3. CallInsideStep' BY <1>1
  <2>4. CancelledElsewhere' BY <1>1
  <2>5. RootIsRoot' BY <1>1
  <2> QED BY <2>1, <2>2, <2>3, <2>4, <2>5
<1>2. CASE StepOver(s)
  <2> USE DEF StepOver, StepCalls, Children
  <2>1. s \notin StepCalls(s)
    BY <1>2
  <2>2. SpawnedByCall' BY <1>2, <2>1
  <2>3. RunsInsideCall' BY <1>2, <2>1
  <2>4. CallInsideStep' BY <1>2
  <2>5. CancelledElsewhere' BY <1>2
  <2>6. RootIsRoot' BY <1>2
  <2> QED BY <2>2, <2>3, <2>4, <2>5, <2>6
<1>3. CASE \/ EnterLoop(s) \/ PreludeRaises(s) \/ CompleteMessage(s) \/ CloseRun(s)
           \/ CancelledRun(s) \/ LoopEnds(s)
  <2>1. /\ run[s] \in {"early", "model", "completing", "aborting", "closing"}
        /\ \E to \in RunPhases \ {"none", "gather"} : run' = [run EXCEPT ![s] = to]
        /\ UNCHANGED <<parent, tool, cancelTool>>
    BY <1>3 DEF EnterLoop, PreludeRaises, CompleteMessage, CloseRun, CancelledRun,
                LoopEnds, RunStep, Ends, Undisturbed, Interrupted, cancelVars, RunPhases
  <2>2. run[s] = "closing" => run' = [run EXCEPT ![s] = "over"]
    BY <1>3 DEF EnterLoop, PreludeRaises, CompleteMessage, CloseRun, CancelledRun,
                LoopEnds, RunStep, Ends
  <2> QED BY <2>1, <2>2 DEF RunPhases
<1> QED BY <1>1, <1>2, <1>3 DEF ModelStep, RunProgress

(* ... those of a tool call ...                                             *)
LEMMA ToolKeepsTree ==
  ASSUME TypeOK, OverHasOutcome, TreeInv, NEW c \in Sessions, ToolProgress(c)
  PROVE  TreeInv'
<1> USE RootAssumption
<1> USE DEF TypeOK, TreeInv, SpawnedByCall, RunsInsideCall, CallInsideStep,
            CancelledElsewhere, RootIsRoot, Registered, ToolOpen, Awaits, treeVars,
            ToolStep, Uncancelled, cancelVars
<1>1. CASE SpawnChild(c)
  BY <1>1 DEF SpawnChild
<1>2. CASE CancelledTool(c)
  <2>1. tool[c] \in {"started", "joining", "handler"} /\ Registered(c) => tool[c] = "started"
    BY <1>2 DEF CancelledTool
  <2>2. SpawnedByCall' BY <1>2 DEF CancelledTool
  <2>3. RunsInsideCall' BY <1>2, <2>1 DEF CancelledTool
  <2>4. CallInsideStep' BY <1>2 DEF CancelledTool
  <2>5. CancelledElsewhere'
    <3>1. SUFFICES ASSUME NEW d \in cancelTool' PROVE (ToolOpen(d) /\ ~Awaits(d))'
      OBVIOUS
    <3>2. d # c /\ (d \in cancelTool \/ d \in HitTools(c))
      BY <1>2 DEF CancelledTool
    <3>3. d \in HitTools(c) => d \in Sessions /\ ToolOpen(d) /\ ~Awaits(d)
      BY DEF HitTools
    <3>4. d \in Sessions /\ ToolOpen(d) /\ ~Awaits(d)
      BY <3>2, <3>3
    <3>5. tool'[d] = tool[d] /\ run' = run
      BY <1>2, <3>2, <3>4 DEF CancelledTool
    <3> QED BY <3>4, <3>5
  <2>6. RootIsRoot' BY <1>2 DEF CancelledTool
  <2> QED BY <2>2, <2>3, <2>4, <2>5, <2>6
<1>3. CASE ChildOver(c) \/ HandlerJoined(c)
  <2>1. \E to \in {"reporting", "done", "cancelled"} : tool' = [tool EXCEPT ![c] = to]
    BY <1>3 DEF ChildOver, HandlerJoined, OverHasOutcome, AfterJoin
  <2> QED BY <1>3, <2>1 DEF ChildOver, HandlerJoined
<1>4. CASE \/ CreateChild(c) \/ MarkChildBusy(c) \/ StartFails(c) \/ JoinChild(c)
           \/ Report(c)
  BY <1>4 DEF CreateChild, MarkChildBusy, StartFails, JoinChild, Report
<1> QED BY <1>1, <1>2, <1>3, <1>4 DEF ToolProgress

(* ... and those of an abort request.                                       *)
LEMMA AbortKeepsTree ==
  ASSUME TypeOK, TreeInv, NEW a \in Aborts,
         AbortProgress(a) \/ \E s \in Sessions : RequestAbort(a, s)
  PROVE  TreeInv'
<1> USE DEF TreeInv, SpawnedByCall, RunsInsideCall, CallInsideStep,
            CancelledElsewhere, RootIsRoot, Registered, ToolOpen, Awaits
<1>1. UNCHANGED <<parent, run, tool>>
  BY DEF AbortProgress, RequestAbort, AbortNext, LoadTarget, CancelTarget,
         NothingToCancel, TargetJoined, SettleTarget, AbortReturns, treeVars
<1>2. \/ UNCHANGED cancelTool
      \/ \E s : cancelTool' = cancelTool \cup HitTools(s)
  BY DEF AbortProgress, RequestAbort, AbortNext, LoadTarget, CancelTarget, Cancel,
         NothingToCancel, TargetJoined, SettleTarget, AbortReturns, cancelVars
<1> QED BY <1>1, <1>2 DEF HitTools

LEMMA TreeKept == Spec => []TreeInv
<1>1. Init => TreeInv
  BY RootAssumption DEF Init, TreeInv, SpawnedByCall, RunsInsideCall, CallInsideStep,
     CancelledElsewhere, RootIsRoot, Registered, ToolOpen
<1>2. TypeOK /\ OverHasOutcome /\ TreeInv /\ [Next]_vars => TreeInv'
  <2> SUFFICES ASSUME TypeOK, OverHasOutcome, TreeInv, [Next]_vars PROVE TreeInv'
    OBVIOUS
  <2>1. CASE UNCHANGED vars
    BY <2>1 DEF vars, treeVars, cancelVars, TreeInv, SpawnedByCall, RunsInsideCall,
       CallInsideStep, CancelledElsewhere, RootIsRoot, Registered, ToolOpen, Awaits
  <2> QED BY <2>1, RunKeepsTree, ToolKeepsTree, AbortKeepsTree DEF Next
<1> QED BY <1>1, <1>2, TypeAndOutcome, PTL DEF Spec

(* A subagent's run never outlives the step of its parent that asked for    *)
(* it.                                                                      *)
THEOREM NoOrphans == Spec => []NoOrphanRun
<1>1. TreeInv => NoOrphanRun
  BY DEF TreeInv, NoOrphanRun, RunsInsideCall, CallInsideStep, ToolOpen
<1> QED BY <1>1, TreeKept, PTL

-----------------------------------------------------------------------------
(* The least sets                                                           *)

(* A cancellation reaches the run it is given, and with it what that passes *)
(* the cancellation on to.                                                  *)
LEMMA ReachedContains == ASSUME NEW s \in Sessions PROVE s \in Reached(s)
  BY DEF Reached

LEMMA ReachedPassesOn == ASSUME NEW s PROVE PassesOn(Reached(s))
<1> SUFFICES ASSUME NEW c \in Sessions, parent[c] \in Reached(s), run[parent[c]] = "gather",
                    Awaits(c), NEW R \in SUBSET Sessions, s \in R, PassesOn(R)
             PROVE  c \in R
  BY DEF PassesOn, Reached
<1>1. parent[c] \in R
  BY DEF Reached
<1> QED BY <1>1 DEF PassesOn

(* Whatever holds s and the children of its members holds what is below s.  *)
LEMMA BelowLeast ==
  ASSUME NEW s, NEW R \in SUBSET Sessions, s \in R, \A r \in R : Children(r) \subseteq R
  PROVE  Below(s) \subseteq R
  BY DEF Below

-----------------------------------------------------------------------------
(* Cancellation                                                             *)

(* A tool call that is past the start of its child's run has that run.      *)
StartedHasRun ==
  \A c \in Sessions \ {Root} :
    tool[c] \in {"started", "joining", "handler", "reporting"} => run[c] # "none"

(* Only a step in progress is cancelled as a step.                          *)
StepsInGather == \A s \in cancelStep : run[s] = "gather"

(* The cancellation of call c of a cancelled step is under way.             *)
UnderWay(c) ==
  \/ c \in cancelTool \/ c \in cancelRun \/ c \in cancelStep
  \/ tool[c] = "handler" \/ run[c] \in {"aborting", "closing", "over"}

(* A cancellation hits every open call of every step it hits: the call      *)
(* itself, or the run or the step it awaits.                                *)
LEMMA HitsCalls ==
  ASSUME TypeOK, TreeInv, StartedHasRun, NEW r \in Sessions,
         NEW s \in HitSteps(r), NEW c \in StepCalls(s), ToolOpen(c)
  PROVE  c \in HitTools(r) \cup HitRuns(r) \cup HitSteps(r)
<1>1. c \in Sessions /\ parent[c] = s /\ run[s] = "gather" /\ s \in Reached(r)
  BY DEF StepCalls, Children, HitSteps, InStep
<1>2. CASE ~Awaits(c)
  BY <1>1, <1>2 DEF HitTools
<1>3. CASE Awaits(c)
  <2>1. c \in Reached(r)
    BY <1>1, <1>3, ReachedPassesOn DEF PassesOn
  <2>2. c # Root
    BY <1>3, RootAssumption DEF TreeInv, RootIsRoot, Awaits
  <2>3. Live(c)
    BY <1>1, <1>3, <2>2 DEF StartedHasRun, Awaits, Live
  <2> QED BY <1>1, <2>1, <2>3 DEF HitRuns, HitSteps
<1> QED BY <1>2, <1>3

CancelInv == StartedHasRun /\ StepsInGather /\ CancelNotLost

(* The steps of a run hand a cancellation on or finish with it ...          *)
LEMMA RunKeepsCancel ==
  ASSUME TypeOK, TreeInv, CancelInv, NEW s \in Sessions, ModelStep(s) \/ RunProgress(s)
  PROVE  CancelInv'
<1> USE DEF TypeOK, CancelInv
<1>1. ASSUME NEW cs \in SUBSET Sessions, LaunchTools(s, cs) PROVE CancelInv'
  <2> USE DEF LaunchTools, RunStep, Undisturbed, cancelVars
  <2>1. StartedHasRun'
    BY <1>1 DEF StartedHasRun
  <2>2. s \notin cancelStep /\ StepsInGather'
    BY <1>1 DEF StepsInGather
  <2>3. ASSUME NEW t \in cancelStep', NEW c \in StepCalls(t)', ToolOpen(c)' PROVE UnderWay(c)'
    <3>1. c \in StepCalls(t) /\ ToolOpen(c) /\ c \notin cs /\ t \in cancelStep
      BY <1>1, <2>2, <2>3 DEF StepCalls, Children, ToolOpen
    <3>2. UnderWay(c)
      BY <3>1 DEF CancelNotLost, UnderWay
    <3> QED BY <1>1, <3>1, <3>2 DEF UnderWay, StepCalls, Children
  <2> QED BY <2>1, <2>2, <2>3 DEF CancelNotLost, UnderWay
<1>2. CASE StepOver(s)
  <2> USE DEF StepOver
  <2>1. StartedHasRun'
    BY <1>2 DEF StartedHasRun
  <2>2. StepsInGather'
    BY <1>2 DEF StepsInGather
  <2>3. ASSUME NEW t \in cancelStep', NEW c \in StepCalls(t)', ToolOpen(c)' PROVE UnderWay(c)'
    <3>1. c \in StepCalls(t) /\ ToolOpen(c) /\ t \in cancelStep
      BY <1>2, <2>3 DEF StepCalls, Children, ToolOpen
    <3>2. UnderWay(c) /\ c \in Sessions
      BY <3>1 DEF CancelNotLost, UnderWay, StepCalls, Children
    <3>3. CASE c = s
      BY <1>2, <3>2, <3>3, <3>1, <2>3 DEF UnderWay, StepCancelled
    <3>4. CASE c # s
      BY <1>2, <3>1, <3>2, <3>4, <2>3 DEF UnderWay, ToolOpen
    <3> QED BY <3>3, <3>4
  <2> QED BY <2>1, <2>2, <2>3 DEF CancelNotLost, UnderWay
<1>3. CASE \/ EnterLoop(s) \/ PreludeRaises(s) \/ CompleteMessage(s) \/ CloseRun(s)
           \/ CancelledRun(s) \/ LoopEnds(s)
  <2>1. /\ run[s] \in {"early", "model", "completing", "aborting", "closing"}
        /\ UNCHANGED <<parent, tool, cancelTool, cancelStep>>
        /\ \A c \in Sessions \ {s} : run'[c] = run[c] /\ (c \in cancelRun => c \in cancelRun')
    BY <1>3 DEF EnterLoop, PreludeRaises, CompleteMessage, CloseRun, CancelledRun,
                LoopEnds, RunStep, Ends, Undisturbed, Interrupted, cancelVars
  <2>2. /\ run'[s] # "none"
        /\ s \in cancelRun \/ run[s] \in {"aborting", "closing"} =>
             run'[s] \in {"aborting", "closing", "over"}
    BY <1>3 DEF EnterLoop, PreludeRaises, CompleteMessage, CloseRun, CancelledRun,
                LoopEnds, RunStep, Ends, Undisturbed
  <2>3. StartedHasRun'
    BY <2>1, <2>2 DEF StartedHasRun
  <2>4. StepsInGather'
    BY <2>1 DEF StepsInGather
  <2>5. ASSUME NEW t \in cancelStep', NEW c \in StepCalls(t)', ToolOpen(c)' PROVE UnderWay(c)'
    <3>1. UnderWay(c) /\ c \in Sessions
      BY <2>1, <2>5 DEF CancelNotLost, UnderWay, StepCalls, Children, ToolOpen
    <3> QED BY <2>1, <2>2, <3>1 DEF UnderWay
  <2> QED BY <2>3, <2>4, <2>5 DEF CancelNotLost, UnderWay
<1> QED BY <1>1, <1>2, <1>3 DEF ModelStep, RunProgress

(* ... a tool call that is cancelled cancels the child's run and joins it,  *)
(* or is over ...                                                           *)
LEMMA ToolKeepsCancel ==
  ASSUME TypeOK, OverHasOutcome, TreeInv, CancelInv, NEW d \in Sessions, ToolProgress(d)
  PROVE  CancelInv'
<1> USE DEF TypeOK, CancelInv
<1>1. CASE CancelledTool(d)
  <2>1. /\ UNCHANGED <<parent, run>>
        /\ \A c \in Sessions \ {d} : tool'[c] = tool[c]
        /\ \/ tool'[d] = "cancelled" /\ UNCHANGED <<cancelRun, cancelStep>>
           \/ /\ tool[d] = "started" /\ tool'[d] = "handler"
              /\ cancelRun' = cancelRun \cup HitRuns(d)
              /\ cancelStep' = cancelStep \cup HitSteps(d)
              /\ HitTools(d) \ {d} \subseteq cancelTool'
        /\ cancelTool \ {d} \subseteq cancelTool'
    BY <1>1 DEF CancelledTool
  <2>2. StartedHasRun'
    BY <2>1 DEF StartedHasRun
  <2>3. StepsInGather'
    BY <2>1 DEF StepsInGather, HitSteps, InStep
  <2>4. ASSUME NEW t \in cancelStep', NEW c \in StepCalls(t)', ToolOpen(c)' PROVE UnderWay(c)'
    <3>1. c \in Sessions
      BY DEF StepCalls, Children
    <3>2. CASE c = d
      BY <2>1, <2>4, <3>2 DEF UnderWay, ToolOpen
    <3>3. CASE c # d
      <4>1. c \in StepCalls(t) /\ ToolOpen(c)
        BY <2>1, <2>4, <3>1, <3>3 DEF StepCalls, Children, ToolOpen
      <4>2. CASE t \in cancelStep
        <5>1. UnderWay(c)
          BY <4>1, <4>2 DEF CancelNotLost, UnderWay
        <5> QED BY <2>1, <3>1, <3>3, <5>1 DEF UnderWay
      <4>3. CASE t \notin cancelStep
        <5>1. t \in HitSteps(d)
          BY <2>1, <2>4, <4>3
        <5>2. c \in HitTools(d) \cup HitRuns(d) \cup HitSteps(d)
          BY <4>1, <5>1, HitsCalls
        <5> QED BY <2>1, <2>4, <3>3, <4>3, <5>2 DEF UnderWay
      <4> QED BY <4>2, <4>3
    <3> QED BY <3>2, <3>3
  <2> QED BY <2>2, <2>3, <2>4 DEF CancelNotLost, UnderWay
<1>2. CASE ~CancelledTool(d)
  <2>1. /\ d \notin cancelTool /\ ToolOpen(d)
        /\ UNCHANGED <<parent, cancelTool, cancelRun, cancelStep>>
        /\ \A c \in Sessions \ {d} : tool'[c] = tool[c] /\ run'[c] = run[c]
    BY <1>2 DEF ToolProgress, CreateChild, MarkChildBusy, SpawnChild, StartFails, JoinChild,
                ChildOver, Report, HandlerJoined, Uncancelled, ToolStep, treeVars, cancelVars,
                ToolOpen
  <2>2. d # Root
    BY <2>1, RootAssumption DEF TreeInv, RootIsRoot, ToolOpen
  <2>3. /\ tool[d] = "handler" => tool'[d] = "cancelled"
        /\ run'[d] = run[d] \/ (run[d] = "none" /\ run'[d] = "early")
        /\ tool'[d] \in {"started", "joining", "handler", "reporting"} => run'[d] # "none"
    <3>1. CASE ChildOver(d) \/ HandlerJoined(d)
      BY <3>1 DEF ChildOver, HandlerJoined, ToolStep, treeVars
    <3>2. CASE SpawnChild(d)
      BY <2>2, <3>2 DEF SpawnChild, ToolStep, TreeInv, SpawnedByCall
    <3>3. CASE CreateChild(d) \/ MarkChildBusy(d) \/ StartFails(d) \/ JoinChild(d) \/ Report(d)
      BY <2>2, <3>3 DEF CreateChild, MarkChildBusy, StartFails, JoinChild, Report, ToolStep,
                        treeVars, StartedHasRun
    <3> QED BY <1>2, <3>1, <3>2, <3>3 DEF ToolProgress
  <2>4. StartedHasRun'
    BY <2>1, <2>3 DEF StartedHasRun
  <2>5. StepsInGather'
    BY <2>1, <2>3 DEF StepsInGather
  <2>6. ASSUME NEW t \in cancelStep', NEW c \in StepCalls(t)', ToolOpen(c)' PROVE UnderWay(c)'
    <3>1. c \in StepCalls(t) /\ ToolOpen(c) /\ c \in Sessions
      BY <2>1, <2>6 DEF StepCalls, Children, ToolOpen
    <3>2. UnderWay(c)
      BY <2>1, <2>6, <3>1 DEF CancelNotLost, UnderWay
    <3> QED BY <2>1, <2>3, <2>6, <3>1, <3>2 DEF UnderWay, ToolOpen
  <2> QED BY <2>4, <2>5, <2>6 DEF CancelNotLost, UnderWay
<1> QED BY <1>1, <1>2

(* What an abort request has done to the run of the session the user named, *)
(* once it has cancelled it: it is awaiting that run; or the run is over    *)
(* and the row is about to become idle, or is.                              *)
Awaiting(a) == abort[a] = "joining" /\ target[a] = asked[a]
Settling(a) == run[asked[a]] = "over" /\ abort[a] = "settling" /\ target[a] = asked[a]
Settled(a)  == run[asked[a]] = "over" /\ row[asked[a]] = "idle"

StopsAsked ==
  \A a \in stopped :
    /\ asked[a] \in Sessions /\ abort[a] # "ready"
    /\ Awaiting(a) \/ Settling(a) \/ Settled(a)

AbortInv ==
  /\ \A a \in Aborts : abort[a] \in {"loaded", "joining", "settling"} => target[a] \in Sessions
  /\ StopsAsked

(* ... and the request that aborts a run hits all it has to.                *)
LEMMA AbortKeepsCancel ==
  ASSUME TypeOK, TreeInv, CancelInv, AbortInv, NEW a \in Aborts,
         AbortProgress(a) \/ \E s \in Sessions : RequestAbort(a, s)
  PROVE  CancelInv'
<1> USE DEF TypeOK, CancelInv
<1>1. UNCHANGED <<parent, run, tool>>
  BY DEF AbortProgress, RequestAbort, AbortNext, LoadTarget, CancelTarget,
         NothingToCancel, TargetJoined, SettleTarget, AbortReturns, treeVars
<1>2. \/ UNCHANGED cancelVars
      \/ \E s \in Sessions : Cancel(s)
  BY DEF AbortProgress, RequestAbort, AbortNext, LoadTarget, CancelTarget,
         NothingToCancel, TargetJoined, SettleTarget, AbortReturns, AbortStep, AbortInv
<1>3. CASE UNCHANGED cancelVars
  BY <1>1, <1>3 DEF cancelVars, StartedHasRun, StepsInGather, CancelNotLost, StepCalls, Children,
                    ToolOpen
<1>4. ASSUME NEW s \in Sessions, Cancel(s) PROVE CancelInv'
  <2> USE DEF Cancel
  <2>1. StartedHasRun'
    BY <1>1 DEF StartedHasRun
  <2>2. StepsInGather'
    BY <1>1, <1>4 DEF StepsInGather, HitSteps, InStep
  <2>3. ASSUME NEW t \in cancelStep', NEW c \in StepCalls(t)', ToolOpen(c)' PROVE UnderWay(c)'
    <3>1. c \in StepCalls(t) /\ ToolOpen(c)
      BY <1>1, <2>3 DEF StepCalls, Children, ToolOpen
    <3>2. CASE t \in cancelStep
      <4>1. UnderWay(c)
        BY <3>1, <3>2 DEF CancelNotLost, UnderWay
      <4> QED BY <1>1, <1>4, <4>1 DEF UnderWay
    <3>3. CASE t \in HitSteps(s)
      <4>1. c \in HitTools(s) \cup HitRuns(s) \cup HitSteps(s)
        BY <3>1, <3>3, HitsCalls
      <4> QED BY <1>4, <4>1 DEF UnderWay
    <3> QED BY <1>4, <2>3, <3>2, <3>3
  <2> QED BY <2>1, <2>2, <2>3 DEF CancelNotLost, UnderWay
<1> QED BY <1>2, <1>3, <1>4

-----------------------------------------------------------------------------
(* Aborts                                                                   *)

(* A run that is over is never spawned again, and nobody but its own call   *)
(* and its own run writes its row.                                          *)
LEMMA RunsKeepAborts ==
  ASSUME TypeOK, OverHasOutcome, TreeInv, AbortInv, NEW s \in Sessions,
         ModelStep(s) \/ RunProgress(s) \/ ToolProgress(s)
  PROVE  AbortInv'
<1> USE DEF TypeOK
<1>1. UNCHANGED abortVars
  BY DEF ModelStep, LoopEnds, LaunchTools, RunProgress, EnterLoop, PreludeRaises, StepOver,
         CompleteMessage, CloseRun, CancelledRun, ToolProgress, CreateChild, MarkChildBusy,
         SpawnChild, StartFails, JoinChild, ChildOver, Report, CancelledTool, HandlerJoined
<1>2. ASSUME NEW t \in Sessions, run[t] = "over"
      PROVE  run'[t] = "over" /\ (row[t] = "idle" => row'[t] = "idle")
  <2>1. tool[t] \notin {"creating", "starting"}
    BY <1>2, RootAssumption DEF TreeInv, SpawnedByCall, RootIsRoot
  <2>2. CASE ModelStep(s)
    BY <1>2, <2>2 DEF ModelStep, LoopEnds, LaunchTools, RunStep
  <2>3. CASE RunProgress(s)
    BY <1>2, <2>3 DEF RunProgress, EnterLoop, PreludeRaises, StepOver, CompleteMessage, CloseRun,
                      CancelledRun, RunStep, Ends
  <2>4. CASE ToolProgress(s)
    BY <1>2, <2>1, <2>4 DEF ToolProgress, CreateChild, MarkChildBusy, SpawnChild, StartFails,
                      JoinChild, ChildOver, Report, CancelledTool, HandlerJoined, ToolStep,
                      treeVars
  <2> QED BY <2>2, <2>3, <2>4
<1> QED BY <1>1, <1>2 DEF AbortInv, StopsAsked, Awaiting, Settling, Settled, abortVars

LEMMA AbortsKeepAborts ==
  ASSUME TypeOK, AbortInv, NEW a \in Aborts,
         AbortProgress(a) \/ \E s \in Sessions : RequestAbort(a, s)
  PROVE  AbortInv'
<1> USE DEF TypeOK, AbortInv, StopsAsked, Awaiting, Settling, Settled, AbortStep, treeVars
<1>1. ASSUME NEW s \in Sessions, RequestAbort(a, s) PROVE AbortInv'
  BY <1>1 DEF RequestAbort, LoadTarget
<1>2. CASE AbortNext(a)
  BY <1>2 DEF AbortNext, LoadTarget
<1>3. CASE CancelTarget(a)
  BY <1>3 DEF CancelTarget, Registered
<1>4. CASE NothingToCancel(a)
  BY <1>4 DEF NothingToCancel
<1>5. CASE TargetJoined(a)
  BY <1>5 DEF TargetJoined
<1>6. CASE SettleTarget(a)
  BY <1>6 DEF SettleTarget
<1>7. CASE AbortReturns(a)
  BY <1>7 DEF AbortReturns
<1> QED BY <1>1, <1>2, <1>3, <1>4, <1>5, <1>6, <1>7 DEF AbortProgress

-----------------------------------------------------------------------------
IInv == TypeOK /\ OverHasOutcome /\ TreeInv /\ CancelInv /\ AbortInv

LEMMA Invariant == Spec => []IInv
<1>1. Init => CancelInv /\ AbortInv
  BY RootAssumption DEF Init, CancelInv, StartedHasRun, StepsInGather, CancelNotLost, AbortInv,
     StopsAsked
<1>2. IInv /\ [Next]_vars => (CancelInv /\ AbortInv)'
  <2> SUFFICES ASSUME IInv, [Next]_vars PROVE (CancelInv /\ AbortInv)'
    OBVIOUS
  <2> USE DEF IInv
  <2>1. ASSUME NEW s \in Sessions, ModelStep(s) \/ RunProgress(s) \/ ToolProgress(s)
        PROVE  (CancelInv /\ AbortInv)'
    BY <2>1, RunKeepsCancel, ToolKeepsCancel, RunsKeepAborts
  <2>2. ASSUME NEW a \in Aborts, AbortProgress(a) \/ \E s \in Sessions : RequestAbort(a, s)
        PROVE  (CancelInv /\ AbortInv)'
    BY <2>2, AbortKeepsCancel, AbortsKeepAborts
  <2>3. CASE UNCHANGED vars
    BY <2>3 DEF vars, treeVars, cancelVars, abortVars, CancelInv, StartedHasRun, StepsInGather,
       CancelNotLost, StepCalls, Children, ToolOpen, AbortInv, StopsAsked, Awaiting, Settling,
       Settled
  <2> QED BY <2>1, <2>2, <2>3 DEF Next
<1> QED BY <1>1, <1>2, TypeAndOutcome, TreeKept, PTL DEF Spec, IInv

(* A cancelled step has no open tool call that the cancellation has not     *)
(* reached, at any depth of the tree and however many aborts overlap        *)
(* (runner.py, _run_step_tools; harness_service.py, _run_subagent_tool).    *)
THEOREM CancellationArrives == Spec => []CancelNotLost
<1>1. IInv => CancelNotLost
  BY DEF IInv, CancelInv
<1> QED BY <1>1, Invariant, PTL

(* Below a session whose run is no longer registered, no run is active and  *)
(* no tool call is open: by induction on the tree, in the form that what is *)
(* below the session is the least set closed under children.                *)
LEMMA UnregisteredStopsTree ==
  ASSUME TypeOK, TreeInv, NEW s \in Sessions, ~Registered(s), NEW c \in Below(s)
  PROVE  ~Registered(c) /\ (c # s => ~ToolOpen(c))
<1> DEFINE R == {t \in Sessions : ~Registered(t) /\ (t # s => ~ToolOpen(t))}
<1>1. s \in R
  OBVIOUS
<1>2. ASSUME NEW r \in R, NEW t \in Children(r) PROVE t \in R
  <2>1. t \in Sessions /\ parent[t] = r /\ r \in Sessions
    BY DEF Children
  <2>2. ~ToolOpen(t)
    BY <2>1 DEF TreeInv, CallInsideStep, Registered
  <2>3. t # Root
    BY <2>1, RootAssumption DEF TreeInv, RootIsRoot
  <2>4. ~Registered(t)
    BY <2>1, <2>2, <2>3 DEF TreeInv, RunsInsideCall, ToolOpen
  <2> QED BY <2>1, <2>2, <2>4
<1>3. Below(s) \subseteq R
  <2> HIDE DEF R
  <2>1. R \in SUBSET Sessions
    BY DEF R
  <2> QED BY <1>1, <1>2, <2>1, BelowLeast
<1> QED BY <1>3

(* When the run of the session the user aborted has been joined, nothing is *)
(* active in that session and below it, and no open tool call could spawn a *)
(* run there (harness_service.py, abort_run).                               *)
THEOREM AbortReachesAll == Spec => []AbortStopsTree
<1>1. IInv => AbortStopsTree
  <2> SUFFICES ASSUME IInv, NEW a \in stopped,
                      abort[a] \in {"settling", "next", "returned"},
                      NEW c \in Below(asked[a])
               PROVE  ~Registered(c) /\ (c # asked[a] => ~ToolOpen(c))
    BY DEF AbortStopsTree
  <2>1. asked[a] \in Sessions /\ ~Registered(asked[a])
    BY DEF IInv, AbortInv, StopsAsked, Awaiting, Settling, Settled, Registered
  <2> QED BY <2>1, UnregisteredStopsTree DEF IInv
<1> QED BY <1>1, Invariant, PTL

(* When abort_run returns, the session it was asked to abort is shown as    *)
(* idle, whatever the aborts of other sessions wrote meanwhile.             *)
THEOREM AbortShowsIdle == Spec => []AbortedIsIdle
<1>1. IInv => AbortedIsIdle
  BY DEF IInv, AbortInv, StopsAsked, Awaiting, Settling, Settled, AbortedIsIdle
<1> QED BY <1>1, Invariant, PTL
=============================================================================
