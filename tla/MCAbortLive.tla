----------------------------- MODULE MCAbortLive ------------------------------
(* What must eventually come of an abort: of the run of a session that two      *)
(* users abort, and of a run in a tree of subagents. In every behaviour either  *)
(* HarnessRun moves or SubagentTree.                                            *)
EXTENDS HarnessRun

CONSTANTS a1,            \* one of the aborts of either module
          root, s1, s2   \* SubagentTree

VARIABLES
  moves,
  parent, row, finish, run, outcome, tool, cancelRun, cancelTool, cancelStep, treeAbort, target,
  todo, treeSeen, asked, stopped

Tree == INSTANCE SubagentTree WITH
  Sessions <- {root, s1, s2}, Root <- root, None <- NoRun, Aborts <- {a1}, MaxDepth <- 1,
  abort <- treeAbort, seen <- treeSeen
treeVars == <<parent, row, finish, run, outcome, tool, cancelRun, cancelTool, cancelStep,
              treeAbort, target, todo, treeSeen, asked, stopped>>

LiveInit == Init /\ Tree!Init /\ moves \in {"session", "tree"}
LiveNext ==
  /\ UNCHANGED moves
  /\ \/ moves = "session" /\ Next /\ UNCHANGED treeVars
     \/ moves = "tree" /\ Tree!Next /\ UNCHANGED vars

(* The fairness of each module, while it is the one that moves.                 *)
InSession(A) == moves = "session" /\ A
InTree(A) == moves = "tree" /\ A
LiveSpec ==
  /\ LiveInit /\ [][LiveNext]_<<moves, vars, treeVars>>
  /\ \A r \in Prompts : WF_vars(InSession(ServiceStep(r)))
  /\ \A c \in Prompts : WF_vars(InSession(call[c] # "ready" /\ StartRun(c)))
  /\ \A a \in Aborts : WF_vars(InSession(abort[a] # "ready" /\ AbortRun(a)))
  /\ \A s \in {root, s1, s2} :
       /\ WF_treeVars(InTree(Tree!RunProgress(s))) /\ WF_treeVars(InTree(Tree!ToolProgress(s)))
  /\ WF_treeVars(InTree(Tree!AbortProgress(a1)))
-----------------------------------------------------------------------------
(* AbortCompletes of HarnessRun and of SubagentTree, for one of the aborts      *)
(* (they are interchangeable): abort_run returns, whatever the model, the tools *)
(* and the other abort do; and AbortFreesSession of HarnessRun: an abort that   *)
(* cancelled a run gives the session back.                                      *)
AnAbortEnds ==
  /\ (IF moves = "session" THEN abort[a1] = "loaded" ELSE treeAbort[a1] = "loaded") ~>
     (IF moves = "session" THEN abort[a1] = "returned" ELSE treeAbort[a1] = "returned")
  /\ abort[a1] = "joining" ~> status = "idle"
===============================================================================
