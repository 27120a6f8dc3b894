-------------------------- MODULE HarnessRunProofs --------------------------
(****************************************************************************)
(* Theorems about HarnessRun, for every set of prompts and aborts, and about *)
(* AgentLoop, for every budget and history, as MCHarnessRun puts them side by *)
(* side.                                                                    *)
(****************************************************************************)
EXTENDS MCHarnessRun, SequenceLemmas, FiniteSetTheorems

(* A step of the runs leaves every variable its type.                         *)
LEMMA TypesKept == (Init => TypeOK) /\ (TypeOK /\ [Next]_vars => TypeOK')
<1> USE NoRunAssumption
<1>1. Init => TypeOK
  BY DEF Init, TypeOK, CallPhases, TaskPhases, AbortPhases, Kinds
<1>2. TypeOK /\ [Next]_vars => TypeOK'
  <2> SUFFICES ASSUME TypeOK, [Next]_vars PROVE TypeOK'
    OBVIOUS
  <2> USE DEF TypeOK, CallPhases, TaskPhases, AbortPhases
  <2>1. ASSUME NEW c \in Prompts, StartRun(c) PROVE TypeOK'
    <3> USE DEF CallStep, abortVars, rowVars
    <3>1. CASE LoadSession(c) BY <3>1 DEF LoadSession
    <3>2. CASE CheckRunning(c) BY <3>2 DEF CheckRunning
    <3>3. CASE PersistMessages(c)
      <4>1. loaded' \in [Prompts -> SUBSET Prompts]
        BY <3>3 DEF PersistMessages
      <4> QED BY <3>3, <4>1 DEF PersistMessages
    <3>4. CASE MarkBusy(c) BY <3>4 DEF MarkBusy
    <3>5. CASE StartFails(c)
      <4>1. \E to \in CallPhases : call' = [call EXCEPT ![c] = to]
        BY <3>5, Zenon DEF StartFails
      <4> QED BY <3>5, <4>1 DEF StartFails
    <3>6. CASE Spawn(c) BY <3>6 DEF Spawn
    <3> QED BY <2>1, <3>1, <3>2, <3>3, <3>4, <3>5, <3>6 DEF StartRun
  <2>2. ASSUME NEW r \in Prompts, LoopStep(r) PROVE TypeOK'
    <3> USE DEF Undisturbed, KeepRegistry, callVars, abortVars
    <3>1. CASE StreamPart(r)
      <4>1. \E k \in Kinds, to \in {"running", "completed", "error"} :
               part' = [part EXCEPT ![r][k] = to]
        BY <3>1 DEF StreamPart, SetPart, Kinds
      <4>2. part' \in [Prompts -> [Kinds -> {"absent", "running", "completed", "error"}]]
        BY <4>1
      <4> QED BY <3>1, <4>2 DEF StreamPart
    <3>2. CASE LoopReturns(r) BY <3>2 DEF LoopReturns, TaskStep, rowVars
    <3>3. CASE LoopRaises(r) BY <3>3 DEF LoopRaises, TaskStep, rowVars
    <3> QED BY <2>2, <3>1, <3>2, <3>3 DEF LoopStep
  <2>3. ASSUME NEW r \in Prompts, ServiceStep(r) PROVE TypeOK'
    <3> DEFINE NewParts == [Kinds -> {"absent", "running", "completed", "error"}]
    <3>a. ASSUME NEW ks, CloseParts(r, ks) PROVE part' \in [Prompts -> NewParts]
      BY <3>a DEF CloseParts, ClosedAs
    <3> HIDE DEF NewParts
    <3> USE DEF TaskStep, Ends, Undisturbed, Interrupted, KeepRegistry, Unregister,
                rowVars, callVars, abortVars
    <3>1. CASE Begin(r) BY <3>1 DEF Begin
    <3>2. CASE EnterLoop(r) BY <3>2 DEF EnterLoop
    <3>3. CASE PreludeRaises(r) BY <3>3 DEF PreludeRaises
    <3>4. CASE CompleteMessage(r) BY <3>4 DEF CompleteMessage, Finish, AfterFinish
    <3>5. CASE SettleParts(r) BY <3>5, <3>a DEF SettleParts, NewParts
    <3>6. CASE MarkIdle(r) BY <3>6 DEF MarkIdle
    <3>7. CASE CancelledEarly(r) BY <3>7 DEF CancelledEarly
    <3>8. CASE CancelledInTry(r)
      <4>1. part' \in [Prompts -> NewParts] /\ msg' \in [Prompts -> {"none", "open", "stop", "error", "aborted"}]
        BY <3>8, <3>a DEF CancelledInTry, NewParts
      <4>2. task' \in [Prompts -> TaskPhases] /\ hit' \in [Prompts -> SUBSET TaskPhases]
        BY <3>8 DEF CancelledInTry
      <4>3. usage' \in SUBSET Prompts /\ cancelReq' \in SUBSET Prompts
        BY <3>8 DEF CancelledInTry
      <4> QED BY <3>8, <4>1, <4>2, <4>3 DEF CancelledInTry, NewParts
    <3>9. CASE CancelledInHandler(r)
      <4>1. part' \in [Prompts -> NewParts] /\ msg' \in [Prompts -> {"none", "open", "stop", "error", "aborted"}]
        BY <3>9, <3>a DEF CancelledInHandler, NewParts, Finish
      <4>2. task' \in [Prompts -> TaskPhases] /\ hit' \in [Prompts -> SUBSET TaskPhases]
        BY <3>9 DEF CancelledInHandler
      <4>3. cancelReq' \in SUBSET Prompts
        BY <3>9 DEF CancelledInHandler
      <4> QED BY <3>9, <4>1, <4>2, <4>3 DEF CancelledInHandler, NewParts
    <3>10. CASE CancelledInFinally(r) BY <3>10 DEF CancelledInFinally
    <3>11. CASE TaskDone(r) BY <3>11 DEF TaskDone
    <3> QED BY <2>3, <3>1, <3>2, <3>3, <3>4, <3>5, <3>6, <3>7, <3>8, <3>9, <3>10,
               <3>11 DEF ServiceStep
  <2>4. ASSUME NEW a \in Aborts, AbortRun(a) PROVE TypeOK'
    <3> USE DEF AbortStep, ReadStatus, callVars, rowVars
    <3>1. CASE LoadForAbort(a) \/ Reread(a)
      <4>1. PICK to \in {"loaded", "gates", "markidle"} : abort' = [abort EXCEPT ![a] = to]
        BY <3>1 DEF LoadForAbort, Reread
      <4>2. abort' \in [Aborts -> AbortPhases]
        BY <4>1
      <4>3. seen' \in [Aborts -> {"busy", "idle"}]
        BY <3>1 DEF LoadForAbort, Reread
      <4> QED BY <3>1, <4>2, <4>3 DEF LoadForAbort, Reread
    <3>2. CASE NothingToCancel(a)
      BY <3>2 DEF NothingToCancel
    <3>3. CASE Joined(a)
      <4>1. abort' \in [Aborts -> AbortPhases]
        BY <3>3 DEF Joined
      <4> QED BY <3>3, <4>1 DEF Joined
    <3>4. CASE AbortMarksIdle(a)
      BY <3>4 DEF AbortMarksIdle
    <3>5. CASE AbortReturns(a)
      BY <3>5 DEF AbortReturns
    <3>6. CASE CancelTask(a)
      <4>1. taskOf \in Prompts
        BY <3>6 DEF CancelTask, IsRunning
      <4> QED BY <3>6, <4>1 DEF CancelTask
    <3> QED BY <2>4, <3>1, <3>2, <3>3, <3>4, <3>5, <3>6 DEF AbortRun
  <2>5. ASSUME NEW r \in Prompts, ParentCancels(r) PROVE TypeOK'
    BY <2>5 DEF ParentCancels, callVars, rowVars, abortVars
  <2>6. CASE UNCHANGED vars
    BY <2>6 DEF vars
  <2> QED BY <2>1, <2>2, <2>3, <2>4, <2>5, <2>6 DEF Next
<1> QED BY <1>1, <1>2

(* Every variable keeps its type; the other invariants rest on it.          *)
THEOREM TypeCorrect == Spec => []TypeOK
BY TypesKept, PTL DEF Spec

-----------------------------------------------------------------------------
(* "Busy" always has an owner: the call about to spawn its run, the run     *)
(* whose idle write is to come, or one that left by an exit that skips it.  *)
Owner(p) == call[p] = "busy" \/ IdleToCome(p) \/ LeftBusy(p)

(* A step that leaves the session busy takes ownership from nobody.         *)
LEMMA OwnerKept ==
  ASSUME TypeOK, NEW p \in Prompts, Owner(p), status = "busy", status' = "busy", Next
  PROVE  Owner(p)'
<1> USE DEF TypeOK, Owner, IdleToCome, LeftBusy
<1>1. ASSUME NEW c \in Prompts, StartRun(c) PROVE Owner(p)'
  <2> USE DEF CallStep
  <2>1. CASE LoadSession(c) BY <2>1 DEF LoadSession
  <2>2. CASE CheckRunning(c) BY <2>2 DEF CheckRunning
  <2>3. CASE PersistMessages(c) BY <2>3 DEF PersistMessages
  <2>4. CASE MarkBusy(c) BY <2>4 DEF MarkBusy
  <2>5. CASE StartFails(c) BY <2>5 DEF StartFails
  <2>6. CASE Spawn(c) BY <2>6 DEF Spawn
  <2> QED BY <1>1, <2>1, <2>2, <2>3, <2>4, <2>5, <2>6 DEF StartRun
<1>2. ASSUME NEW r \in Prompts, LoopStep(r) PROVE Owner(p)'
  <2> USE DEF TaskStep, Undisturbed, callVars
  <2>1. CASE StreamPart(r) BY <2>1 DEF StreamPart
  <2>2. CASE LoopReturns(r) BY <2>2 DEF LoopReturns
  <2>3. CASE LoopRaises(r) BY <2>3 DEF LoopRaises
  <2> QED BY <1>2, <2>1, <2>2, <2>3 DEF LoopStep
<1>3. ASSUME NEW r \in Prompts, ServiceStep(r) PROVE Owner(p)'
  <2> USE DEF TaskStep, Ends, Undisturbed, Interrupted, callVars
  <2>1. CASE Begin(r) BY <2>1 DEF Begin
  <2>2. CASE EnterLoop(r) BY <2>2 DEF EnterLoop
  <2>3. CASE PreludeRaises(r) BY <2>3 DEF PreludeRaises
  <2>4. CASE CompleteMessage(r) BY <2>4 DEF CompleteMessage, AfterFinish, Finish
  <2>5. CASE SettleParts(r) BY <2>5 DEF SettleParts
  <2>6. CASE MarkIdle(r) BY <2>6 DEF MarkIdle
  <2>7. CASE CancelledEarly(r) BY <2>7 DEF CancelledEarly
  <2>8. CASE CancelledInTry(r) BY <2>8 DEF CancelledInTry
  <2>9. CASE CancelledInHandler(r) BY <2>9 DEF CancelledInHandler
  <2>10. CASE CancelledInFinally(r) BY <2>10 DEF CancelledInFinally
  <2>11. CASE TaskDone(r) BY <2>11 DEF TaskDone
  <2> QED BY <1>3, <2>1, <2>2, <2>3, <2>4, <2>5, <2>6, <2>7, <2>8, <2>9, <2>10,
             <2>11 DEF ServiceStep
<1>4. ASSUME NEW a \in Aborts, AbortRun(a) PROVE Owner(p)'
  BY <1>4 DEF AbortRun, LoadForAbort, NothingToCancel, CancelTask, Joined, Reread,
     AbortMarksIdle, AbortReturns, callVars
<1>5. ASSUME NEW r \in Prompts, ParentCancels(r) PROVE Owner(p)'
  BY <1>5 DEF ParentCancels, callVars
<1> QED BY <1>1, <1>2, <1>3, <1>4, <1>5 DEF Next

(* Only start_run writes "busy".                                            *)
LEMMA BusyWritten ==
  ASSUME Next, status' = "busy", status # "busy"
  PROVE  \E c \in Prompts : MarkBusy(c)
<1>1. ASSUME NEW c \in Prompts, StartRun(c) PROVE MarkBusy(c)
  BY <1>1 DEF StartRun, LoadSession, CheckRunning, PersistMessages, StartFails, Spawn
<1>2. ASSUME NEW r \in Prompts, LoopStep(r) PROVE FALSE
  BY <1>2 DEF LoopStep, StreamPart, LoopReturns, LoopRaises
<1>3. ASSUME NEW r \in Prompts, ServiceStep(r) PROVE FALSE
  BY <1>3 DEF ServiceStep, Begin, EnterLoop, PreludeRaises, CompleteMessage,
     SettleParts, MarkIdle, CancelledEarly, CancelledInTry, CancelledInHandler,
     CancelledInFinally, TaskDone
<1>4. ASSUME NEW a \in Aborts, AbortRun(a) PROVE FALSE
  BY <1>4 DEF AbortRun, LoadForAbort, NothingToCancel, CancelTask, Joined, Reread,
     AbortMarksIdle, AbortReturns
<1>5. ASSUME NEW r \in Prompts, ParentCancels(r) PROVE FALSE
  BY <1>5 DEF ParentCancels
<1> QED BY <1>1, <1>2, <1>3, <1>4, <1>5 DEF Next

(* No interleaving strands a session in "busy" but by the named exits.      *)
THEOREM BusyIsOwned == Spec => []BusyHasOwner
<1> DEFINE Owned == status = "busy" => \E p \in Prompts : Owner(p)
<1>1. Init => Owned
  BY DEF Init
<1>2. TypeOK /\ TypeOK' /\ Owned /\ [Next]_vars => Owned'
  <2> SUFFICES ASSUME TypeOK, TypeOK', Owned, [Next]_vars, status' = "busy"
               PROVE  \E p \in Prompts : Owner(p)'
    OBVIOUS
  <2>1. CASE Next /\ status = "busy"
    BY <2>1, OwnerKept
  <2>2. CASE Next /\ status # "busy"
    <3>1. PICK c \in Prompts : MarkBusy(c)
      BY <2>2, BusyWritten
    <3> QED BY <3>1 DEF MarkBusy, CallStep, Owner, TypeOK
  <2>3. CASE UNCHANGED vars
    BY <2>3 DEF vars, Owner, IdleToCome, LeftBusy
  <2> QED BY <2>1, <2>2, <2>3
<1>3. Owned => BusyHasOwner
  BY DEF BusyHasOwner, Owner
<1> QED BY <1>1, <1>2, <1>3, TypeCorrect, PTL DEF Spec

-----------------------------------------------------------------------------
(* A task exists only once its start_run call spawned it.                   *)
SpawnedByCall == \A c \in Prompts : call[c] # "returned" => task[c] = "none"

(* Only the call of its own name spawns a task, once.                       *)
LEMMA SpawnedByCallHolds == Spec => []SpawnedByCall
<1>1. Init => SpawnedByCall
  BY DEF Init, SpawnedByCall
<1>2. TypeOK /\ SpawnedByCall /\ [Next]_vars => SpawnedByCall'
  <2> SUFFICES ASSUME TypeOK, SpawnedByCall, [Next]_vars PROVE SpawnedByCall'
    OBVIOUS
  <2> USE DEF TypeOK, SpawnedByCall
  <2>1. ASSUME NEW c \in Prompts, StartRun(c) PROVE SpawnedByCall'
    <3> USE DEF CallStep
    <3>1. CASE LoadSession(c) BY <3>1 DEF LoadSession
    <3>2. CASE CheckRunning(c) BY <3>2 DEF CheckRunning
    <3>3. CASE PersistMessages(c) BY <3>3 DEF PersistMessages
    <3>4. CASE MarkBusy(c) BY <3>4 DEF MarkBusy
    <3>5. CASE StartFails(c) BY <3>5 DEF StartFails
    <3>6. CASE Spawn(c) BY <3>6 DEF Spawn
    <3> QED BY <2>1, <3>1, <3>2, <3>3, <3>4, <3>5, <3>6 DEF StartRun
  <2>2. ASSUME NEW r \in Prompts, LoopStep(r) PROVE SpawnedByCall'
    BY <2>2 DEF LoopStep, StreamPart, LoopReturns, LoopRaises, TaskStep, callVars
  <2>3. ASSUME NEW r \in Prompts, ServiceStep(r) PROVE SpawnedByCall'
    <3>1. call' = call /\ task[r] # "none" /\ \A q \in Prompts \ {r} : task'[q] = task[q]
      <4> USE DEF TaskStep, Ends, callVars
      <4>1. CASE Begin(r) BY <4>1 DEF Begin
      <4>2. CASE EnterLoop(r) BY <4>2 DEF EnterLoop
      <4>3. CASE PreludeRaises(r) BY <4>3 DEF PreludeRaises
      <4>4. CASE CompleteMessage(r) BY <4>4 DEF CompleteMessage, Finish
      <4>5. CASE SettleParts(r) BY <4>5 DEF SettleParts
      <4>6. CASE MarkIdle(r) BY <4>6 DEF MarkIdle
      <4>7. CASE CancelledEarly(r) BY <4>7 DEF CancelledEarly
      <4>8. CASE CancelledInTry(r) BY <4>8 DEF CancelledInTry
      <4>9. CASE CancelledInHandler(r) BY <4>9 DEF CancelledInHandler
      <4>10. CASE CancelledInFinally(r) BY <4>10 DEF CancelledInFinally
      <4>11. CASE TaskDone(r) BY <4>11 DEF TaskDone
      <4> QED BY <2>3, <4>1, <4>2, <4>3, <4>4, <4>5, <4>6, <4>7, <4>8, <4>9, <4>10,
                 <4>11 DEF ServiceStep
    <3> QED BY <3>1
  <2>4. ASSUME NEW a \in Aborts, AbortRun(a) PROVE SpawnedByCall'
    BY <2>4 DEF AbortRun, LoadForAbort, NothingToCancel, CancelTask, Joined, Reread,
       AbortMarksIdle, AbortReturns, callVars
  <2>5. ASSUME NEW r \in Prompts, ParentCancels(r) PROVE SpawnedByCall'
    BY <2>5 DEF ParentCancels, callVars
  <2>6. CASE UNCHANGED vars
    BY <2>6 DEF vars
  <2> QED BY <2>1, <2>2, <2>3, <2>4, <2>5, <2>6 DEF Next
<1> QED BY <1>1, <1>2, TypeCorrect, PTL DEF Spec

-----------------------------------------------------------------------------
(* A task that ended stays ended.                                           *)
LEMMA OverIsFinal ==
  ASSUME TypeOK, SpawnedByCall, [Next]_vars, NEW q \in Prompts, Over(q)
  PROVE  Over(q)'
<1> USE DEF TypeOK, Over
<1>1. ASSUME NEW c \in Prompts, StartRun(c) PROVE Over(q)'
  <2>1. CASE Spawn(c)
    BY <2>1 DEF Spawn, CallStep, SpawnedByCall
  <2>2. CASE ~Spawn(c)
    BY <1>1, <2>2 DEF StartRun, LoadSession, CheckRunning, PersistMessages, MarkBusy,
       StartFails
  <2> QED BY <2>1, <2>2
<1>2. ASSUME NEW r \in Prompts, LoopStep(r) PROVE Over(q)'
  BY <1>2 DEF LoopStep, StreamPart, LoopReturns, LoopRaises, TaskStep
<1>3. ASSUME NEW r \in Prompts, ServiceStep(r) PROVE Over(q)'
  <2> USE DEF TaskStep, Ends
  <2>1. CASE Begin(r) BY <2>1 DEF Begin
  <2>2. CASE EnterLoop(r) BY <2>2 DEF EnterLoop
  <2>3. CASE PreludeRaises(r) BY <2>3 DEF PreludeRaises
  <2>4. CASE CompleteMessage(r) BY <2>4 DEF CompleteMessage, Finish, AfterFinish
  <2>5. CASE SettleParts(r) BY <2>5 DEF SettleParts
  <2>6. CASE MarkIdle(r) BY <2>6 DEF MarkIdle
  <2>7. CASE CancelledEarly(r) BY <2>7 DEF CancelledEarly
  <2>8. CASE CancelledInTry(r) BY <2>8 DEF CancelledInTry
  <2>9. CASE CancelledInHandler(r) BY <2>9 DEF CancelledInHandler
  <2>10. CASE CancelledInFinally(r) BY <2>10 DEF CancelledInFinally
  <2>11. CASE TaskDone(r) BY <2>11 DEF TaskDone
  <2> QED BY <1>3, <2>1, <2>2, <2>3, <2>4, <2>5, <2>6, <2>7, <2>8, <2>9, <2>10,
             <2>11 DEF ServiceStep
<1>4. ASSUME NEW a \in Aborts, AbortRun(a) PROVE Over(q)'
  BY <1>4 DEF AbortRun, LoadForAbort, NothingToCancel, CancelTask, Joined, Reread,
     AbortMarksIdle, AbortReturns
<1>5. ASSUME NEW r \in Prompts, ParentCancels(r) PROVE Over(q)'
  BY <1>5 DEF ParentCancels
<1>6. CASE UNCHANGED vars
  BY <1>6 DEF vars
<1> QED BY <1>1, <1>2, <1>3, <1>4, <1>5, <1>6 DEF Next

(* An abort has no victim before it cancels one.                            *)
NoVictimYet == \A a \in Aborts : abort[a] \in {"ready", "loaded"} => victim[a] = NoRun

(* When abort_run gets past its join, the run it cancelled is over.         *)
THEOREM AbortJoins == Spec => []AbortReturnsAfterRun
<1> DEFINE Inv == AbortReturnsAfterRun /\ NoVictimYet
<1>1. Init => Inv
  BY DEF Init, AbortReturnsAfterRun, NoVictimYet
<1>2. TypeOK /\ SpawnedByCall /\ Inv /\ [Next]_vars => Inv'
  <2> SUFFICES ASSUME TypeOK, SpawnedByCall, Inv, [Next]_vars PROVE Inv'
    OBVIOUS
  <2>1. \A q \in Prompts : Over(q) => Over(q)'
    BY OverIsFinal
  <2>2. CASE UNCHANGED abortVars
    <3> QED BY <2>1, <2>2 DEF AbortReturnsAfterRun, NoVictimYet, abortVars, TypeOK
  <2>3. ASSUME NEW a \in Aborts, AbortRun(a) PROVE Inv'
    <3> USE <2>1 DEF AbortReturnsAfterRun, NoVictimYet, AbortStep, TypeOK
    <3>1. CASE LoadForAbort(a) BY <3>1 DEF LoadForAbort
    <3>2. CASE NothingToCancel(a) BY <3>2 DEF NothingToCancel
    <3>3. CASE CancelTask(a) BY <3>3 DEF CancelTask
    <3>4. CASE Joined(a) BY <3>4 DEF Joined
    <3>5. CASE Reread(a) BY <3>5 DEF Reread
    <3>6. CASE AbortMarksIdle(a) BY <3>6 DEF AbortMarksIdle
    <3>7. CASE AbortReturns(a) BY <3>7 DEF AbortReturns
    <3> QED BY <2>3, <3>1, <3>2, <3>3, <3>4, <3>5, <3>6, <3>7 DEF AbortRun
  <2>4. ASSUME NEW c \in Prompts, StartRun(c) PROVE UNCHANGED abortVars
    BY <2>4 DEF StartRun, LoadSession, CheckRunning, PersistMessages, MarkBusy,
       StartFails, Spawn
  <2>5. ASSUME NEW r \in Prompts, LoopStep(r) \/ ServiceStep(r) \/ ParentCancels(r)
        PROVE  UNCHANGED abortVars
    BY <2>5 DEF ParentCancels, LoopStep, StreamPart, LoopReturns, LoopRaises, ServiceStep, Begin,
       EnterLoop, PreludeRaises, CompleteMessage, SettleParts, MarkIdle, CancelledEarly,
       CancelledInTry, CancelledInHandler, CancelledInFinally, TaskDone
  <2>6. CASE UNCHANGED vars
    BY <2>6, <2>2 DEF vars, abortVars
  <2> QED BY <2>2, <2>3, <2>4, <2>5, <2>6 DEF Next
<1> QED BY <1>1, <1>2, TypeCorrect, SpawnedByCallHolds, PTL DEF Spec

-----------------------------------------------------------------------------
(* What each phase of a run has settled: the tool call is answered when the *)
(* loop is left normally, the message is final before the parts are closed, *)
(* both hold when no handler was interrupted.                               *)
Unhandled == {"spawned", "prelude", "failing", "failparts", "aborting", "abortparts"}
Final == {"stop", "error", "aborted"}

Settling(r) ==
  /\ task[r] \in {"completing", "settling", "failing", "failparts"}
       => part[r]["tool"] # "running"
  /\ task[r] \in {"settling", "failparts", "abortparts"} => msg[r] \in Final
  /\ task[r] \in {"closing", "emitting", "ended"} /\ hit[r] \cap Unhandled = {}
       => msg[r] \in Final /\ \A k \in Kinds : part[r][k] # "running"

(* Every step keeps what each phase has settled.                            *)
LEMMA SettlingKept ==
  ASSUME TypeOK, SpawnedByCall, [Next]_vars, NEW q \in Prompts, Settling(q)
  PROVE  Settling(q)'
<1> USE DEF TypeOK, Settling, Unhandled, Final, Kinds
<1>1. ASSUME NEW c \in Prompts, StartRun(c) PROVE Settling(q)'
  <2> USE DEF CallStep, SpawnedByCall, rowVars
  <2>1. CASE LoadSession(c) BY <2>1 DEF LoadSession
  <2>2. CASE CheckRunning(c) BY <2>2 DEF CheckRunning
  <2>3. CASE PersistMessages(c) BY <2>3 DEF PersistMessages
  <2>4. CASE MarkBusy(c) BY <2>4 DEF MarkBusy
  <2>5. CASE StartFails(c) BY <2>5 DEF StartFails
  <2>6. CASE Spawn(c) BY <2>6 DEF Spawn
  <2> QED BY <1>1, <2>1, <2>2, <2>3, <2>4, <2>5, <2>6 DEF StartRun
<1>2. ASSUME NEW r \in Prompts, LoopStep(r) PROVE Settling(q)'
  <2> USE DEF TaskStep, Undisturbed, rowVars
  <2>1. CASE StreamPart(r) BY <2>1 DEF StreamPart, SetPart
  <2>2. CASE LoopReturns(r) BY <2>2 DEF LoopReturns
  <2>3. CASE LoopRaises(r) BY <2>3 DEF LoopRaises
  <2> QED BY <1>2, <2>1, <2>2, <2>3 DEF LoopStep
<1>3. ASSUME NEW r \in Prompts, ServiceStep(r) PROVE Settling(q)'
  <2> USE DEF TaskStep, Ends, Undisturbed, Interrupted, rowVars
  <2>1. CASE Begin(r) BY <2>1 DEF Begin
  <2>2. CASE EnterLoop(r) BY <2>2 DEF EnterLoop
  <2>3. CASE PreludeRaises(r) BY <2>3 DEF PreludeRaises
  <2>4. CASE CompleteMessage(r) BY <2>4 DEF CompleteMessage, Finish, AfterFinish
  <2>5. CASE SettleParts(r) BY <2>5 DEF SettleParts, CloseParts, ClosedAs
  <2>6. CASE MarkIdle(r) BY <2>6 DEF MarkIdle
  <2>7. CASE CancelledEarly(r) BY <2>7 DEF CancelledEarly
  <2>8. CASE CancelledInTry(r) BY <2>8 DEF CancelledInTry, CloseParts, ClosedAs
  <2>9. CASE CancelledInHandler(r)
    <3>1. CASE q = r
      BY <2>9, <3>1 DEF CancelledInHandler
    <3>2. CASE q # r
      <4>1. task'[q] = task[q] /\ hit'[q] = hit[q] /\ msg'[q] = msg[q] /\ part'[q] = part[q]
        BY <2>9, <3>2 DEF CancelledInHandler, CloseParts
      <4> QED BY <4>1
    <3> QED BY <3>1, <3>2
  <2>10. CASE CancelledInFinally(r) BY <2>10 DEF CancelledInFinally
  <2>11. CASE TaskDone(r) BY <2>11 DEF TaskDone
  <2> QED BY <1>3, <2>1, <2>2, <2>3, <2>4, <2>5, <2>6, <2>7, <2>8, <2>9, <2>10,
             <2>11 DEF ServiceStep
<1>4. ASSUME NEW a \in Aborts, AbortRun(a) PROVE Settling(q)'
  BY <1>4 DEF AbortRun, LoadForAbort, NothingToCancel, CancelTask, Joined, Reread,
     AbortMarksIdle, AbortReturns, rowVars
<1>5. ASSUME NEW r \in Prompts, ParentCancels(r) PROVE Settling(q)'
  BY <1>5 DEF ParentCancels, rowVars
<1>6. CASE UNCHANGED vars
  BY <1>6 DEF vars
<1> QED BY <1>1, <1>2, <1>3, <1>4, <1>5, <1>6 DEF Next

(* A run is over with its message final and its parts closed, unless one of *)
(* its handlers was interrupted.                                            *)
THEOREM RunSettles == Spec => []SettledUnlessInterrupted
<1> DEFINE Inv == \A r \in Prompts : Settling(r)
<1>1. Init => Inv
  BY DEF Init, Settling
<1>2. TypeOK /\ SpawnedByCall /\ Inv /\ [Next]_vars => Inv'
  BY SettlingKept
<1>3. Inv => SettledUnlessInterrupted
  BY DEF Settling, SettledUnlessInterrupted, Over, Unhandled, Final
<1> QED BY <1>1, <1>2, <1>3, TypeCorrect, SpawnedByCallHolds, PTL DEF Spec

-----------------------------------------------------------------------------
(* A run interrupted in its try block is on its way to, or has, "aborted".  *)
Reporting(r) ==
  /\ hit[r] \cap {"loop", "completing", "settling"} # {}
  /\ hit[r] \cap {"aborting", "abortparts"} = {}
  => \/ task[r] = "aborting"
     \/ task[r] \in {"abortparts", "closing", "emitting", "ended"} /\ msg[r] = "aborted"

(* Every step keeps an interrupted run on its way to "aborted".             *)
LEMMA ReportingKept ==
  ASSUME TypeOK, SpawnedByCall, [Next]_vars, NEW q \in Prompts, Reporting(q)
  PROVE  Reporting(q)'
<1> USE DEF TypeOK, Reporting
<1>1. ASSUME NEW c \in Prompts, StartRun(c) PROVE Reporting(q)'
  <2> USE DEF CallStep, SpawnedByCall, rowVars
  <2>1. CASE LoadSession(c) BY <2>1 DEF LoadSession
  <2>2. CASE CheckRunning(c) BY <2>2 DEF CheckRunning
  <2>3. CASE PersistMessages(c) BY <2>3 DEF PersistMessages
  <2>4. CASE MarkBusy(c) BY <2>4 DEF MarkBusy
  <2>5. CASE StartFails(c) BY <2>5 DEF StartFails
  <2>6. CASE Spawn(c) BY <2>6 DEF Spawn
  <2> QED BY <1>1, <2>1, <2>2, <2>3, <2>4, <2>5, <2>6 DEF StartRun
<1>2. ASSUME NEW r \in Prompts, LoopStep(r) PROVE Reporting(q)'
  <2> USE DEF TaskStep, Undisturbed, rowVars
  <2>1. CASE StreamPart(r) BY <2>1 DEF StreamPart, SetPart
  <2>2. CASE LoopReturns(r) BY <2>2 DEF LoopReturns
  <2>3. CASE LoopRaises(r) BY <2>3 DEF LoopRaises
  <2> QED BY <1>2, <2>1, <2>2, <2>3 DEF LoopStep
<1>3. ASSUME NEW r \in Prompts, ServiceStep(r) PROVE Reporting(q)'
  <2> USE DEF TaskStep, Ends, Undisturbed, Interrupted, rowVars
  <2>1. CASE Begin(r) BY <2>1 DEF Begin
  <2>2. CASE EnterLoop(r) BY <2>2 DEF EnterLoop
  <2>3. CASE PreludeRaises(r) BY <2>3 DEF PreludeRaises
  <2>4. CASE CompleteMessage(r) BY <2>4 DEF CompleteMessage, Finish, AfterFinish
  <2>5. CASE SettleParts(r) BY <2>5 DEF SettleParts, CloseParts, ClosedAs
  <2>6. CASE MarkIdle(r) BY <2>6 DEF MarkIdle
  <2>7. CASE CancelledEarly(r) BY <2>7 DEF CancelledEarly
  <2>8. CASE CancelledInTry(r) BY <2>8 DEF CancelledInTry, CloseParts, ClosedAs
  <2>9. CASE CancelledInHandler(r) BY <2>9 DEF CancelledInHandler, CloseParts, ClosedAs, Finish
  <2>10. CASE CancelledInFinally(r) BY <2>10 DEF CancelledInFinally
  <2>11. CASE TaskDone(r) BY <2>11 DEF TaskDone
  <2> QED BY <1>3, <2>1, <2>2, <2>3, <2>4, <2>5, <2>6, <2>7, <2>8, <2>9, <2>10,
             <2>11 DEF ServiceStep
<1>4. ASSUME NEW a \in Aborts, AbortRun(a) PROVE Reporting(q)'
  BY <1>4 DEF AbortRun, LoadForAbort, NothingToCancel, CancelTask, Joined, Reread,
     AbortMarksIdle, AbortReturns, rowVars
<1>5. ASSUME NEW r \in Prompts, ParentCancels(r) PROVE Reporting(q)'
  BY <1>5 DEF ParentCancels, rowVars
<1>6. CASE UNCHANGED vars
  BY <1>6 DEF vars
<1> QED BY <1>1, <1>2, <1>3, <1>4, <1>5, <1>6 DEF Next

(* An interrupted run is reported as aborted.                               *)
THEOREM AbortIsReported == Spec => []AbortedIsReported
<1> DEFINE Inv == \A r \in Prompts : Reporting(r)
<1>1. Init => Inv
  BY DEF Init, Reporting
<1>2. TypeOK /\ SpawnedByCall /\ Inv /\ [Next]_vars => Inv'
  BY ReportingKept
<1>3. Inv => AbortedIsReported
  BY DEF Reporting, AbortedIsReported, Over
<1> QED BY <1>1, <1>2, <1>3, TypeCorrect, SpawnedByCallHolds, PTL DEF Spec
-----------------------------------------------------------------------------
(* AgentLoop. Its turns, whatever their summaries are.                         *)
Finishes == Loop!Normal \cup {"", "error", "aborted"}
Turns(S) == [prompt : Nat, parts : Seq(Loop!Parts), content : Seq(Seq(Nat)), usage : Nat, last : Nat,
             finish : Finishes, summary : S]
TurnsTyped == \E S : stored \in Seq(Turns(S))

(* The run's turn.                                                             *)
Now == stored[Loop!Turn]

(* Turns that are those stored but for the run's parts, content and usage and  *)
(* for summaries.                                                              *)
Turned(q, parts, content, usg) ==
  /\ \E S : q \in Seq(Turns(S))
  /\ Len(q) = Loop!Turn
  /\ q[Loop!Turn].parts = parts /\ q[Loop!Turn].content = content /\ q[Loop!Turn].usage = usg
  /\ \A t \in 1..Loop!Turn - 1 : q[t].parts = stored[t].parts

LEMMA TurnFields ==
  ASSUME NEW S, NEW e \in Turns(S)
  PROVE  /\ e.parts \in Seq(Loop!Parts) /\ e.content \in Seq(Seq(Nat))
         /\ e.usage \in Nat /\ e.prompt \in Nat /\ e.last \in Nat /\ e.finish \in Finishes
BY DEF Turns

LEMMA TurnFacts ==
  ASSUME NEW q, \E S : q \in Seq(Turns(S))
  PROVE  /\ Len(q) \in Nat /\ DOMAIN q = 1..Len(q)
         /\ \A t \in 1..Len(q) :
              /\ q[t].parts \in Seq(Loop!Parts) /\ q[t].content \in Seq(Seq(Nat))
              /\ q[t].usage \in Nat /\ q[t].prompt \in Nat /\ q[t].last \in Nat /\ q[t].finish \in Finishes
<1>1. PICK S : q \in Seq(Turns(S))
  OBVIOUS
<1>2. Len(q) \in Nat /\ DOMAIN q = 1..Len(q) /\ \A t \in 1..Len(q) : q[t] \in Turns(S)
  BY <1>1, Elements
<1> QED BY <1>2, TurnFields

LEMMA TurnPut ==
  ASSUME Loop!Turn # 0, NEW q, NEW p, NEW c, NEW u, Turned(q, p, c, u), NEW S, NEW e \in Turns(S)
  PROVE  Turned([q EXCEPT ![Loop!Turn] = e], e.parts, e.content, e.usage)
<1>1. PICK R : q \in Seq(Turns(R))
  BY DEF Turned
<1>2. Turns(R) \subseteq Turns(R \cup S) /\ e \in Turns(R \cup S)
  BY DEF Turns
<1>3. q \in Seq(Turns(R \cup S))
  BY <1>1, <1>2, SeqMonotonic
<1>4. PICK n : n = Loop!Turn
  OBVIOUS
<1>5. n = Len(q) /\ n \in 1..Len(q)
  <2>1. Len(q) \in Nat
    BY <1>1, Elements
  <2> QED BY <1>4, <2>1 DEF Turned
<1>6. /\ [q EXCEPT ![n] = e] \in Seq(Turns(R \cup S)) /\ Len([q EXCEPT ![n] = e]) = n
      /\ \A j \in 1..n : [q EXCEPT ![n] = e][j] = IF j = n THEN e ELSE q[j]
  BY <1>2, <1>3, <1>5, ExceptSeq
<1>7. \A t \in 1..n - 1 : t \in 1..n /\ t # n
  BY <1>5
<1>8. \A t \in 1..n - 1 : q[t].parts = stored[t].parts
  BY <1>4 DEF Turned
<1>9. n \in 1..n
  BY <1>5
<1> QED BY <1>4, <1>6, <1>7, <1>8, <1>9 DEF Turned

LEMMA TurnSame ==
  ASSUME TurnsTyped
  PROVE  Turned(stored, Now.parts, Now.content, Now.usage)
BY DEF TurnsTyped, Turned, Now, Loop!Turn

(* The turns after one field of the run's turn was set.                        *)
LEMMA TurnSet ==
  ASSUME Loop!Turn # 0, NEW q, NEW p, NEW c, NEW u, Turned(q, p, c, u)
  PROVE  /\ \A x : Turned([q EXCEPT ![Loop!Turn].summary = x], p, c, u)
         /\ \A x \in Seq(Loop!Parts) : Turned([q EXCEPT ![Loop!Turn].parts = x], x, c, u)
         /\ \A x \in Seq(Seq(Nat)) : Turned([q EXCEPT ![Loop!Turn].content = x], p, x, u)
         /\ \A x \in Finishes : Turned([q EXCEPT ![Loop!Turn].finish = x], p, c, u)
         /\ \A x \in Nat : Turned([q EXCEPT ![Loop!Turn].usage = u + x, ![Loop!Turn].last = x], p, c, u + x)
<1>1. PICK R : q \in Seq(Turns(R))
  BY DEF Turned
<1>2. PICK n : n = Loop!Turn
  OBVIOUS
<1>3. n = Len(q) /\ n \in 1..Len(q) /\ n \in DOMAIN q
  <2>1. Len(q) \in Nat /\ DOMAIN q = 1..Len(q)
    BY <1>1, Elements
  <2> QED BY <1>2, <2>1 DEF Turned
<1>4. PICK e : e = q[n]
  OBVIOUS
<1>5. e \in Turns(R) /\ e.parts = p /\ e.content = c /\ e.usage = u /\ u \in Nat
  <2>1. e \in Turns(R)
    BY <1>1, <1>3, <1>4, Elements
  <2> QED BY <1>2, <1>4, <2>1, TurnFields DEF Turned
<1> PICK P, C : P = Seq(Loop!Parts) /\ C = Seq(Seq(Nat))
  OBVIOUS
<1>12. \A T : Turns(T) = [prompt : Nat, parts : P, content : C, usage : Nat, last : Nat, finish : Finishes, summary : T]
  BY DEF Turns
<1>13. e \in [prompt : Nat, parts : P, content : C, usage : Nat, last : Nat, finish : Finishes, summary : R]
  BY <1>5, <1>12
<1>6. ASSUME NEW S, NEW f \in Turns(S)
      PROVE  Turned([q EXCEPT ![n] = f], f.parts, f.content, f.usage)
  BY <1>2, TurnPut
<1>7. ASSUME NEW x
      PROVE  Turned([q EXCEPT ![n].summary = x], p, c, u)
  <2>1. PICK f : f = [e EXCEPT !.summary = x]
    OBVIOUS
  <2>2. f \in Turns({x}) /\ f.parts = p /\ f.content = c /\ f.usage = u
    BY <1>5, <1>12, <1>13, <2>1
  <2>3. [q EXCEPT ![n].summary = x] = [q EXCEPT ![n] = f]
    BY <1>4, <2>1
  <2> QED BY <1>6, <2>2, <2>3
<1>8. ASSUME NEW x \in Seq(Loop!Parts)
      PROVE  Turned([q EXCEPT ![n].parts = x], x, c, u)
  <2>1. PICK f : f = [e EXCEPT !.parts = x]
    OBVIOUS
  <2>2. f \in Turns(R) /\ f.parts = x /\ f.content = c /\ f.usage = u
    BY <1>5, <1>12, <1>13, <2>1
  <2>3. [q EXCEPT ![n].parts = x] = [q EXCEPT ![n] = f]
    BY <1>4, <2>1
  <2> QED BY <1>6, <2>2, <2>3
<1>9. ASSUME NEW x \in Seq(Seq(Nat))
      PROVE  Turned([q EXCEPT ![n].content = x], p, x, u)
  <2>1. PICK f : f = [e EXCEPT !.content = x]
    OBVIOUS
  <2>2. f \in Turns(R) /\ f.parts = p /\ f.content = x /\ f.usage = u
    BY <1>5, <1>12, <1>13, <2>1
  <2>3. [q EXCEPT ![n].content = x] = [q EXCEPT ![n] = f]
    BY <1>4, <2>1
  <2> QED BY <1>6, <2>2, <2>3
<1>10. ASSUME NEW x \in Finishes
      PROVE  Turned([q EXCEPT ![n].finish = x], p, c, u)
  <2>1. PICK f : f = [e EXCEPT !.finish = x]
    OBVIOUS
  <2>2. f \in Turns(R) /\ f.parts = p /\ f.content = c /\ f.usage = u
    BY <1>5, <1>12, <1>13, <2>1
  <2>3. [q EXCEPT ![n].finish = x] = [q EXCEPT ![n] = f]
    BY <1>4, <2>1
  <2> QED BY <1>6, <2>2, <2>3
<1>11. ASSUME NEW x \in Nat
      PROVE  Turned([q EXCEPT ![n].usage = u + x, ![n].last = x], p, c, u + x)
  <2>1. PICK f : f = [[e EXCEPT !.usage = u + x] EXCEPT !.last = x]
    OBVIOUS
  <2>2. u + x \in Nat
    BY <1>5
  <2>3. f \in Turns(R) /\ f.parts = p /\ f.content = c /\ f.usage = u + x
    BY <1>5, <1>12, <1>13, <2>1, <2>2
  <2>4. [q EXCEPT ![n].usage = u + x, ![n].last = x] = [q EXCEPT ![n] = f]
    BY <1>3, <1>4, <2>1
  <2> QED BY <1>6, <2>3, <2>4
<1> QED BY <1>2, <1>7, <1>8, <1>9, <1>10, <1>11

(* A compaction changes the summary of the run's turn, or nothing.             *)
LEMMA TurnCompacted ==
  ASSUME Loop!Turn # 0, NEW q, NEW p, NEW c, NEW u, Turned(q, p, c, u),
         NEW ms, NEW over, NEW k \in Loop!Compactions(ms, over, q)
  PROVE  Turned(k[2], p, c, u)
<1>1. CASE k = <<ms, q>>
  BY <1>1
<1>2. CASE k # <<ms, q>>
  <2>1. PICK x : k[2] = [q EXCEPT ![Loop!Turn].summary = x]
    BY <1>2 DEF Loop!Compactions
  <2>2. Turned([q EXCEPT ![Loop!Turn].summary = x], p, c, u)
    BY TurnSet
  <2> QED BY <2>1, <2>2
<1> QED BY <1>1, <1>2
-----------------------------------------------------------------------------
(* The invariant of the loop.                                                  *)
LoopPhases == {"idle", "step", "stream", "backoff", "tools", "tail", "account", "complete", "failed"}

Scalars ==
  /\ phase \in LoopPhases /\ series \in {"first", "overflow", "length"}
  /\ step \in 0..MaxSteps /\ (phase \in {"step", "tools"} => step < MaxSteps)
  /\ attempt \in 0..MaxRetries /\ spent \in Nat /\ tries \in Nat /\ sessionUsage \in Nat
  /\ phase = "idle" => step = 0 /\ spent = 0

(* The requests of a step, by the series of attempts it is in.                 *)
Before == IF series = "first" THEN 0 ELSE IF series = "overflow" THEN MaxRetries + 1
          ELSE MaxRetries + 1 + MaxRetries + 1
Sent ==
  /\ tries <= Loop!TriesBound
  /\ phase = "stream" => tries <= Before + attempt + 1
  /\ phase = "backoff" => tries <= Before + attempt

CallsTyped ==
  /\ calls \in Seq(Seq(Nat)) /\ outcome \in [DOMAIN calls -> Nat] /\ result.finish \in Finishes

(* Only a call that has no outcome yet shows a running part.                   *)
Calm(parts) == \A i \in DOMAIN parts : parts[i].state # "running"
Open(parts) ==
  \A i \in DOMAIN parts : parts[i].state = "running" =>
    phase = "tools" /\ \E k \in DOMAIN calls : calls[k] = parts[i].id /\ outcome[k] = 0

(* The text of the attempt is the end of what is stored, and a notice is       *)
(* stored last.                                                                *)
Plain(content) == \A i \in DOMAIN content : content[i] # Loop!Notice
Ending(content) == text = <<>> \/ (content # <<>> /\ text = <<content[Len(content)]>>)
Spoken(content) ==
  /\ phase \in {"account", "complete"} => Loop!IsSuffix(result.output, content)
  /\ phase \notin {"idle", "account", "complete"} => Plain(content) /\ Ending(content)
  /\ phase = "tail" => result.output = text \/ result.output = Append(text, Loop!Notice)

LoopInv ==
  /\ TurnsTyped /\ Scalars /\ Sent /\ CallsTyped
  /\ \A t \in 1..Loop!Turn - 1 : Calm(stored[t].parts)
  /\ phase = "idle" => text = <<>> /\ (Loop!Turn # 0 => Calm(Now.parts))
  /\ phase # "idle" =>
       Loop!Turn # 0 /\ Open(Now.parts) /\ Spoken(Now.content) /\ Now.usage = spent

LEMMA LoopFrom ==
  ASSUME LoopInv, Loop!Turn # 0, NEW p, NEW c, NEW u, Turned(stored', p, c, u),
         (Scalars /\ Sent /\ CallsTyped)',
         IF phase' = "idle" THEN text' = <<>> /\ Calm(p)
         ELSE Open(p)' /\ Spoken(c)' /\ u = spent'
  PROVE  LoopInv'
<1>1. PICK n : n = Loop!Turn
  OBVIOUS
<1>2. n \in Nat \ {0}
  BY <1>1, TurnFacts DEF LoopInv, TurnsTyped, Loop!Turn
<1>3. TurnsTyped' /\ (Loop!Turn)' = n
  BY <1>1 DEF Turned, TurnsTyped, Loop!Turn
<1>4. Now'.parts = p /\ Now'.content = c /\ Now'.usage = u
  BY <1>1, <1>3 DEF Turned, Now
<1>5. \A t \in 1..n - 1 : stored'[t].parts = stored[t].parts
  BY <1>1 DEF Turned
<1>6. \A t \in 1..n - 1 : Calm(stored[t].parts)'
  BY <1>1, <1>5 DEF LoopInv, Calm
<1>7. ASSUME phase' = "idle" PROVE text' = <<>> /\ Calm(Now.parts)'
  BY <1>4, <1>7 DEF Calm
<1>8. ASSUME phase' # "idle" PROVE Open(Now.parts)' /\ Spoken(Now.content)' /\ Now'.usage = spent'
  <2>1. Open(Now.parts)'
    BY <1>4, <1>8 DEF Open
  <2>2. Spoken(Now.content)'
    BY <1>4, <1>8 DEF Spoken, Plain, Ending
  <2> QED BY <1>4, <1>8, <2>1, <2>2
<1> QED BY <1>2, <1>3, <1>6, <1>7, <1>8 DEF LoopInv

(* Its numbers.                                                                *)
LEMMA ScalarsStep ==
  ASSUME Loop!LoopAssumption, Scalars, Sent, Loop!Acts
  PROVE  Scalars' /\ Sent'
<1> MaxRetries \in Nat /\ MaxSteps \in Nat \ {0} /\ TokenCounts \subseteq Nat
  BY DEF Loop!LoopAssumption
<1> PICK most \in Nat : most = Loop!TriesBound /\ most = MaxRetries + MaxRetries + MaxRetries + 3
  BY DEF Loop!TriesBound
<1> USE DEF Scalars, Sent, LoopPhases, Before
<1>0. Loop!Tried = IF tries + 1 <= most + 1 THEN tries + 1 ELSE most + 1
  BY DEF Loop!Tried, Loop!Smaller
<1>1. CASE Loop!Begins
  BY <1>1 DEF Loop!Begins
<1>2. CASE Loop!StepStarts
  <2>1. /\ phase = "step" /\ step' = step + 1 /\ tries' = 1 /\ phase' = "stream" /\ series' = "first" /\ attempt' = 0
        /\ UNCHANGED <<sessionUsage, spent>>
    BY <1>2 DEF Loop!StepStarts, Loop!SendsSeries
  <2> QED BY <2>1
<1>3. CASE Loop!StreamsText
  BY <1>3 DEF Loop!StreamsText
<1>4. CASE Loop!Fails
  <2>1. phase = "stream" /\ UNCHANGED <<sessionUsage, step, spent>>
    BY <1>4 DEF Loop!Fails
  <2>2. \/ attempt < MaxRetries /\ attempt' = attempt + 1 /\ phase' = "backoff" /\ UNCHANGED <<series, tries>>
        \/ series = "first" /\ tries' = Loop!Tried /\ phase' = "stream" /\ series' = "overflow" /\ attempt' = 0
        \/ phase' = "failed" /\ UNCHANGED <<series, attempt, tries>>
    BY <1>4 DEF Loop!Fails, Loop!Retries, Loop!Retried, Loop!SendsSeries
  <2>3. Scalars'
    BY <1>0, <2>1, <2>2
  <2>4. Sent'
    BY <1>0, <2>1, <2>2 DEF Loop!TriesBound
  <2> QED BY <2>3, <2>4
<1>5. CASE Loop!Resumes
  BY <1>0, <1>5 DEF Loop!Resumes
<1>6. CASE Loop!IsCut
  <2>1. phase = "stream" /\ series # "length" /\ UNCHANGED <<sessionUsage, step>> /\ \E tokens \in Nat : spent' = spent + tokens
    BY <1>6 DEF Loop!IsCut
  <2>2. \/ phase' = "tail" /\ UNCHANGED <<series, attempt, tries>>
        \/ phase' = "stream" /\ series' = "length" /\ attempt' = 0 /\ tries' = Loop!Tried
    BY <1>6 DEF Loop!IsCut, Loop!Returns, Loop!SendsSeries
  <2>3. Scalars'
    BY <1>0, <2>1, <2>2
  <2>4. Sent'
    BY <1>0, <2>1, <2>2 DEF Loop!TriesBound
  <2> QED BY <2>3, <2>4
<1>7. CASE Loop!IsStopped
  BY <1>7 DEF Loop!IsStopped, Loop!Returns
<1>8. CASE Loop!Answers
  <2>1. /\ phase' = "tail" /\ UNCHANGED <<sessionUsage, step, series, attempt, tries>>
        /\ \E tokens \in Nat : spent' = spent + tokens
    BY <1>8 DEF Loop!Answers, Loop!Returns
  <2> QED BY <2>1
<1>9. CASE Loop!CallsTools
  BY <1>9 DEF Loop!CallsTools
<1>10. CASE Loop!ToolStarts
  BY <1>10 DEF Loop!ToolStarts
<1>11. CASE Loop!ToolEnds
  BY <1>11 DEF Loop!ToolEnds
<1>12. CASE Loop!ToolsDone
  BY <1>12 DEF Loop!ToolsDone
<1>13. CASE Loop!PersistsTail
  BY <1>13 DEF Loop!PersistsTail
<1>14. CASE Loop!AddsUsage
  BY <1>14 DEF Loop!AddsUsage
<1>15. CASE Loop!Completes
  BY <1>15 DEF Loop!Completes, Loop!Ended
<1>16. CASE Loop!RunFails
  BY <1>16 DEF Loop!RunFails, Loop!Ended
<1>17. CASE Loop!IsCancelled
  BY <1>17 DEF Loop!IsCancelled, Loop!Ended
<1> QED BY <1>1, <1>2, <1>3, <1>4, <1>5, <1>6, <1>7, <1>8, <1>9, <1>10, <1>11, <1>12, <1>13, <1>14,
           <1>15, <1>16, <1>17 DEF Loop!Acts
-----------------------------------------------------------------------------
(* Its steps, one by one.                                                      *)
LEMMA NowFacts ==
  ASSUME LoopInv, Loop!Turn # 0
  PROVE  /\ Loop!Turn \in Nat \ {0} /\ DOMAIN stored = 1..Loop!Turn /\ Loop!Turn = Len(stored)
         /\ Now.parts \in Seq(Loop!Parts) /\ Now.content \in Seq(Seq(Nat)) /\ Now.usage \in Nat
         /\ Turned(stored, Now.parts, Now.content, Now.usage)
<1>1. TurnsTyped
  BY DEF LoopInv
<1>2. Loop!Turn \in Nat \ {0} /\ DOMAIN stored = 1..Loop!Turn /\ Loop!Turn = Len(stored)
  BY <1>1, TurnFacts DEF TurnsTyped, Loop!Turn
<1>3. Now.parts \in Seq(Loop!Parts) /\ Now.content \in Seq(Seq(Nat)) /\ Now.usage \in Nat
  BY <1>1, <1>2, TurnFacts DEF TurnsTyped, Now
<1> QED BY <1>1, <1>2, <1>3, TurnSame

(* Between the calls of one step and the next no part is running.              *)
LEMMA OpenCalm ==
  ASSUME NEW p, Open(p), phase # "tools" PROVE Calm(p)
BY DEF Open, Calm
LEMMA CalmOpen ==
  ASSUME NEW p, Calm(p) PROVE Open(p)'
BY DEF Open, Calm

LEMMA TheStepStarts ==
  ASSUME Loop!LoopAssumption, LoopInv, Loop!StepStarts PROVE LoopInv'
<1>1. PICK p, c, u : p = Now.parts /\ c = Now.content /\ u = Now.usage
  OBVIOUS
<1>2. Loop!Turn # 0 /\ Scalars /\ Sent /\ CallsTyped /\ Open(p) /\ Spoken(c) /\ u = spent /\ phase = "step"
  BY <1>1 DEF LoopInv, Loop!StepStarts
<1>3. Turned(stored, p, c, u)
  BY <1>1, <1>2, NowFacts
<1>4. phase' = "stream" /\ text' = <<>> /\ UNCHANGED <<calls, outcome, result, spent>>
  BY DEF Loop!StepStarts, Loop!SendsSeries
<1>5. Turned(stored', p, c, u)
  <2>1. \E k \in Loop!Compactions(msgs, FALSE, stored) \cup {<<msgs, stored>>} : stored' = k[2]
    BY DEF Loop!StepStarts
  <2>2. ASSUME NEW k \in Loop!Compactions(msgs, FALSE, stored) PROVE Turned(k[2], p, c, u)
    BY <1>2, <1>3, TurnCompacted
  <2>3. <<msgs, stored>>[2] = stored
    OBVIOUS
  <2> QED BY <1>3, <2>1, <2>2, <2>3
<1>6. Open(p)'
  BY <1>2, OpenCalm, CalmOpen
<1>7. Spoken(c)'
  BY <1>2, <1>4 DEF Spoken, Ending
<1>8. Scalars' /\ Sent' /\ CallsTyped'
  BY <1>2, <1>4, ScalarsStep DEF Loop!Acts, CallsTyped
<1> QED BY <1>2, <1>4, <1>5, <1>6, <1>7, <1>8, LoopFrom

LEMMA TheRunBegins ==
  ASSUME Loop!LoopAssumption, LoopInv, Loop!Begins PROVE LoopInv'
<1>1. PICK S : stored \in Seq(Turns(S))
  BY DEF LoopInv, TurnsTyped
<1>2. PICK size \in PromptSizes : stored' = Append(stored, Loop!NewTurn(size))
  BY DEF Loop!Begins
<1>3. PICK e : e = Loop!NewTurn(size)
  OBVIOUS
<1>4. e \in Turns(S \cup {Loop!NoSummary}) /\ e.parts = <<>> /\ e.content = <<>> /\ e.usage = 0
  <2>1. size \in Nat /\ <<>> \in Seq(Loop!Parts) /\ <<>> \in Seq(Seq(Nat)) /\ "" \in Finishes
    BY DEF Loop!LoopAssumption, Finishes
  <2> PICK P, C : P = Seq(Loop!Parts) /\ C = Seq(Seq(Nat))
    OBVIOUS
  <2> QED BY <1>3, <2>1 DEF Turns, Loop!NewTurn
<1>5. stored \in Seq(Turns(S \cup {Loop!NoSummary}))
  <2>1. Turns(S) \subseteq Turns(S \cup {Loop!NoSummary})
    BY DEF Turns
  <2> QED BY <1>1, <2>1, SeqMonotonic
<1>6. PICK n \in Nat : n = Loop!Turn /\ n = Len(stored)
  BY <1>1, Elements DEF Loop!Turn
<1>7. /\ stored' \in Seq(Turns(S \cup {Loop!NoSummary})) /\ Len(stored') = n + 1
      /\ stored'[n + 1] = e /\ \A t \in 1..n : stored'[t] = stored[t]
  BY <1>2, <1>3, <1>4, <1>5, <1>6, AppendProperties
<1>8. TurnsTyped' /\ (Loop!Turn)' = n + 1 /\ Now' = e
  BY <1>7 DEF TurnsTyped, Loop!Turn, Now
<1>9. \A t \in 1..n : Calm(stored[t].parts)
  <2>1. \A t \in 1..n - 1 : Calm(stored[t].parts)
    BY <1>6 DEF LoopInv
  <2>2. n # 0 => Calm(stored[n].parts)
    BY <1>6 DEF LoopInv, Loop!Begins, Now
  <2> QED BY <1>6, <2>1, <2>2
<1>10. \A t \in 1..n : Calm(stored[t].parts)'
  BY <1>7, <1>9 DEF Calm
<1>11. phase = "idle" /\ phase' = "step" /\ UNCHANGED <<text, calls, outcome, result, spent>>
  BY DEF Loop!Begins
<1>12. Scalars' /\ Sent' /\ CallsTyped'
  BY <1>11, ScalarsStep DEF Loop!Acts, CallsTyped, LoopInv
<1>13. Open(Now.parts)' /\ Spoken(Now.content)' /\ Now'.usage = spent'
  BY <1>4, <1>8, <1>11 DEF Open, Spoken, Plain, Ending, LoopInv, Scalars
<1>14. n + 1 # 0 /\ n + 1 - 1 = n
  BY <1>6
<1> QED BY <1>8, <1>10, <1>11, <1>12, <1>13, <1>14 DEF LoopInv

LEMMA TextIsStreamed ==
  ASSUME Loop!LoopAssumption, LoopInv, Loop!StreamsText PROVE LoopInv'
<1>1. PICK p, c, u : p = Now.parts /\ c = Now.content /\ u = Now.usage
  OBVIOUS
<1>2. Loop!Turn # 0 /\ Scalars /\ Sent /\ CallsTyped /\ Open(p) /\ Spoken(c) /\ u = spent /\ phase = "stream"
  BY <1>1 DEF LoopInv, Loop!StreamsText
<1>3. Turned(stored, p, c, u) /\ c \in Seq(Seq(Nat)) /\ Loop!Turn \in Nat
  BY <1>1, <1>2, NowFacts
<1>4. PICK token : token = <<Loop!Turn, step, tries, 1>>
  OBVIOUS
<1>5. token \in Seq(Nat) /\ token # Loop!Notice
  <2>1. step \in Nat /\ tries \in Nat
    BY <1>2 DEF Scalars
  <2>2. token[4] = 1 /\ Loop!Notice[4] = 0
    BY <1>4 DEF Loop!Notice
  <2> QED BY <1>3, <1>4, <2>1, <2>2
<1>6. /\ text = <<>> /\ text' = Append(text, token) /\ UNCHANGED <<phase, calls, outcome, result, spent>>
      /\ stored' = [stored EXCEPT ![Loop!Turn].content = Append(@, token)]
  BY <1>4 DEF Loop!StreamsText
<1>7. PICK d : d = Append(c, token)
  OBVIOUS
<1>8. d \in Seq(Seq(Nat)) /\ Len(d) = Len(c) + 1 /\ d[Len(d)] = token /\ d # <<>> /\ Plain(d)
  <2>1. d \in Seq(Seq(Nat)) /\ Len(d) = Len(c) + 1 /\ d[Len(d)] = token /\ Len(c) \in Nat /\ DOMAIN d = 1..Len(d)
    BY <1>3, <1>5, <1>7, AppendProperties, Elements
  <2>2. Plain(d)
    BY <1>2, <1>3, <1>5, <1>7, Appended DEF Plain, Spoken
  <2> QED BY <2>1, <2>2
<1>9. stored' = [stored EXCEPT ![Loop!Turn].content = d]
  BY <1>1, <1>6, <1>7 DEF Now
<1>10. Turned(stored', p, d, u)
  <2>1. Turned([stored EXCEPT ![Loop!Turn].content = d], p, d, u)
    BY <1>2, <1>3, <1>8, TurnSet
  <2> QED BY <1>9, <2>1
<1>11. Open(p)'
  BY <1>2, OpenCalm, CalmOpen
<1>12. Spoken(d)'
  <2>1. text' = <<d[Len(d)]>>
    BY <1>6, <1>8
  <2> QED BY <1>2, <1>6, <1>8, <2>1 DEF Spoken, Ending, Plain
<1>13. Scalars' /\ Sent' /\ CallsTyped'
  BY <1>2, <1>6, ScalarsStep DEF Loop!Acts, CallsTyped
<1>14. u = spent' /\ phase' # "idle"
  BY <1>2, <1>6
<1> QED BY <1>2, <1>10, <1>11, <1>12, <1>13, <1>14, LoopFrom

LEMMA TheAttemptFails ==
  ASSUME Loop!LoopAssumption, LoopInv, Loop!Fails PROVE LoopInv'
<1>1. PICK p, c, u : p = Now.parts /\ c = Now.content /\ u = Now.usage
  OBVIOUS
<1>2. Loop!Turn # 0 /\ Scalars /\ Sent /\ CallsTyped /\ Open(p) /\ Spoken(c) /\ u = spent /\ phase = "stream"
  BY <1>1 DEF LoopInv, Loop!Fails
<1>3. Turned(stored, p, c, u)
  BY <1>1, <1>2, NowFacts
<1>4. UNCHANGED <<calls, outcome, spent, result>>
  BY DEF Loop!Fails
<1>5. phase' \in {"backoff", "stream", "failed"} /\ (text' = text \/ text' = <<>>)
  BY DEF Loop!Fails, Loop!SendsSeries
<1>6. Turned(stored', p, c, u)
  <2>1. stored' = stored \/ \E k \in Loop!Compactions(msgs, TRUE, stored) : stored' = k[2]
    BY DEF Loop!Fails
  <2>2. ASSUME NEW k \in Loop!Compactions(msgs, TRUE, stored) PROVE Turned(k[2], p, c, u)
    BY <1>2, <1>3, TurnCompacted
  <2> QED BY <1>3, <2>1, <2>2
<1>7. Open(p)'
  BY <1>2, OpenCalm, CalmOpen
<1>8. Spoken(c)'
  BY <1>2, <1>5 DEF Spoken, Ending
<1>9. Scalars' /\ Sent' /\ CallsTyped'
  BY <1>2, <1>4, ScalarsStep DEF Loop!Acts, CallsTyped
<1>10. u = spent' /\ phase' # "idle"
  BY <1>2, <1>4, <1>5
<1> QED BY <1>2, <1>6, <1>7, <1>8, <1>9, <1>10, LoopFrom

LEMMA TheDelayIsOver ==
  ASSUME Loop!LoopAssumption, LoopInv, Loop!Resumes PROVE LoopInv'
<1>1. PICK p, c, u : p = Now.parts /\ c = Now.content /\ u = Now.usage
  OBVIOUS
<1>2. Loop!Turn # 0 /\ Scalars /\ Sent /\ CallsTyped /\ Open(p) /\ Spoken(c) /\ u = spent /\ phase = "backoff"
  BY <1>1 DEF LoopInv, Loop!Resumes
<1>3. Turned(stored, p, c, u)
  BY <1>1, <1>2, NowFacts
<1>4. phase' = "stream" /\ text' = <<>> /\ UNCHANGED <<stored, calls, outcome, spent, result>>
  BY DEF Loop!Resumes
<1>5. Turned(stored', p, c, u)
  BY <1>3, <1>4
<1>6. Open(p)'
  BY <1>2, OpenCalm, CalmOpen
<1>7. Spoken(c)'
  BY <1>2, <1>4 DEF Spoken, Ending
<1>8. Scalars' /\ Sent' /\ CallsTyped'
  BY <1>2, <1>4, ScalarsStep DEF Loop!Acts, CallsTyped
<1> QED BY <1>2, <1>4, <1>5, <1>6, <1>7, <1>8, LoopFrom

(* The usage of a response is accounted.                                       *)
LEMMA TurnAccounted ==
  ASSUME LoopInv, Loop!Turn # 0, NEW tokens \in Nat
  PROVE  Turned(Loop!Accounted(tokens), Now.parts, Now.content, Now.usage + tokens)
<1>1. PICK p, c, u : p = Now.parts /\ c = Now.content /\ u = Now.usage
  OBVIOUS
<1>2. Turned(stored, p, c, u)
  BY <1>1, NowFacts
<1>3. Turned([stored EXCEPT ![Loop!Turn].usage = u + tokens, ![Loop!Turn].last = tokens], p, c, u + tokens)
  BY <1>2, TurnSet
<1>4. Loop!Accounted(tokens) = [stored EXCEPT ![Loop!Turn].usage = u + tokens, ![Loop!Turn].last = tokens]
  BY <1>1 DEF Loop!Accounted, Now
<1> QED BY <1>1, <1>3, <1>4

LEMMA ItIsCut ==
  ASSUME Loop!LoopAssumption, LoopInv, Loop!IsCut PROVE LoopInv'
<1>1. PICK p, c, u : p = Now.parts /\ c = Now.content /\ u = Now.usage
  OBVIOUS
<1>2. Loop!Turn # 0 /\ Scalars /\ Sent /\ CallsTyped /\ Open(p) /\ Spoken(c) /\ u = spent /\ phase = "stream"
  BY <1>1 DEF LoopInv, Loop!IsCut
<1>3. PICK tokens \in TokenCounts :
        /\ spent' = spent + tokens
        /\ \E x : stored' = [Loop!Accounted(tokens) EXCEPT ![Loop!Turn].summary = x]
  BY DEF Loop!IsCut
<1> PICK x : stored' = [Loop!Accounted(tokens) EXCEPT ![Loop!Turn].summary = x]
  BY <1>3
<1>4. Turned(stored', p, c, u + tokens)
  <2>1. Turned(Loop!Accounted(tokens), p, c, u + tokens)
    BY <1>1, <1>2, TurnAccounted DEF Loop!LoopAssumption
  <2>2. Turned([Loop!Accounted(tokens) EXCEPT ![Loop!Turn].summary = x], p, c, u + tokens)
    BY <1>2, <2>1, TurnSet
  <2> QED BY <1>3, <2>2
<1>5. /\ UNCHANGED <<calls, outcome>>
      /\ \/ /\ phase' = "tail" /\ UNCHANGED text
            /\ result' = [output |-> Append(text, Loop!Notice), finish |-> "length"]
         \/ phase' = "stream" /\ text' = <<>> /\ UNCHANGED result
  BY DEF Loop!IsCut, Loop!Returns, Loop!SendsSeries
<1>6. Open(p)'
  BY <1>2, OpenCalm, CalmOpen
<1>7. Spoken(c)'
  BY <1>2, <1>5 DEF Spoken, Ending
<1>8. Scalars' /\ Sent' /\ CallsTyped'
  <2>1. UNCHANGED <<calls, outcome>> /\ (result'.finish = "length" \/ result' = result)
    BY <1>5
  <2> QED BY <1>2, <2>1, ScalarsStep DEF Loop!Acts, CallsTyped, Finishes, Loop!Normal
<1>9. u + tokens = spent' /\ phase' # "idle"
  BY <1>2, <1>3, <1>5
<1> QED BY <1>2, <1>4, <1>6, <1>7, <1>8, <1>9, LoopFrom

LEMMA ItIsStopped ==
  ASSUME Loop!LoopAssumption, LoopInv, Loop!IsStopped PROVE LoopInv'
<1>1. PICK p, c, u : p = Now.parts /\ c = Now.content /\ u = Now.usage
  OBVIOUS
<1>2. Loop!Turn # 0 /\ Scalars /\ Sent /\ CallsTyped /\ Open(p) /\ Spoken(c) /\ u = spent /\ phase = "stream"
  BY <1>1 DEF LoopInv, Loop!IsStopped
<1>3. PICK tokens \in TokenCounts, finish \in {"content_filter", "length"} :
        /\ spent' = spent + tokens /\ stored' = Loop!Accounted(tokens)
        /\ phase' = "tail" /\ result' = [output |-> Append(text, Loop!Notice), finish |-> finish]
  BY DEF Loop!IsStopped, Loop!Returns
<1>4. Turned(stored', p, c, u + tokens)
  BY <1>1, <1>2, <1>3, TurnAccounted DEF Loop!LoopAssumption
<1>5. UNCHANGED <<calls, outcome, text>>
  BY DEF Loop!IsStopped
<1>6. Open(p)'
  BY <1>2, OpenCalm, CalmOpen
<1>7. Spoken(c)'
  BY <1>2, <1>3, <1>5 DEF Spoken, Ending
<1>8. Scalars' /\ Sent' /\ CallsTyped'
  BY <1>2, <1>3, <1>5, ScalarsStep DEF Loop!Acts, CallsTyped, Finishes, Loop!Normal
<1>9. u + tokens = spent' /\ phase' # "idle"
  BY <1>2, <1>3
<1> QED BY <1>2, <1>4, <1>6, <1>7, <1>8, <1>9, LoopFrom

(* The ids of the calls of a step.                                             *)
LEMMA IdsTyped ==
  ASSUME LoopInv, Loop!Turn # 0, NEW n \in Nat
  PROVE  /\ Loop!CallIds(n) \in Seq(Seq(Nat)) /\ DOMAIN Loop!CallIds(n) = 1..n
         /\ \A i \in 1..n : Loop!CallIds(n)[i] \in Seq(Nat)
<1>1. Loop!Turn \in Nat /\ step \in Nat
  BY NowFacts DEF LoopInv, Scalars
<1>2. \A i \in 1..n : <<Loop!Turn, step, i>> \in Seq(Nat)
  BY <1>1
<1>3. Loop!CallIds(n) \in [1..n -> Seq(Nat)] /\ \A i \in 1..n : Loop!CallIds(n)[i] \in Seq(Nat)
  BY <1>2 DEF Loop!CallIds
<1> QED BY <1>3, SeqDef

(* The parts of the calls that are rejected.                                   *)
LEMMA TurnRejected ==
  ASSUME LoopInv, Loop!Turn # 0, NEW q, NEW p, NEW c, NEW u, Turned(q, p, c, u), Calm(p), NEW n \in Nat
  PROVE  \E r \in Seq(Loop!Parts) : Calm(r) /\ Turned(Loop!Rejected(q, n), r, c, u)
<1>1. PICK f : f = [i \in 1..n |-> [id |-> Loop!CallIds(n)[i], state |-> "error", size |-> 1]]
  OBVIOUS
<1>2. f \in Seq(Loop!Parts) /\ Len(f) = n /\ \A i \in 1..n : f[i].state = "error"
  <2>1. \A i \in 1..n : f[i] \in Loop!Parts /\ f[i].state = "error"
    BY <1>1, IdsTyped DEF Loop!Parts
  <2>2. f \in [1..n -> Loop!Parts]
    BY <1>1, <2>1
  <2>3. f \in Seq(Loop!Parts)
    BY <2>2, SeqDef
  <2>4. DOMAIN f = 1..n
    BY <1>1
  <2> QED BY <2>1, <2>3, <2>4, Elements
<1>3. p \in Seq(Loop!Parts)
  <2>1. Loop!Turn \in 1..Len(q)
    BY NowFacts DEF Turned
  <2> QED BY <2>1, TurnFacts DEF Turned
<1>4. PICK r : r = p \o f
  OBVIOUS
<1>5. /\ r \in Seq(Loop!Parts) /\ Len(r) = Len(p) + n /\ DOMAIN r = 1..Len(p) + n
      /\ \A i \in 1..Len(p) + n : r[i] = IF i <= Len(p) THEN p[i] ELSE f[i - Len(p)]
  <2>1. /\ r \in Seq(Loop!Parts) /\ Len(r) = Len(p) + n
        /\ \A i \in 1..Len(p) + n : r[i] = IF i <= Len(p) THEN p[i] ELSE f[i - Len(p)]
    BY <1>2, <1>3, <1>4, ConcatProperties
  <2> QED BY <2>1, Elements
<1>6. Calm(r)
  <2>1. SUFFICES ASSUME NEW i \in 1..Len(p) + n PROVE r[i].state # "running"
    BY <1>5 DEF Calm
  <2>2. Len(p) \in Nat /\ DOMAIN p = 1..Len(p)
    BY <1>3, Elements
  <2>3. CASE i <= Len(p)
    BY <1>5, <2>1, <2>2, <2>3 DEF Calm
  <2>4. CASE i > Len(p)
    <3>1. i - Len(p) \in 1..n /\ r[i] = f[i - Len(p)]
      BY <1>5, <2>1, <2>2, <2>4
    <3> QED BY <1>2, <3>1
  <2> QED BY <2>1, <2>2, <2>3, <2>4
<1>7. Loop!Rejected(q, n) = [q EXCEPT ![Loop!Turn].parts = r]
  <2>1. Loop!Rejected(q, n) = [q EXCEPT ![Loop!Turn].parts = q[Loop!Turn].parts \o f]
    BY <1>1 DEF Loop!Rejected
  <2> QED BY <1>4, <2>1 DEF Turned
<1>8. Turned([q EXCEPT ![Loop!Turn].parts = r], r, c, u)
  BY <1>5, TurnSet
<1> QED BY <1>5, <1>6, <1>7, <1>8

LEMMA ItAnswers ==
  ASSUME Loop!LoopAssumption, LoopInv, Loop!Answers PROVE LoopInv'
<1>1. PICK p, c, u : p = Now.parts /\ c = Now.content /\ u = Now.usage
  OBVIOUS
<1>2. Loop!Turn # 0 /\ Scalars /\ Sent /\ CallsTyped /\ Open(p) /\ Spoken(c) /\ u = spent /\ phase = "stream"
  BY <1>1 DEF LoopInv, Loop!Answers
<1> PICK done : done = Append(msgs, Loop!Message("assistant", <<Loop!Turn, step, 0>>, 1, <<>>))
  OBVIOUS
<1>3. PICK tokens \in TokenCounts, n \in 0..MaxCalls :
        /\ spent' = spent + tokens
        /\ IF step = MaxSteps THEN stored' = Loop!Rejected(Loop!Accounted(tokens), n)
           ELSE \E k \in Loop!Compactions(done, FALSE, Loop!Accounted(tokens)) \cup {<<done, Loop!Accounted(tokens)>>} :
                  stored' = k[2]
  BY DEF Loop!Answers
<1>4. Turned(Loop!Accounted(tokens), p, c, u + tokens)
  BY <1>1, <1>2, TurnAccounted DEF Loop!LoopAssumption
<1>5. PICK r : Calm(r) /\ Turned(stored', r, c, u + tokens)
  <2>1. Calm(p)
    BY <1>2, OpenCalm
  <2>2. CASE stored' = Loop!Rejected(Loop!Accounted(tokens), n)
    <3>1. \E r \in Seq(Loop!Parts) : Calm(r) /\ Turned(Loop!Rejected(Loop!Accounted(tokens), n), r, c, u + tokens)
      BY <1>2, <1>4, <2>1, TurnRejected DEF Loop!LoopAssumption
    <3> QED BY <2>2, <3>1
  <2>3. CASE \E k \in Loop!Compactions(done, FALSE, Loop!Accounted(tokens)) \cup {<<done, Loop!Accounted(tokens)>>} :
               stored' = k[2]
    <3>1. ASSUME NEW k \in Loop!Compactions(done, FALSE, Loop!Accounted(tokens))
          PROVE  Turned(k[2], p, c, u + tokens)
      BY <1>2, <1>4, TurnCompacted
    <3>2. <<done, Loop!Accounted(tokens)>>[2] = Loop!Accounted(tokens)
      OBVIOUS
    <3> QED BY <1>4, <2>1, <2>3, <3>1, <3>2
  <2> QED BY <1>3, <2>2, <2>3
<1>6. /\ phase' = "tail" /\ result'.output = text /\ result'.finish \in {"stop", "max_steps"}
      /\ UNCHANGED <<calls, outcome, text>>
  <2>1. UNCHANGED <<calls, outcome, text>>
    BY DEF Loop!Answers
  <2>2. \E finish \in {"stop", "max_steps"} : Loop!Returns(text, finish)
    BY DEF Loop!Answers
  <2> QED BY <2>1, <2>2 DEF Loop!Returns
<1>7. Open(r)'
  BY <1>5, CalmOpen
<1>8. Spoken(c)'
  BY <1>2, <1>6 DEF Spoken, Ending
<1>9. Scalars' /\ Sent' /\ CallsTyped'
  BY <1>2, <1>6, ScalarsStep DEF Loop!Acts, CallsTyped, Finishes, Loop!Normal
<1>10. u + tokens = spent' /\ phase' # "idle"
  BY <1>2, <1>3, <1>6
<1> QED BY <1>2, <1>5, <1>7, <1>8, <1>9, <1>10, LoopFrom

LEMMA ItCallsTools ==
  ASSUME Loop!LoopAssumption, LoopInv, Loop!CallsTools PROVE LoopInv'
<1>1. PICK p, c, u : p = Now.parts /\ c = Now.content /\ u = Now.usage
  OBVIOUS
<1>2. Loop!Turn # 0 /\ Scalars /\ Sent /\ CallsTyped /\ Open(p) /\ Spoken(c) /\ u = spent /\ phase = "stream"
  BY <1>1 DEF LoopInv, Loop!CallsTools
<1>3. PICK tokens \in TokenCounts, n \in 1..MaxCalls :
        /\ spent' = spent + tokens /\ stored' = Loop!Accounted(tokens)
        /\ calls' = Loop!CallIds(n) /\ outcome' = [i \in 1..n |-> 0]
  BY DEF Loop!CallsTools
<1>4. phase' = "tools" /\ UNCHANGED <<text, result>>
  BY DEF Loop!CallsTools
<1>5. Turned(stored', p, c, u + tokens)
  BY <1>1, <1>2, <1>3, TurnAccounted DEF Loop!LoopAssumption
<1>6. Open(p)'
  BY <1>2, OpenCalm, CalmOpen
<1>7. Spoken(c)'
  BY <1>2, <1>4 DEF Spoken, Ending
<1>8. CallsTyped'
  <2>1. n \in Nat
    BY DEF Loop!LoopAssumption
  <2>2. calls' \in Seq(Seq(Nat)) /\ DOMAIN calls' = 1..n
    BY <1>2, <1>3, <2>1, IdsTyped
  <2>3. outcome' \in [1..n -> Nat]
    BY <1>3
  <2> QED BY <1>2, <1>4, <2>2, <2>3 DEF CallsTyped
<1>9. Scalars' /\ Sent'
  BY <1>2, ScalarsStep DEF Loop!Acts
<1>10. u + tokens = spent' /\ phase' # "idle"
  BY <1>2, <1>3, <1>4
<1> QED BY <1>2, <1>5, <1>6, <1>7, <1>8, <1>9, <1>10, LoopFrom

LEMMA ItToolStarts ==
  ASSUME Loop!LoopAssumption, LoopInv, Loop!ToolStarts PROVE LoopInv'
<1>1. PICK p, c, u : p = Now.parts /\ c = Now.content /\ u = Now.usage
  OBVIOUS
<1>2. Loop!Turn # 0 /\ Scalars /\ Sent /\ CallsTyped /\ Open(p) /\ Spoken(c) /\ u = spent /\ phase = "tools"
  BY <1>1 DEF LoopInv, Loop!ToolStarts
<1>3. Turned(stored, p, c, u) /\ p \in Seq(Loop!Parts)
  BY <1>1, <1>2, NowFacts
<1>4. PICK i \in DOMAIN calls :
        /\ outcome[i] = 0
        /\ stored' = [stored EXCEPT ![Loop!Turn].parts = Append(@, [id |-> calls[i], state |-> "running", size |-> 0])]
  BY DEF Loop!ToolStarts
<1>5. UNCHANGED <<phase, text, calls, outcome, result, spent>>
  BY DEF Loop!ToolStarts
<1>6. PICK e : e = [id |-> calls[i], state |-> "running", size |-> 0]
  OBVIOUS
<1>7. e \in Loop!Parts /\ e.id = calls[i]
  <2>1. calls[i] \in Seq(Nat)
    BY <1>2, Elements DEF CallsTyped
  <2> QED BY <1>6, <2>1 DEF Loop!Parts
<1>8. PICK d : d = Append(p, e)
  OBVIOUS
<1>9. d \in Seq(Loop!Parts) /\ \A k \in DOMAIN d : (k \in DOMAIN p /\ d[k] = p[k]) \/ d[k] = e
  BY <1>3, <1>7, <1>8, Appended
<1>10. Turned(stored', d, c, u)
  <2>1. Turned([stored EXCEPT ![Loop!Turn].parts = d], d, c, u)
    BY <1>2, <1>3, <1>9, TurnSet
  <2>2. stored' = [stored EXCEPT ![Loop!Turn].parts = d]
    BY <1>1, <1>4, <1>6, <1>8 DEF Now
  <2> QED BY <2>1, <2>2
<1>11. Open(d)'
  <2>1. SUFFICES ASSUME NEW k \in DOMAIN d, d[k].state = "running"
                 PROVE  \E j \in DOMAIN calls : calls[j] = d[k].id /\ outcome[j] = 0
    BY <1>2, <1>5 DEF Open
  <2>2. CASE k \in DOMAIN p /\ d[k] = p[k]
    BY <1>2, <2>1, <2>2 DEF Open
  <2>3. CASE d[k] = e
    BY <1>4, <1>7, <2>3
  <2> QED BY <1>9, <2>2, <2>3
<1>12. Spoken(c)'
  BY <1>2, <1>5 DEF Spoken, Ending
<1>13. Scalars' /\ Sent' /\ CallsTyped'
  BY <1>2, <1>5, ScalarsStep DEF Loop!Acts, CallsTyped
<1>14. u = spent' /\ phase' # "idle"
  BY <1>2, <1>5
<1> QED BY <1>2, <1>10, <1>11, <1>12, <1>13, <1>14, LoopFrom

LEMMA ItToolEnds ==
  ASSUME Loop!LoopAssumption, LoopInv, Loop!ToolEnds PROVE LoopInv'
<1>1. PICK p, c, u : p = Now.parts /\ c = Now.content /\ u = Now.usage
  OBVIOUS
<1>2. Loop!Turn # 0 /\ Scalars /\ Sent /\ CallsTyped /\ Open(p) /\ Spoken(c) /\ u = spent /\ phase = "tools"
  BY <1>1 DEF LoopInv, Loop!ToolEnds
<1>3. Turned(stored, p, c, u) /\ p \in Seq(Loop!Parts)
  BY <1>1, <1>2, NowFacts
<1>4. PICK i \in DOMAIN calls, size \in ResultSizes, state \in {"completed", "error"} :
        /\ outcome' = [outcome EXCEPT ![i] = size]
        /\ stored' = [stored EXCEPT ![Loop!Turn].parts = Loop!Finished(@, calls[i], state, size)]
  BY DEF Loop!ToolEnds
<1>5. UNCHANGED <<phase, text, calls, result, spent>>
  BY DEF Loop!ToolEnds
<1>6. PICK e : e = [id |-> calls[i], state |-> state, size |-> size]
  OBVIOUS
<1>7. e \in Loop!Parts /\ e.state # "running" /\ size \in Nat
  <2>1. calls[i] \in Seq(Nat) /\ size \in Nat
    BY <1>2, Elements DEF CallsTyped, Loop!LoopAssumption
  <2> QED BY <1>6, <2>1 DEF Loop!Parts
<1>8. PICK d : d = Loop!Finished(p, calls[i], state, size)
  OBVIOUS
<1>9. /\ d \in Seq(Loop!Parts)
      /\ \A k \in DOMAIN d : d[k] = e \/ (k \in DOMAIN p /\ d[k] = p[k] /\ p[k].id # calls[i])
  <2>1. PICK at : at = Loop!PartOf(calls[i])
    OBVIOUS
  <2>2. \A k \in DOMAIN p : k \in at <=> p[k].id = calls[i]
    BY <1>1, <2>1 DEF Loop!PartOf, Now
  <2>3. d = IF at = {} THEN Append(p, e) ELSE [k \in DOMAIN p |-> IF k \in at THEN e ELSE p[k]]
    BY <1>6, <1>8, <2>1 DEF Loop!Finished
  <2>4. CASE at = {}
    <3>1. d = Append(p, e)
      BY <2>3, <2>4
    <3> QED BY <1>3, <1>7, <2>2, <2>4, <3>1, Appended
  <2>5. CASE at # {}
    <3>1. PICK n : n = Len(p)
      OBVIOUS
    <3>2. n \in Nat /\ DOMAIN p = 1..n /\ \A k \in 1..n : p[k] \in Loop!Parts
      BY <1>3, <3>1, Elements
    <3>3. d = [k \in 1..n |-> IF k \in at THEN e ELSE p[k]]
      BY <2>3, <2>5, <3>2
    <3>4. d \in [1..n -> Loop!Parts]
      BY <1>7, <3>2, <3>3
    <3>5. d \in Seq(Loop!Parts)
      BY <3>2, <3>4, SeqDef
    <3>6. \A k \in DOMAIN d : k \in DOMAIN p /\ (d[k] = e \/ (d[k] = p[k] /\ k \notin at))
      BY <3>2, <3>3
    <3> QED BY <2>2, <3>5, <3>6
  <2> QED BY <2>4, <2>5
<1>10. Turned(stored', d, c, u)
  <2>1. Turned([stored EXCEPT ![Loop!Turn].parts = d], d, c, u)
    BY <1>2, <1>3, <1>9, TurnSet
  <2>2. stored' = [stored EXCEPT ![Loop!Turn].parts = d]
    BY <1>1, <1>4, <1>8 DEF Now
  <2> QED BY <2>1, <2>2
<1>11. Open(d)'
  <2>1. SUFFICES ASSUME NEW k \in DOMAIN d, d[k].state = "running"
                 PROVE  \E j \in DOMAIN calls : calls[j] = d[k].id /\ outcome'[j] = 0
    BY <1>2, <1>5 DEF Open
  <2>2. k \in DOMAIN p /\ d[k] = p[k] /\ p[k].id # calls[i]
    BY <1>7, <1>9, <2>1
  <2>3. PICK j \in DOMAIN calls : calls[j] = p[k].id /\ outcome[j] = 0
    BY <1>2, <2>1, <2>2 DEF Open
  <2>4. j # i
    BY <2>2, <2>3
  <2>5. outcome'[j] = 0
    BY <1>2, <1>4, <2>3, <2>4 DEF CallsTyped
  <2> QED BY <2>2, <2>3, <2>5
<1>12. Spoken(c)'
  BY <1>2, <1>5 DEF Spoken, Ending
<1>13. Scalars' /\ Sent'
  BY <1>2, ScalarsStep DEF Loop!Acts
<1>14. CallsTyped'
  BY <1>2, <1>4, <1>5, <1>7 DEF CallsTyped
<1>15. u = spent' /\ phase' # "idle"
  BY <1>2, <1>5
<1> QED BY <1>2, <1>10, <1>11, <1>12, <1>13, <1>14, <1>15, LoopFrom

LEMMA ItToolsDone ==
  ASSUME Loop!LoopAssumption, LoopInv, Loop!ToolsDone PROVE LoopInv'
<1>1. PICK p, c, u : p = Now.parts /\ c = Now.content /\ u = Now.usage
  OBVIOUS
<1>2. Loop!Turn # 0 /\ Scalars /\ Sent /\ CallsTyped /\ Open(p) /\ Spoken(c) /\ u = spent /\ phase = "tools"
  BY <1>1 DEF LoopInv, Loop!ToolsDone
<1>3. Turned(stored, p, c, u)
  BY <1>1, <1>2, NowFacts
<1>4. /\ phase' = "step" /\ calls' = <<>> /\ outcome' = <<>> /\ UNCHANGED <<text, result, spent>>
      /\ \A i \in DOMAIN calls : outcome[i] # 0
  BY DEF Loop!ToolsDone
<1>5. Turned(stored', p, c, u)
  <2>1. PICK fed : fed = msgs \o Loop!ResultMessages
    OBVIOUS
  <2>2. \E k \in Loop!Compactions(fed, FALSE, stored) \cup {<<fed, stored>>} : stored' = k[2]
    BY <2>1 DEF Loop!ToolsDone
  <2>3. ASSUME NEW k \in Loop!Compactions(fed, FALSE, stored) PROVE Turned(k[2], p, c, u)
    BY <1>2, <1>3, TurnCompacted
  <2>4. <<fed, stored>>[2] = stored
    OBVIOUS
  <2> QED BY <1>3, <2>2, <2>3, <2>4
<1>6. Open(p)'
  <2>1. Calm(p)
    BY <1>2, <1>4 DEF Open, Calm
  <2> QED BY <2>1, CalmOpen
<1>7. Spoken(c)'
  BY <1>2, <1>4 DEF Spoken, Ending
<1>8. Scalars' /\ Sent' /\ CallsTyped'
  BY <1>2, <1>4, ScalarsStep DEF Loop!Acts, CallsTyped
<1> QED BY <1>2, <1>4, <1>5, <1>6, <1>7, <1>8, LoopFrom

(* What ends like the other is its suffix.                                     *)
LEMMA EndsLike ==
  ASSUME NEW T, NEW s \in Seq(T), NEW t \in Seq(T), Len(s) <= Len(t),
         \A i \in 1..Len(s) : s[i] = t[Len(t) - Len(s) + i]
  PROVE  Loop!IsSuffix(s, t)
<1>1. PICK m, n : m = Len(s) /\ n = Len(t)
  OBVIOUS
<1>2. /\ m \in Nat /\ n \in Nat /\ m <= n /\ \A i \in 1..m : s[i] = t[n - m + i] /\ s[i] \in T
      /\ \A i \in 1..n : t[i] \in T
  BY <1>1, Elements
<1>3. PICK a, b : a = Loop!Reverse(s) /\ b = Loop!Reverse(t)
  OBVIOUS
<1>4. a = [i \in 1..m |-> s[(m - i) + 1]] /\ b = [i \in 1..n |-> t[(n - i) + 1]]
  BY <1>1, <1>3 DEF Loop!Reverse
<1>5. a \in [1..m -> T] /\ b \in [1..n -> T]
  BY <1>2, <1>4
<1>6. a \in Seq(T) /\ b \in Seq(T) /\ Len(a) = m /\ Len(b) = n
  <2> m \in Nat /\ n \in Nat
    BY <1>2
  <2>3. a \in Seq(T)
    BY <1>5, SeqDef
  <2>4. b \in Seq(T)
    BY <1>5, SeqDef
  <2>1. a \in Seq(T) /\ b \in Seq(T)
    BY <2>3, <2>4
  <2>2. DOMAIN a = 1..m /\ DOMAIN b = 1..n
    BY <1>4
  <2> QED BY <1>2, <2>1, <2>2, Elements
<1>7. \A i \in 1..m : a[i] = b[i]
  <2>1. SUFFICES ASSUME NEW i \in 1..m PROVE a[i] = b[i]
    OBVIOUS
  <2>2. m - i + 1 \in 1..m /\ i \in 1..n /\ n - m + (m - i + 1) = n - i + 1
    BY <1>2
  <2> QED BY <1>2, <1>4, <2>2
<1>8. /\ SubSeq(a, 1, m) \in Seq(T) /\ Len(SubSeq(a, 1, m)) = m /\ \A i \in 1..m : SubSeq(a, 1, m)[i] = a[i]
      /\ SubSeq(b, 1, m) \in Seq(T) /\ Len(SubSeq(b, 1, m)) = m /\ \A i \in 1..m : SubSeq(b, 1, m)[i] = b[i]
  <2>1. \A i \in 1..m : a[i] \in T /\ b[i] \in T
    BY <1>2, <1>5
  <2>2. /\ SubSeq(a, 1, m) \in Seq(T) /\ Len(SubSeq(a, 1, m)) = IF 1 <= m THEN m - 1 + 1 ELSE 0
        /\ \A i \in 1..m - 1 + 1 : SubSeq(a, 1, m)[i] = a[1 + i - 1]
    BY <1>2, <2>1, SubSeqProperties
  <2>3. /\ SubSeq(b, 1, m) \in Seq(T) /\ Len(SubSeq(b, 1, m)) = IF 1 <= m THEN m - 1 + 1 ELSE 0
        /\ \A i \in 1..m - 1 + 1 : SubSeq(b, 1, m)[i] = b[1 + i - 1]
    BY <1>2, <2>1, SubSeqProperties
  <2> QED BY <1>2, <2>2, <2>3
<1>9. SubSeq(a, 1, m) = SubSeq(b, 1, m)
  BY <1>7, <1>8, SeqEqual
<1> QED BY <1>2, <1>3, <1>6, <1>9 DEF Loop!IsSuffix, Loop!IsPrefix

(* What a prefix shares.                                                       *)
LEMMA PrefixShares ==
  ASSUME NEW T, NEW s \in Seq(T), NEW t \in Seq(T), Loop!IsPrefix(s, t)
  PROVE  Len(s) <= Len(t) /\ \A i \in 1..Len(s) : s[i] = t[i]
<1>1. PICK m, n : m = Len(s) /\ n = Len(t)
  OBVIOUS
<1>2. m \in Nat /\ n \in Nat /\ (\A i \in 1..m : s[i] \in T) /\ (\A i \in 1..n : t[i] \in T)
  BY <1>1, Elements
<1>3. m <= n /\ SubSeq(s, 1, m) = SubSeq(t, 1, m)
  BY <1>1 DEF Loop!IsPrefix
<1>4. \A i \in 1..m - 1 + 1 : SubSeq(s, 1, m)[i] = s[1 + i - 1]
  BY <1>2, SubSeqProperties
<1>5. \A i \in 1..m - 1 + 1 : SubSeq(t, 1, m)[i] = t[1 + i - 1]
  <2>1. \A i \in 1..m : t[i] \in T
    BY <1>2, <1>3
  <2>2. 1 \in Int /\ m \in Int
    BY <1>2
  <2> QED BY <2>1, <2>2, SubSeqProperties
<1>6. ASSUME NEW i \in 1..m PROVE s[i] = t[i]
  <2>1. i \in 1..m - 1 + 1 /\ 1 + i - 1 = i
    BY <1>2
  <2> QED BY <1>3, <1>4, <1>5, <2>1
<1> QED BY <1>1, <1>3, <1>6

(* The remainder completes the output, whatever of it is there already.        *)
LEMMA RemainderEnds ==
  ASSUME NEW T, NEW c \in Seq(T), NEW r \in Seq(T), Loop!IsPrefix(r, c) => Loop!IsSuffix(r, c)
  PROVE  c \o Loop!Remainder(c, r) \in Seq(T) /\ Loop!IsSuffix(r, c \o Loop!Remainder(c, r))
<1>1. PICK n, m : n = Len(c) /\ m = Len(r)
  OBVIOUS
<1>2. n \in Nat /\ m \in Nat /\ \A i \in 1..m : r[i] \in T
  BY <1>1, Elements
<1>3. CASE Loop!IsSuffix(r, c)
  <2>1. Loop!Remainder(c, r) = <<>> /\ c \o <<>> = c
    BY <1>3, ConcatEmptySeq DEF Loop!Remainder
  <2> QED BY <1>3, <2>1
<1>4. CASE ~Loop!IsSuffix(r, c) /\ Loop!IsPrefix(c, r)
  <2>1. n <= m /\ \A i \in 1..n : c[i] = r[i]
    BY <1>1, <1>4, PrefixShares
  <2>2. PICK e : e = SubSeq(r, n + 1, m)
    OBVIOUS
  <2>3. Loop!Remainder(c, r) = e
    BY <1>1, <1>4, <2>2 DEF Loop!Remainder
  <2>4. e \in Seq(T) /\ Len(e) = m - n /\ \A i \in 1..m - n : e[i] = r[n + i]
    <3>1. n + 1 \in Int /\ m \in Int /\ \A i \in n + 1..m : r[i] \in T
      BY <1>2
    <3>2. /\ SubSeq(r, n + 1, m) \in Seq(T)
          /\ Len(SubSeq(r, n + 1, m)) = IF n + 1 <= m THEN m - (n + 1) + 1 ELSE 0
          /\ \A i \in 1..m - (n + 1) + 1 : SubSeq(r, n + 1, m)[i] = r[n + 1 + i - 1]
      BY <3>1, SubSeqProperties
    <3>3. \A i \in 1..m - n : i \in 1..m - (n + 1) + 1 /\ n + 1 + i - 1 = n + i
      BY <1>2
    <3> QED BY <1>2, <2>1, <2>2, <3>2, <3>3
  <2>5. PICK d : d = c \o e
    OBVIOUS
  <2>6. d \in Seq(T) /\ Len(d) = m /\ \A i \in 1..m : d[i] = IF i <= n THEN c[i] ELSE e[i - n]
    <3>1. /\ d \in Seq(T) /\ Len(d) = n + (m - n)
          /\ \A i \in 1..n + (m - n) : d[i] = IF i <= n THEN c[i] ELSE e[i - n]
      BY <1>1, <2>4, <2>5, ConcatProperties
    <3>2. n + (m - n) = m
      BY <1>2
    <3> QED BY <3>1, <3>2
  <2>7. \A i \in 1..m : d[i] = r[i] /\ m - m + i = i
    <3>1. SUFFICES ASSUME NEW i \in 1..m PROVE d[i] = r[i] /\ m - m + i = i
      OBVIOUS
    <3>2. CASE i <= n
      <4>1. i \in 1..n /\ m - m + i = i
        BY <1>2, <3>2
      <4> QED BY <2>1, <2>6, <3>2, <4>1
    <3>3. CASE ~(i <= n)
      <4>1. i - n \in 1..m - n /\ n + (i - n) = i /\ m - m + i = i
        BY <1>2, <3>3
      <4> QED BY <2>4, <2>6, <3>3, <4>1
    <3> QED BY <3>2, <3>3
  <2>8. Loop!IsSuffix(r, d)
    <3>1. Len(r) <= Len(d) /\ \A i \in 1..Len(r) : r[i] = d[Len(d) - Len(r) + i]
      BY <1>1, <1>2, <2>6, <2>7
    <3> QED BY <2>6, <3>1, EndsLike
  <2> QED BY <2>3, <2>5, <2>6, <2>8
<1>5. CASE ~Loop!IsSuffix(r, c) /\ ~Loop!IsPrefix(c, r)
  <2>1. Loop!Remainder(c, r) = r
    BY <1>5 DEF Loop!Remainder
  <2>2. PICK d : d = c \o r
    OBVIOUS
  <2>3. d \in Seq(T) /\ Len(d) = n + m /\ \A i \in 1..n + m : d[i] = IF i <= n THEN c[i] ELSE r[i - n]
    BY <1>1, <2>2, ConcatProperties
  <2>4. \A i \in 1..m : r[i] = d[(n + m) - m + i]
    <3>1. SUFFICES ASSUME NEW i \in 1..m PROVE r[i] = d[(n + m) - m + i]
      OBVIOUS
    <3>2. (n + m) - m + i \in 1..n + m /\ ~((n + m) - m + i <= n) /\ ((n + m) - m + i) - n = i
      BY <1>2
    <3> QED BY <2>3, <3>2
  <2>5. m <= n + m
    BY <1>2
  <2>6. Loop!IsSuffix(r, d)
    BY <1>1, <2>3, <2>4, <2>5, EndsLike
  <2> QED BY <2>1, <2>2, <2>3, <2>6
<1> QED BY <1>3, <1>4, <1>5

LEMMA TheTailIsPersisted ==
  ASSUME Loop!LoopAssumption, LoopInv, Loop!PersistsTail PROVE LoopInv'
<1>1. PICK p, c, u : p = Now.parts /\ c = Now.content /\ u = Now.usage
  OBVIOUS
<1>2. Loop!Turn # 0 /\ Scalars /\ Sent /\ CallsTyped /\ Open(p) /\ Spoken(c) /\ u = spent /\ phase = "tail"
  BY <1>1 DEF LoopInv, Loop!PersistsTail
<1>3. Turned(stored, p, c, u) /\ c \in Seq(Seq(Nat))
  BY <1>1, <1>2, NowFacts
<1>4. PICK r : r = result.output
  OBVIOUS
<1>5. Plain(c) /\ Ending(c) /\ (r = text \/ r = Append(text, Loop!Notice))
  BY <1>2, <1>4 DEF Spoken
<1>6. Len(c) \in Nat /\ DOMAIN c = 1..Len(c) /\ \A i \in 1..Len(c) : c[i] \in Seq(Nat)
  BY <1>3, Elements
<1>7. text \in Seq(Seq(Nat)) /\ (text # <<>> => Len(c) # 0 /\ text = <<c[Len(c)]>> /\ Len(text) = 1 /\ text[1] = c[Len(c)])
  <2>1. CASE text = <<>>
    BY <2>1
  <2>2. CASE text # <<>>
    <3>1. c # <<>> /\ text = <<c[Len(c)]>>
      BY <1>5, <2>2 DEF Ending
    <3>2. Len(c) # 0
      BY <1>3, <3>1, EmptySeq
    <3>3. c[Len(c)] \in Seq(Nat)
      BY <1>6, <3>2
    <3> QED BY <3>1, <3>2, <3>3
  <2> QED BY <2>1, <2>2
<1>8. Loop!Notice \in Seq(Nat)
  BY DEF Loop!Notice
<1>9. r \in Seq(Seq(Nat))
  <2>1. CASE r = text
    BY <1>7, <2>1
  <2>2. CASE r = Append(text, Loop!Notice)
    <3>1. text \in Seq(Seq(Nat))
      BY <1>7
    <3>2. Append(text, Loop!Notice) \in Seq(Seq(Nat))
      BY <1>8, <3>1, AppendProperties
    <3> QED BY <2>2, <3>2
  <2> QED BY <1>5, <2>1, <2>2
<1>10. Loop!IsPrefix(r, c) => Loop!IsSuffix(r, c)
  <2>1. SUFFICES ASSUME Loop!IsPrefix(r, c) PROVE Loop!IsSuffix(r, c)
    OBVIOUS
  <2>2. Len(r) <= Len(c) /\ \A i \in 1..Len(r) : r[i] = c[i]
    BY <1>3, <1>9, <2>1, PrefixShares
  <2>3. r = text
    <3>1. SUFFICES ASSUME r = Append(text, Loop!Notice) PROVE FALSE
      BY <1>5
    <3>2. PICK k : k = Len(text) + 1
      OBVIOUS
    <3>3. Len(r) = k /\ r[k] = Loop!Notice /\ k \in 1..k
      BY <1>7, <1>8, <3>1, <3>2, AppendProperties, LenProperties
    <3>4. k \in DOMAIN c /\ c[k] = Loop!Notice
      BY <1>6, <2>2, <3>3
    <3> QED BY <1>5, <3>4 DEF Plain
  <2>4. CASE text = <<>>
    <3>1. Len(r) = 0
      BY <2>3, <2>4
    <3>2. Len(r) <= Len(c) /\ \A i \in 1..Len(r) : r[i] = c[Len(c) - Len(r) + i]
      BY <2>2, <3>1
    <3> QED BY <1>3, <1>9, <3>2, EndsLike
  <2>5. CASE text # <<>>
    <3>1. Len(r) = 1 /\ r[1] = c[Len(c)]
      BY <1>7, <2>3, <2>5
    <3>2. \A i \in 1..1 : Len(c) - 1 + i = Len(c) /\ i = 1
      BY <1>6
    <3>3. \A i \in 1..Len(r) : r[i] = c[Len(c) - Len(r) + i]
      BY <3>1, <3>2
    <3> QED BY <1>3, <1>9, <2>2, <3>3, EndsLike
  <2> QED BY <2>4, <2>5
<1>11. PICK d : d = c \o Loop!Remainder(c, r)
  OBVIOUS
<1>12. d \in Seq(Seq(Nat)) /\ Loop!IsSuffix(r, d)
  BY <1>3, <1>9, <1>10, <1>11, RemainderEnds
<1>13. stored' = [stored EXCEPT ![Loop!Turn].content = d]
  BY <1>1, <1>4, <1>11 DEF Loop!PersistsTail, Now
<1>14. Turned(stored', p, d, u)
  <2>1. Turned([stored EXCEPT ![Loop!Turn].content = d], p, d, u)
    BY <1>2, <1>3, <1>12, TurnSet
  <2> QED BY <1>13, <2>1
<1>15. phase' = "account" /\ UNCHANGED <<text, calls, outcome, result, spent>>
  BY DEF Loop!PersistsTail
<1>16. Open(p)'
  BY <1>2, OpenCalm, CalmOpen
<1>17. Spoken(d)'
  BY <1>4, <1>12, <1>15 DEF Spoken
<1>18. Scalars' /\ Sent' /\ CallsTyped'
  BY <1>2, <1>15, ScalarsStep DEF Loop!Acts, CallsTyped
<1> QED BY <1>2, <1>14, <1>15, <1>16, <1>17, <1>18, LoopFrom

LEMMA TheUsageIsAdded ==
  ASSUME Loop!LoopAssumption, LoopInv, Loop!AddsUsage PROVE LoopInv'
<1>1. PICK p, c, u : p = Now.parts /\ c = Now.content /\ u = Now.usage
  OBVIOUS
<1>2. Loop!Turn # 0 /\ Scalars /\ Sent /\ CallsTyped /\ Open(p) /\ Spoken(c) /\ u = spent /\ phase = "account"
  BY <1>1 DEF LoopInv, Loop!AddsUsage
<1>3. phase' = "complete" /\ UNCHANGED <<stored, text, calls, outcome, result, spent>>
  BY DEF Loop!AddsUsage
<1>4. Turned(stored', p, c, u)
  BY <1>1, <1>2, <1>3, NowFacts
<1>5. Open(p)'
  BY <1>2, OpenCalm, CalmOpen
<1>6. Spoken(c)'
  BY <1>2, <1>3 DEF Spoken
<1>7. Scalars' /\ Sent' /\ CallsTyped'
  BY <1>2, <1>3, ScalarsStep DEF Loop!Acts, CallsTyped
<1> QED BY <1>2, <1>3, <1>4, <1>5, <1>6, <1>7, LoopFrom

(* However a run ends, its parts are settled.                                  *)
LEMMA LoopEnds ==
  ASSUME Loop!LoopAssumption, LoopInv, Loop!Turn # 0, Loop!Acts,
         NEW p, NEW c, NEW u, Calm(p), NEW q, Turned(q, p, c, u), Loop!Ended(q)
  PROVE  LoopInv'
<1>1. /\ stored' = q /\ phase' = "idle" /\ text' = <<>> /\ calls' = <<>> /\ outcome' = <<>>
      /\ result' = Loop!NoResult
  BY DEF Loop!Ended
<1>2. Scalars' /\ Sent' /\ CallsTyped'
  <2>1. Scalars' /\ Sent'
    BY ScalarsStep DEF LoopInv
  <2>2. CallsTyped'
    <3>1. result'.finish \in Finishes
      BY <1>1 DEF Loop!NoResult, Finishes
    <3>2. calls' \in Seq(Seq(Nat)) /\ DOMAIN calls' = {} /\ outcome' \in [{} -> Nat]
      BY <1>1
    <3> QED BY <3>1, <3>2 DEF CallsTyped
  <2> QED BY <2>1, <2>2
<1>3. Turned(stored', p, c, u)
  BY <1>1
<1> QED BY <1>1, <1>2, <1>3, LoopFrom

LEMMA TheRunCompletes ==
  ASSUME Loop!LoopAssumption, LoopInv, Loop!Completes PROVE LoopInv'
<1>1. PICK p, c, u : p = Now.parts /\ c = Now.content /\ u = Now.usage
  OBVIOUS
<1>2. Loop!Turn # 0 /\ CallsTyped /\ Open(p) /\ phase = "complete"
  BY <1>1 DEF LoopInv, Loop!Completes
<1>3. Turned(stored, p, c, u)
  BY <1>1, <1>2, NowFacts
<1>4. PICK q : q = [stored EXCEPT ![Loop!Turn].finish = result.finish]
  OBVIOUS
<1>5. Turned(q, p, c, u)
  BY <1>2, <1>3, <1>4, TurnSet DEF CallsTyped
<1>6. Calm(p)
  BY <1>2, OpenCalm
<1>7. Loop!Ended(q) /\ Loop!Acts
  BY <1>4 DEF Loop!Completes, Loop!Acts
<1> QED BY <1>2, <1>5, <1>6, <1>7, LoopEnds

(* The parts of a run that did not complete.                                   *)
LEMMA TurnClosed ==
  ASSUME LoopInv, Loop!Turn # 0, NEW finish \in Finishes
  PROVE  \E r, c, u : /\ Calm(r)
                      /\ Turned([stored EXCEPT ![Loop!Turn].finish = finish, ![Loop!Turn].parts = Loop!OpenFailed(@)],
                                r, c, u)
<1>1. PICK p, c, u : p = Now.parts /\ c = Now.content /\ u = Now.usage
  OBVIOUS
<1>2. Turned(stored, p, c, u) /\ p \in Seq(Loop!Parts)
  BY <1>1, NowFacts
<1>3. PICK q : q = [stored EXCEPT ![Loop!Turn].finish = finish]
  OBVIOUS
<1>4. Turned(q, p, c, u)
  BY <1>2, <1>3, TurnSet
<1>5. PICK n : n = Len(p)
  OBVIOUS
<1>6. n \in Nat /\ DOMAIN p = 1..n /\ \A i \in 1..n : p[i] \in Loop!Parts
  BY <1>2, <1>5, Elements
<1>7. PICK r : r = Loop!OpenFailed(p)
  OBVIOUS
<1>8. r \in Seq(Loop!Parts) /\ Calm(r)
  <2>1. ASSUME NEW e \in Loop!Parts
        PROVE  LET f == [e EXCEPT !.state = "error", !.size = 1] IN f \in Loop!Parts /\ f.state = "error"
    <3> PICK I : I = Seq(Nat)
      OBVIOUS
    <3> QED BY DEF Loop!Parts
  <2>2. \A i \in 1..n : r[i] \in Loop!Parts /\ r[i].state # "running"
    BY <1>6, <1>7, <2>1 DEF Loop!OpenFailed
  <2>3. r = [i \in 1..n |-> r[i]]
    BY <1>6, <1>7 DEF Loop!OpenFailed
  <2>4. r \in [1..n -> Loop!Parts]
    BY <2>2, <2>3
  <2>5. r \in Seq(Loop!Parts)
    BY <1>6, <2>4, SeqDef
  <2>6. DOMAIN r = 1..n
    BY <2>3
  <2> QED BY <2>2, <2>5, <2>6 DEF Calm
<1>9. Turned([q EXCEPT ![Loop!Turn].parts = r], r, c, u)
  BY <1>4, <1>8, TurnSet
<1>10. [stored EXCEPT ![Loop!Turn].finish = finish, ![Loop!Turn].parts = Loop!OpenFailed(@)]
         = [q EXCEPT ![Loop!Turn].parts = r]
  <2>1. q[Loop!Turn].parts = p
    BY <1>4 DEF Turned
  <2> QED BY <1>3, <1>7, <2>1
<1> QED BY <1>8, <1>9, <1>10

LEMMA TheRunFails ==
  ASSUME Loop!LoopAssumption, LoopInv, Loop!RunFails \/ Loop!IsCancelled PROVE LoopInv'
<1>1. Loop!Turn # 0 /\ Loop!Acts
  BY DEF LoopInv, Loop!RunFails, Loop!IsCancelled, Loop!Acts
<1>2. PICK finish \in {"error", "aborted"} :
        Loop!Ended([stored EXCEPT ![Loop!Turn].finish = finish, ![Loop!Turn].parts = Loop!OpenFailed(@)])
  BY DEF Loop!RunFails, Loop!IsCancelled
<1>3. PICK q : q = [stored EXCEPT ![Loop!Turn].finish = finish, ![Loop!Turn].parts = Loop!OpenFailed(@)]
  OBVIOUS
<1>4. finish \in Finishes
  BY DEF Finishes
<1>5. PICK r, c, u : Calm(r) /\ Turned(q, r, c, u)
  BY <1>1, <1>3, <1>4, TurnClosed
<1> QED BY <1>1, <1>2, <1>3, <1>5, LoopEnds

LEMMA LoopBegins == Loop!LoopAssumption /\ Loop!Init => LoopInv
<1> SUFFICES ASSUME Loop!LoopAssumption, Loop!Init PROVE LoopInv
  OBVIOUS
<1>1. stored \in Seq(Loop!EndedTurns)
  BY DEF Loop!LoopAssumption, Loop!Init
<1>2. PICK S : S = [covers : SUBSET Seq(Nat), tail : Seq(Nat), of : BOOLEAN]
  OBVIOUS
<1>3. PICK A : A = {p \in Loop!Parts : p.state # "running"}
  OBVIOUS
<1>4. Loop!EndedTurns \subseteq Turns(S) /\ \A e \in Loop!EndedTurns : e.parts \in Seq(A)
  <2>1. Seq(A) \subseteq Seq(Loop!Parts)
    BY <1>3, SeqMonotonic
  <2>2. Loop!Normal \cup {"error", "aborted"} \subseteq Finishes
    BY DEF Finishes
  <2>3. Loop!EndedTurns = [prompt : Nat, parts : Seq(A), content : Seq(Seq(Nat)), usage : Nat, last : Nat,
                           finish : Loop!Normal \cup {"error", "aborted"}, summary : S]
    BY <1>2, <1>3 DEF Loop!EndedTurns
  <2> PICK P, B, C, F : P = Seq(Loop!Parts) /\ B = Seq(A) /\ C = Seq(Seq(Nat)) /\ F = Loop!Normal \cup {"error", "aborted"}
    OBVIOUS
  <2> QED BY <2>1, <2>2, <2>3 DEF Turns
<1>5. stored \in Seq(Turns(S))
  BY <1>1, <1>4, SeqMonotonic
<1>6. TurnsTyped
  BY <1>5 DEF TurnsTyped
<1>7. \A t \in 1..Len(stored) : stored[t].parts \in Seq(A)
  BY <1>1, <1>4, Elements
<1>8. \A t \in 1..Len(stored) : Calm(stored[t].parts)
  <2>1. ASSUME NEW q \in Seq(A) PROVE Calm(q)
    BY <1>3, Elements DEF Calm
  <2> QED BY <1>7, <2>1
<1>9. Loop!Turn = Len(stored) /\ Len(stored) \in Nat
  BY <1>5, Elements DEF Loop!Turn
<1>10. Scalars /\ Sent /\ CallsTyped
  <2>1. MaxRetries \in Nat /\ MaxSteps \in Nat \ {0}
    BY DEF Loop!LoopAssumption
  <2>2. /\ sessionUsage = 0 /\ phase = "idle" /\ step = 0 /\ series = "first" /\ attempt = 0 /\ calls = <<>>
        /\ outcome = <<>> /\ result = Loop!NoResult /\ spent = 0 /\ tries = 0
    BY DEF Loop!Init
  <2>3. Scalars
    BY <2>1, <2>2 DEF Scalars, LoopPhases
  <2>4. Sent
    BY <2>1, <2>2 DEF Sent, Loop!TriesBound
  <2>5. CallsTyped
    <3>1. result.finish \in Finishes
      BY <2>2 DEF Loop!NoResult, Finishes
    <3>2. calls \in Seq(Seq(Nat)) /\ DOMAIN calls = {} /\ outcome \in [{} -> Nat]
      BY <2>2
    <3> QED BY <3>1, <3>2 DEF CallsTyped
  <2> QED BY <2>3, <2>4, <2>5
<1>11. phase = "idle" /\ text = <<>>
  BY DEF Loop!Init
<1>12. \A t \in 1..Loop!Turn - 1 : Calm(stored[t].parts)
  BY <1>8, <1>9
<1>13. Loop!Turn # 0 => Calm(Now.parts)
  BY <1>8, <1>9 DEF Now
<1> QED BY <1>6, <1>10, <1>11, <1>12, <1>13 DEF LoopInv

LEMMA LoopKept == Loop!LoopAssumption /\ LoopInv /\ [Loop!Next]_loopVars => LoopInv'
<1> SUFFICES ASSUME Loop!LoopAssumption, LoopInv, [Loop!Next]_loopVars PROVE LoopInv'
  OBVIOUS
<1>1. CASE Loop!Next
  <2> Loop!Acts
    BY <1>1 DEF Loop!Next
  <2> QED
    BY TheRunBegins, TheStepStarts, TextIsStreamed, TheAttemptFails, TheDelayIsOver, ItIsCut, ItIsStopped,
       ItAnswers, ItCallsTools, ItToolStarts, ItToolEnds, ItToolsDone, TheTailIsPersisted, TheUsageIsAdded,
       TheRunCompletes, TheRunFails DEF Loop!Acts
<1>2. CASE UNCHANGED loopVars
  <2>1. UNCHANGED <<stored, sessionUsage, phase, step, series, attempt, text, calls, outcome, result, spent, tries>>
    BY <1>2 DEF loopVars
  <2> QED BY <2>1 DEF LoopInv, TurnsTyped, Scalars, Sent, CallsTyped, Calm, Open, Spoken, Plain, Ending, Now,
                      Loop!Turn, Before
<1> QED BY <1>1, <1>2

LEMMA LoopAddsUp ==
  LoopInv => Loop!AnswerStored /\ Loop!PartsSettled /\ Loop!UsageAgrees /\ Loop!AttemptsBounded
<1> SUFFICES ASSUME LoopInv
             PROVE  Loop!AnswerStored /\ Loop!PartsSettled /\ Loop!UsageAgrees /\ Loop!AttemptsBounded
  OBVIOUS
<1>1. Loop!AnswerStored
  BY DEF LoopInv, Spoken, Now, Loop!AnswerStored
<1>2. Loop!PartsSettled
  <2>1. SUFFICES ASSUME phase = "idle", NEW t \in 1..Loop!Turn PROVE Calm(stored[t].parts)
    BY DEF Loop!PartsSettled, Calm
  <2>2. Loop!Turn \in Nat
    BY TurnFacts DEF LoopInv, TurnsTyped, Loop!Turn
  <2>3. CASE t = Loop!Turn
    BY <2>1, <2>2, <2>3 DEF LoopInv, Now
  <2>4. CASE t # Loop!Turn
    <3>1. t \in 1..Loop!Turn - 1
      BY <2>2, <2>4
    <3> QED BY <3>1 DEF LoopInv
  <2> QED BY <2>3, <2>4
<1>3. Loop!UsageAgrees
  BY DEF LoopInv, Now, Loop!UsageAgrees
<1>4. Loop!AttemptsBounded
  BY DEF LoopInv, Sent, Loop!AttemptsBounded
<1> QED BY <1>1, <1>2, <1>3, <1>4

LEMMA LoopTyped == LoopInv => Loop!TypeOK
<1> SUFFICES ASSUME LoopInv PROVE Loop!TypeOK
  OBVIOUS
<1>1. \A t \in 1..Loop!Turn :
        /\ stored[t].parts \in Seq(Loop!Parts)
        /\ {stored[t].prompt, stored[t].usage, stored[t].last} \subseteq Nat /\ stored[t].finish \in Finishes
  BY TurnFacts DEF LoopInv, TurnsTyped, Loop!Turn
<1>2. \A t \in 1..Loop!Turn : Loop!Range(stored[t].parts) \subseteq Loop!Parts
  BY <1>1, Elements DEF Loop!Range
<1> QED BY <1>1, <1>2 DEF LoopInv, Scalars, LoopPhases, Loop!TypeOK, Finishes

(* What a run leaves adds up, whatever the provider answers or refuses, the    *)
(* tools return, the compactions drop and whenever the run is cut off: the     *)
(* stored text ends with the answer, the stored usage is what the run spent,   *)
(* no tool call is left running, and no step sends more requests than the      *)
(* retries of its three series. For any limits, budgets and earlier turns.     *)
THEOREM RunsAddUp == SumSpec => []RunAddsUp
<1>1. Loop!LoopAssumption
  BY RunAssumption
<1>2. SumInit => LoopInv
  BY <1>1, LoopBegins DEF SumInit
<1>3. LoopInv /\ [SumNext]_<<moves, vars, loopVars, pageVars>> => LoopInv'
  <2>1. [SumNext]_<<moves, vars, loopVars, pageVars>> => [Loop!Next]_loopVars
    BY DEF SumNext
  <2> QED BY <1>1, <2>1, LoopKept
<1>4. LoopInv => RunAddsUp
  BY LoopAddsUp DEF RunAddsUp
<1> QED BY <1>2, <1>3, <1>4, PTL DEF SumSpec

-----------------------------------------------------------------------------
(* The page. Its queues are counted and searched through the lemmas below.     *)

(* How many elements of a sequence after the i-th have a type of T.            *)
Later(s, T, i) == Cardinality({k \in DOMAIN s : k > i /\ s[k].type \in T})

LEMMA LaterFinite ==
  ASSUME NEW S, NEW s \in Seq(S), NEW T, NEW i \in Nat
  PROVE  /\ IsFiniteSet({k \in DOMAIN s : k > i /\ s[k].type \in T})
         /\ Later(s, T, i) \in Nat
<1>1. {k \in DOMAIN s : k > i /\ s[k].type \in T} \subseteq 1..Len(s) /\ Len(s) \in Nat
  BY Elements
<1>2. IsFiniteSet(1..Len(s))
  BY <1>1, FS_Interval
<1> QED BY <1>1, <1>2, FS_Subset, FS_CardinalityType DEF Later

LEMMA LaterAppended ==
  ASSUME NEW S, NEW s \in Seq(S), NEW e \in S, NEW T, NEW i \in 0..Len(s)
  PROVE  Later(Append(s, e), T, i) = Later(s, T, i) + (IF e.type \in T THEN 1 ELSE 0)
<1> DEFINE D == {k \in DOMAIN s : k > i /\ s[k].type \in T}
           E == {k \in DOMAIN Append(s, e) : k > i /\ Append(s, e)[k].type \in T}
           n == Len(s) + 1
<1>1. /\ DOMAIN s = 1..Len(s) /\ DOMAIN Append(s, e) = 1..n /\ Len(s) \in Nat /\ i \in Nat
      /\ Append(s, e)[n] = e /\ \A k \in 1..Len(s) : Append(s, e)[k] = s[k]
  BY AppendProperties, Elements
<1>2. E = IF e.type \in T THEN D \cup {n} ELSE D
  BY <1>1
<1>3. n \notin D
  BY <1>1
<1>4. IsFiniteSet(D) /\ Cardinality(D) \in Nat
  BY <1>1, LaterFinite DEF Later
<1> HIDE DEF D, E, n
<1>5. Cardinality(D \cup {n}) = Cardinality(D) + 1
  BY <1>3, <1>4, FS_AddElement
<1>6. Later(s, T, i) = Cardinality(D) /\ Later(Append(s, e), T, i) = Cardinality(E)
  BY DEF Later, D, E
<1> QED BY <1>2, <1>4, <1>5, <1>6

LEMMA LaterTaken ==
  ASSUME NEW S, NEW s \in Seq(S), s # <<>>, NEW T, NEW i \in Nat
  PROVE  Later(Tail(s), T, i) = Later(s, T, i + 1)
<1> DEFINE D == {k \in DOMAIN Tail(s) : k > i /\ Tail(s)[k].type \in T}
           E == {k \in DOMAIN s : k > i + 1 /\ s[k].type \in T}
           f == [k \in D |-> k + 1]
<1>1. /\ DOMAIN s = 1..Len(s) /\ DOMAIN Tail(s) = 1..Len(s) - 1 /\ Len(s) \in Nat \ {0}
      /\ \A k \in 1..Len(s) - 1 : Tail(s)[k] = s[k + 1]
  <2>1. Len(s) \in Nat \ {0}
    BY EmptySeq
  <2> QED BY <2>1, HeadTailProperties, Elements
<1>2. f \in Bijection(D, E)
  <2>1. \A k \in D : k \in Nat /\ f[k] = k + 1
    BY <1>1
  <2>2. f \in [D -> E]
    BY <1>1
  <2>3. \A k, m \in D : f[k] = f[m] => k = m
    BY <2>1
  <2>4. \A m \in E : m - 1 \in D /\ f[m - 1] = m
    BY <1>1
  <2> HIDE DEF D, E, f
  <2>5. f \in Injection(D, E)
    BY <2>2, <2>3 DEF Injection, IsInjective
  <2>6. f \in Surjection(D, E)
    BY <2>2, <2>4 DEF Surjection
  <2> QED BY <2>5, <2>6 DEF Bijection
<1>3. IsFiniteSet(D)
  <2>1. Tail(s) \in Seq(S)
    BY Taken
  <2> QED BY <2>1, LaterFinite
<1> HIDE DEF D, E, f
<1>4. Cardinality(D) = Cardinality(E)
  BY <1>2, <1>3, FS_Bijection DEF ExistsBijection
<1> QED BY <1>4 DEF Later, D, E

LEMMA LaterHead ==
  ASSUME NEW S, NEW s \in Seq(S), s # <<>>, NEW T
  PROVE  /\ Later(s, T, 0) = Later(s, T, 1) + (IF Head(s).type \in T THEN 1 ELSE 0)
         /\ Later(Tail(s), T, 0) = Later(s, T, 1)
<1> DEFINE D == {k \in DOMAIN s : k > 1 /\ s[k].type \in T}
           E == {k \in DOMAIN s : k > 0 /\ s[k].type \in T}
<1>1. DOMAIN s = 1..Len(s) /\ Len(s) \in Nat /\ Head(s) = s[1] /\ 1 \in DOMAIN s
  BY Taken, Elements
<1>2. E = IF Head(s).type \in T THEN D \cup {1} ELSE D
  BY <1>1
<1>3. 1 \notin D
  OBVIOUS
<1>4. IsFiniteSet(D) /\ Cardinality(D) \in Nat
  BY LaterFinite DEF Later
<1> HIDE DEF D, E
<1>5. Cardinality(D \cup {1}) = Cardinality(D) + 1
  BY <1>3, <1>4, FS_AddElement
<1>6. Later(s, T, 1) = Cardinality(D) /\ Later(s, T, 0) = Cardinality(E)
  BY DEF Later, D, E
<1>7. Later(Tail(s), T, 0) = Later(s, T, 0 + 1)
  BY LaterTaken
<1> QED BY <1>2, <1>4, <1>5, <1>6, <1>7

LEMMA LaterSome ==
  ASSUME NEW S, NEW s \in Seq(S), NEW T, NEW i \in Nat
  PROVE  /\ \A k \in DOMAIN s : k > i /\ s[k].type \in T => Later(s, T, i) > 0
         /\ Later(<<>>, T, i) = 0
         /\ Later(s, T, Len(s)) = 0
<1>1. \A k \in DOMAIN s : k > i /\ s[k].type \in T => Later(s, T, i) > 0
  <2> SUFFICES ASSUME NEW k \in DOMAIN s, k > i, s[k].type \in T PROVE Later(s, T, i) > 0
    OBVIOUS
  <2> DEFINE D == {m \in DOMAIN s : m > i /\ s[m].type \in T}
  <2>1. IsFiniteSet(D) /\ Cardinality(D) \in Nat
    BY LaterFinite DEF Later
  <2>2. D # {}
    OBVIOUS
  <2> HIDE DEF D
  <2>3. Cardinality(D) # 0
    BY <2>1, <2>2, FS_EmptySet
  <2>4. Later(s, T, i) = Cardinality(D)
    BY DEF Later, D
  <2> QED BY <2>1, <2>3, <2>4
<1>2. {k \in DOMAIN <<>> : k > i /\ <<>>[k].type \in T} = {}
  OBVIOUS
<1>3. {k \in DOMAIN s : k > Len(s) /\ s[k].type \in T} = {}
  BY Elements
<1>4. Cardinality({}) = 0
  BY FS_EmptySet
<1> QED BY <1>1, <1>2, <1>3, <1>4 DEF Later

LEMMA Counted == ASSUME NEW S PROVE View!Cardinality(S) = Cardinality(S)
BY DEF View!Cardinality, Cardinality

Gates == {"required", "resolved"}
LEMMA Counts ==
  ASSUME NEW S, NEW s \in Seq(S)
  PROVE  View!IdlesIn(s) = Later(s, {"idle"}, 0) /\ View!GatesIn(s) = Later(s, Gates, 0)
<1>1. \A i \in DOMAIN s : i > 0
  BY Elements
<1>2. {i \in DOMAIN s : s[i].type = "idle"} = {k \in DOMAIN s : k > 0 /\ s[k].type \in {"idle"}}
  BY <1>1
<1>3. {i \in DOMAIN s : s[i].type \in {"required", "resolved"}} = {k \in DOMAIN s : k > 0 /\ s[k].type \in Gates}
  BY <1>1 DEF Gates
<1> QED BY <1>2, <1>3, Counted DEF View!IdlesIn, View!GatesIn, Later

(* A sequence that lost one element holds the others, in the same order.       *)
LEMMA RemovedAt ==
  ASSUME NEW S, NEW s \in Seq(S), NEW n \in DOMAIN s
  PROVE  /\ View!RemoveAt(s, n) \in Seq(S)
         /\ \A i \in DOMAIN View!RemoveAt(s, n) : \E j \in DOMAIN s : j # n /\ View!RemoveAt(s, n)[i] = s[j]
         /\ \A j \in DOMAIN s : j # n => \E i \in DOMAIN View!RemoveAt(s, n) : View!RemoveAt(s, n)[i] = s[j]
<1> DEFINE a == SubSeq(s, 1, n - 1)
           b == SubSeq(s, n + 1, Len(s))
           c == a \o b
<1>1. DOMAIN s = 1..Len(s) /\ Len(s) \in Nat /\ n \in 1..Len(s) /\ \A i \in 1..Len(s) : s[i] \in S
  BY Elements
<1>2. a \in Seq(S) /\ Len(a) = n - 1 /\ \A i \in 1..n - 1 : a[i] = s[i]
  <2>1. \A i \in 1..n - 1 : s[i] \in S
    BY <1>1
  <2>2. 1 \in Int /\ n - 1 \in Int
    BY <1>1
  <2> HIDE DEF a
  <2>3. /\ a \in Seq(S)
        /\ Len(a) = IF 1 <= n - 1 THEN n - 1 - 1 + 1 ELSE 0
        /\ \A i \in 1..(n - 1 - 1 + 1) : a[i] = s[1 + i - 1]
    BY <2>1, <2>2, SubSeqProperties DEF a
  <2> QED BY <1>1, <2>3
<1>3. b \in Seq(S) /\ Len(b) = Len(s) - n /\ \A i \in 1..Len(s) - n : b[i] = s[n + i]
  <2>1. \A i \in n + 1..Len(s) : s[i] \in S
    BY <1>1
  <2>2. n + 1 \in Int /\ Len(s) \in Int
    BY <1>1
  <2> HIDE DEF b
  <2>3. /\ b \in Seq(S)
        /\ Len(b) = IF n + 1 <= Len(s) THEN Len(s) - (n + 1) + 1 ELSE 0
        /\ \A i \in 1..(Len(s) - (n + 1) + 1) : b[i] = s[n + 1 + i - 1]
    BY <2>1, <2>2, SubSeqProperties DEF b
  <2>4. Len(b) = Len(s) - n /\ 1..(Len(s) - (n + 1) + 1) = 1..Len(s) - n
    BY <1>1, <2>3
  <2>5. \A i \in 1..Len(s) - n : n + 1 + i - 1 = n + i
    BY <1>1
  <2> QED BY <2>3, <2>4, <2>5
<1> HIDE DEF a, b, c
<1>4. /\ c \in Seq(S) /\ Len(c) = Len(a) + Len(b)
      /\ \A i \in 1..Len(a) + Len(b) : c[i] = IF i <= Len(a) THEN a[i] ELSE b[i - Len(a)]
  BY <1>2, <1>3, ConcatProperties DEF c
<1>5. Len(c) = Len(s) - 1 /\ DOMAIN c = 1..Len(s) - 1
  BY <1>1, <1>2, <1>3, <1>4, Elements
<1>6. \A i \in 1..Len(s) - 1 : c[i] = IF i < n THEN s[i] ELSE s[i + 1]
  <2> TAKE i \in 1..Len(s) - 1
  <2>1. CASE i < n
    <3>1. i \in 1..n - 1 /\ i \in 1..Len(a) + Len(b) /\ i <= Len(a)
      BY <1>1, <1>2, <1>3, <2>1
    <3> QED BY <1>2, <1>4, <2>1, <3>1
  <2>2. CASE ~(i < n)
    <3>1. i - Len(a) \in 1..Len(s) - n /\ i \in 1..Len(a) + Len(b) /\ ~(i <= Len(a)) /\ n + (i - Len(a)) = i + 1
      BY <1>1, <1>2, <1>3, <2>2
    <3>2. c[i] = b[i - Len(a)]
      BY <1>4, <3>1
    <3>3. b[i - Len(a)] = s[n + (i - Len(a))]
      BY <1>3, <3>1
    <3> QED BY <2>2, <3>1, <3>2, <3>3
  <2> QED BY <2>1, <2>2
<1>7. \A i \in DOMAIN c : \E j \in DOMAIN s : j # n /\ c[i] = s[j]
  <2> TAKE i \in DOMAIN c
  <2>1. CASE i < n
    BY <1>1, <1>5, <1>6, <2>1
  <2>2. CASE ~(i < n)
    <3>1. i + 1 \in DOMAIN s /\ i + 1 # n /\ c[i] = s[i + 1]
      BY <1>1, <1>5, <1>6, <2>2
    <3> QED BY <3>1
  <2> QED BY <2>1, <2>2
<1>8. \A j \in DOMAIN s : j # n => \E i \in DOMAIN c : c[i] = s[j]
  <2> SUFFICES ASSUME NEW j \in DOMAIN s, j # n PROVE \E i \in DOMAIN c : c[i] = s[j]
    OBVIOUS
  <2>1. CASE j < n
    BY <1>1, <1>5, <1>6, <2>1
  <2>2. CASE ~(j < n)
    <3>1. j - 1 \in DOMAIN c /\ c[j - 1] = s[j]
      BY <1>1, <1>5, <1>6, <2>2
    <3> QED BY <3>1
  <2> QED BY <2>1, <2>2
<1>9. View!RemoveAt(s, n) = c
  BY DEF View!RemoveAt, a, b, c
<1> QED BY <1>4, <1>7, <1>8, <1>9

(* The elements of a sequence, and which of them come later than some event.   *)
In(s) == {s[i] : i \in DOMAIN s}
IsSeq(s) == s \in Seq(In(s))

LEMMA SeqOfIts == ASSUME NEW S, NEW s \in Seq(S) PROVE IsSeq(s)
<1>1. DOMAIN s = 1..Len(s) /\ Len(s) \in Nat
  BY Elements
<1>2. s = [i \in 1..Len(s) |-> s[i]]
  <2>1. PICK n \in Nat : s \in [1..n -> S]
    BY SeqDef
  <2> QED BY <1>1, <2>1
<1>3. s \in [1..Len(s) -> In(s)]
  BY <1>1, <1>2 DEF In
<1> QED BY <1>1, <1>3, SeqDef DEF IsSeq

LEMMA InAppended ==
  ASSUME NEW s, IsSeq(s), NEW e
  PROVE  IsSeq(Append(s, e)) /\ In(Append(s, e)) = In(s) \cup {e}
<1> PICK S : S = In(s) \cup {e}
  OBVIOUS
<1>1. s \in Seq(S) /\ e \in S
  BY SeqMonotonic DEF IsSeq
<1>2. /\ Append(s, e) \in Seq(S) /\ DOMAIN s = 1..Len(s) /\ Len(s) \in Nat
      /\ DOMAIN Append(s, e) = 1..Len(s) + 1 /\ Append(s, e)[Len(s) + 1] = e
      /\ \A i \in 1..Len(s) : Append(s, e)[i] = s[i]
  BY <1>1, AppendProperties, Elements
<1>3. In(Append(s, e)) \subseteq In(s) \cup {e}
  <2> SUFFICES ASSUME NEW i \in 1..Len(s) + 1 PROVE Append(s, e)[i] \in In(s) \cup {e}
    BY <1>2 DEF In
  <2>1. CASE i = Len(s) + 1
    BY <1>2, <2>1
  <2>2. CASE i \in 1..Len(s)
    BY <1>2, <2>2 DEF In
  <2> QED BY <1>2, <2>1, <2>2
<1>4. In(s) \cup {e} \subseteq In(Append(s, e))
  <2>1. Len(s) + 1 \in DOMAIN Append(s, e) /\ 1..Len(s) \subseteq DOMAIN Append(s, e)
    BY <1>2
  <2> QED BY <1>2, <2>1 DEF In
<1> QED BY <1>2, <1>3, <1>4, SeqOfIts

LEMMA InTaken ==
  ASSUME NEW s, IsSeq(s), s # <<>>
  PROVE  IsSeq(Tail(s)) /\ In(s) = In(Tail(s)) \cup {Head(s)}
<1> PICK S : S = In(s)
  OBVIOUS
<1>1. s \in Seq(S) /\ Len(s) \in Nat \ {0}
  BY EmptySeq DEF IsSeq
<1>2. /\ Tail(s) \in Seq(S) /\ Head(s) = s[1] /\ DOMAIN s = 1..Len(s) /\ DOMAIN Tail(s) = 1..Len(s) - 1
      /\ \A i \in 1..Len(s) - 1 : Tail(s)[i] = s[i + 1]
  BY <1>1, HeadTailProperties, Elements
<1>3. In(Tail(s)) \cup {Head(s)} \subseteq In(s)
  <2>1. 1 \in DOMAIN s /\ \A i \in 1..Len(s) - 1 : i + 1 \in DOMAIN s
    BY <1>1, <1>2
  <2> QED BY <1>2, <2>1 DEF In
<1>4. In(s) \subseteq In(Tail(s)) \cup {Head(s)}
  <2> SUFFICES ASSUME NEW i \in 1..Len(s) PROVE s[i] = Head(s) \/ \E k \in DOMAIN Tail(s) : s[i] = Tail(s)[k]
    BY <1>2 DEF In
  <2>1. CASE i = 1
    BY <1>2, <2>1
  <2>2. CASE i # 1
    <3>1. i - 1 \in 1..Len(s) - 1 /\ (i - 1) + 1 = i
      BY <1>1, <2>2
    <3>2. Tail(s)[i - 1] = s[i]
      BY <1>2, <3>1
    <3> QED BY <1>2, <3>1, <3>2
  <2> QED BY <2>1, <2>2
<1> QED BY <1>2, <1>3, <1>4, SeqOfIts

LEMMA InRemoved ==
  ASSUME NEW s, IsSeq(s), NEW n \in DOMAIN s
  PROVE  /\ IsSeq(View!RemoveAt(s, n))
         /\ In(View!RemoveAt(s, n)) \subseteq In(s) /\ In(s) \subseteq In(View!RemoveAt(s, n)) \cup {s[n]}
<1> PICK S : S = In(s)
  OBVIOUS
<1>1. s \in Seq(S)
  BY DEF IsSeq
<1> PICK r : r = View!RemoveAt(s, n)
  OBVIOUS
<1>2. /\ r \in Seq(S)
      /\ \A i \in DOMAIN r : \E j \in DOMAIN s : r[i] = s[j]
      /\ \A j \in DOMAIN s : j # n => \E i \in DOMAIN r : r[i] = s[j]
  BY <1>1, RemovedAt
<1>3. In(r) \subseteq In(s)
  BY <1>2 DEF In
<1>4. In(s) \subseteq In(r) \cup {s[n]}
  BY <1>2 DEF In
<1> QED BY <1>2, <1>3, <1>4, SeqOfIts

LEMMA InEmpty == IsSeq(<<>>) /\ In(<<>>) = {}
<1>1. <<>> \in Seq({}) /\ DOMAIN <<>> = {}
  OBVIOUS
<1> QED BY <1>1, SeqOfIts DEF In

LEMMA InConcat ==
  ASSUME NEW s, IsSeq(s), NEW t, IsSeq(t)
  PROVE  IsSeq(s \o t) /\ In(s \o t) = In(s) \cup In(t)
<1> PICK S : S = In(s) \cup In(t)
  OBVIOUS
<1>1. s \in Seq(S) /\ t \in Seq(S)
  BY SeqMonotonic DEF IsSeq
<1>2. /\ s \o t \in Seq(S) /\ Len(s \o t) = Len(s) + Len(t) /\ Len(s) \in Nat /\ Len(t) \in Nat
      /\ DOMAIN s = 1..Len(s) /\ DOMAIN t = 1..Len(t) /\ DOMAIN (s \o t) = 1..Len(s) + Len(t)
      /\ \A i \in 1..Len(s) + Len(t) : (s \o t)[i] = IF i <= Len(s) THEN s[i] ELSE t[i - Len(s)]
  BY <1>1, ConcatProperties, Elements
<1> PICK c : c = s \o t
  OBVIOUS
<1>3. In(c) \subseteq In(s) \cup In(t)
  <2> SUFFICES ASSUME NEW i \in 1..Len(s) + Len(t) PROVE c[i] \in In(s) \cup In(t)
    BY <1>2 DEF In
  <2>1. CASE i <= Len(s)
    BY <1>2, <2>1 DEF In
  <2>2. CASE ~(i <= Len(s))
    <3>1. i - Len(s) \in DOMAIN t /\ c[i] = t[i - Len(s)]
      BY <1>2, <2>2
    <3> QED BY <3>1 DEF In
  <2> QED BY <2>1, <2>2
<1>4. In(s) \subseteq In(c)
  BY <1>2 DEF In
<1>5. In(t) \subseteq In(c)
  <2>1. ASSUME NEW i \in DOMAIN t PROVE \E k \in DOMAIN c : t[i] = c[k]
    <3>1. Len(s) + i \in DOMAIN c /\ ~(Len(s) + i <= Len(s)) /\ Len(s) + i - Len(s) = i
      BY <1>2
    <3>2. c[Len(s) + i] = t[Len(s) + i - Len(s)]
      BY <1>2, <3>1
    <3> QED BY <3>1, <3>2
  <2> QED BY <2>1 DEF In
<1> QED BY <1>2, <1>3, <1>4, <1>5, SeqOfIts

(* Those of n numbered events that are on their way, the last ones, with a     *)
(* number above g.                                                             *)
Above(s, n, g, k) == n - Later(s, Gates, k) > g
Coming(s, n, g) == {e \in In(s) : \E k \in DOMAIN s : e = s[k] /\ Above(s, n, g, k)}

LEMMA ComingIn ==
  ASSUME NEW s, NEW n, NEW g, NEW x
  PROVE  x \in Coming(s, n, g) <=> \E k \in DOMAIN s : x = s[k] /\ Above(s, n, g, k)
BY DEF Coming, In

LEMMA ComingAppended ==
  ASSUME NEW s, IsSeq(s), NEW e, NEW n \in Nat, NEW g \in Int
  PROVE  /\ Coming(s, n, g) \subseteq Coming(Append(s, e), n + (IF e.type \in Gates THEN 1 ELSE 0), g)
         /\ e.type \in Gates /\ g <= n => e \in Coming(Append(s, e), n + 1, g)
<1> PICK t : t = Append(s, e)
  OBVIOUS
<1> PICK m : m = IF e.type \in Gates THEN 1 ELSE 0
  OBVIOUS
<1> PICK S : S = In(s) \cup {e}
  OBVIOUS
<1>1. s \in Seq(S) /\ e \in S
  BY SeqMonotonic DEF IsSeq
<1>2. /\ t \in Seq(S) /\ DOMAIN s = 1..Len(s) /\ Len(s) \in Nat
      /\ DOMAIN t = 1..Len(s) + 1 /\ t[Len(s) + 1] = e /\ Len(t) = Len(s) + 1
      /\ \A i \in 1..Len(s) : t[i] = s[i]
  BY <1>1, AppendProperties, Elements
<1>3. ASSUME NEW i \in DOMAIN s PROVE Later(t, Gates, i) = Later(s, Gates, i) + m /\ Later(s, Gates, i) \in Nat
  <2>1. i \in 0..Len(s) /\ i \in Nat
    BY <1>2
  <2>2. Later(s, Gates, i) \in Nat
    BY <1>1, <2>1, LaterFinite
  <2>3. Later(Append(s, e), Gates, i) = Later(s, Gates, i) + (IF e.type \in Gates THEN 1 ELSE 0)
    BY <1>1, <2>1, LaterAppended
  <2> QED BY <2>2, <2>3
<1>4. Later(t, Gates, Len(s) + 1) = 0
  <2>1. Len(s) + 1 \in Nat
    BY <1>2
  <2> QED BY <1>2, <2>1, LaterSome
<1>7. m \in Nat
  OBVIOUS
<1>5. Coming(s, n, g) \subseteq Coming(t, n + m, g)
  <2>1. \A i \in DOMAIN s : Above(s, n, g, i) => Above(t, n + m, g, i)
    BY <1>3, <1>7 DEF Above
  <2>2. \A i \in DOMAIN s : i \in DOMAIN t /\ t[i] = s[i]
    BY <1>2
  <2> SUFFICES ASSUME NEW x \in Coming(s, n, g) PROVE x \in Coming(t, n + m, g)
    OBVIOUS
  <2>3. PICK k \in DOMAIN s : x = s[k] /\ Above(s, n, g, k)
    BY ComingIn
  <2>4. k \in DOMAIN t /\ x = t[k] /\ Above(t, n + m, g, k)
    BY <2>1, <2>2, <2>3
  <2> QED BY <2>4, ComingIn
<1>6. e.type \in Gates /\ g <= n => e \in Coming(t, n + 1, g)
  <2>1. g <= n => Above(t, n + 1, g, Len(s) + 1)
    BY <1>4 DEF Above
  <2>2. Len(s) + 1 \in DOMAIN t
    BY <1>2
  <2>3. t[Len(s) + 1] = e
    BY <1>2
  <2>4. \A i \in DOMAIN t : Above(t, n + 1, g, i) => t[i] \in Coming(t, n + 1, g)
    BY ComingIn
  <2> QED BY <2>1, <2>2, <2>3, <2>4
<1> QED BY <1>5, <1>6

LEMMA ComingTaken ==
  ASSUME NEW s, IsSeq(s), s # <<>>, NEW n \in Nat, NEW g \in Int, g >= n - Later(Tail(s), Gates, 0)
  PROVE  Coming(s, n, g) \subseteq Coming(Tail(s), n, g)
<1> PICK S : S = In(s)
  OBVIOUS
<1>1. s \in Seq(S) /\ Len(s) \in Nat \ {0}
  BY EmptySeq DEF IsSeq
<1>2. /\ DOMAIN s = 1..Len(s) /\ DOMAIN Tail(s) = 1..Len(s) - 1
      /\ \A i \in 1..Len(s) - 1 : Tail(s)[i] = s[i + 1]
  BY <1>1, HeadTailProperties, Elements
<1>3. Later(Tail(s), Gates, 0) = Later(s, Gates, 1) /\ Later(s, Gates, 1) \in Nat
  BY <1>1, LaterHead, LaterFinite
<1>4. ASSUME NEW i \in DOMAIN s, Above(s, n, g, i)
      PROVE  \E k \in DOMAIN Tail(s) : s[i] = Tail(s)[k] /\ Above(Tail(s), n, g, k)
  <2>1. i # 1
    BY <1>3, <1>4 DEF Above
  <2>2. i - 1 \in 1..Len(s) - 1 /\ i - 1 \in Nat /\ (i - 1) + 1 = i
    BY <1>1, <1>2, <2>1
  <2>3. Tail(s)[i - 1] = s[i] /\ Later(Tail(s), Gates, i - 1) = Later(s, Gates, i)
    BY <1>1, <1>2, <2>2, LaterTaken
  <2>4. Above(Tail(s), n, g, i - 1)
    BY <1>4, <2>3 DEF Above
  <2> QED BY <1>2, <2>2, <2>3, <2>4
<1> SUFFICES ASSUME NEW x \in Coming(s, n, g) PROVE x \in Coming(Tail(s), n, g)
  OBVIOUS
<1>5. PICK i \in DOMAIN s : x = s[i] /\ Above(s, n, g, i)
  BY ComingIn
<1>6. PICK k \in DOMAIN Tail(s) : x = Tail(s)[k] /\ Above(Tail(s), n, g, k)
  BY <1>4, <1>5
<1> QED BY <1>6, ComingIn

(* The order of the events: what follows what.                                 *)
Required(q) == [type |-> "required", q |-> q]
Resolved(q) == [type |-> "resolved", q |-> q]
IdleFollows(s) ==
  \A i \in DOMAIN s : s[i].type \notin {"idle"} \cup Gates => Later(s, {"idle"}, i) > 0
ResolvedFollows(s, q) ==
  \A i \in DOMAIN s : s[i] = Required(q) => \E j \in DOMAIN s : j > i /\ s[j] = Resolved(q)

LEMMA IdleFollowsOn ==
  ASSUME NEW s, IsSeq(s)
  PROVE  /\ \A e : IdleFollows(s) /\ e.type \in Gates => IdleFollows(Append(s, e))
         /\ \A e : e.type = "idle" => IdleFollows(Append(s, e))
         /\ IdleFollows(s) /\ s # <<>> => IdleFollows(Tail(s))
         /\ IdleFollows(<<>>)
         /\ IdleFollows(s) => \A x \in In(s) : x.type \notin {"idle"} \cup Gates => Later(s, {"idle"}, 0) > 0
<1>1. ASSUME NEW e, e.type = "idle" \/ (IdleFollows(s) /\ e.type \in Gates) PROVE IdleFollows(Append(s, e))
  <2> PICK S : S = In(s) \cup {e}
    OBVIOUS
  <2> PICK t : t = Append(s, e)
    OBVIOUS
  <2>1. s \in Seq(S) /\ e \in S
    BY SeqMonotonic DEF IsSeq
  <2>2. /\ t \in Seq(S) /\ DOMAIN s = 1..Len(s) /\ Len(s) \in Nat
        /\ DOMAIN t = 1..Len(s) + 1 /\ t[Len(s) + 1] = e
        /\ \A i \in 1..Len(s) : t[i] = s[i]
    BY <2>1, AppendProperties, Elements
  <2>3. \A i \in 1..Len(s) : /\ Later(t, {"idle"}, i) = Later(s, {"idle"}, i) + (IF e.type \in {"idle"} THEN 1 ELSE 0)
                             /\ Later(s, {"idle"}, i) \in Nat
    <3> TAKE i \in 1..Len(s)
    <3>1. i \in 0..Len(s) /\ i \in Nat
      BY <2>2
    <3>2. Later(s, {"idle"}, i) \in Nat
      BY <2>1, <3>1, LaterFinite
    <3>3. Later(Append(s, e), {"idle"}, i) = Later(s, {"idle"}, i) + (IF e.type \in {"idle"} THEN 1 ELSE 0)
      BY <2>1, <3>1, LaterAppended
    <3> QED BY <3>2, <3>3
  <2>4. SUFFICES ASSUME NEW i \in DOMAIN t, t[i].type \notin {"idle"} \cup Gates PROVE Later(t, {"idle"}, i) > 0
    BY DEF IdleFollows
  <2>5. i \in 1..Len(s) /\ s[i] = t[i]
    BY <1>1, <2>2, <2>4 DEF Gates
  <2>6. CASE e.type = "idle"
    BY <2>3, <2>5, <2>6
  <2>7. CASE IdleFollows(s) /\ e.type \in Gates
    <3>1. Later(s, {"idle"}, i) > 0 /\ e.type \notin {"idle"}
      BY <2>2, <2>4, <2>5, <2>7 DEF IdleFollows, Gates
    <3> QED BY <2>3, <2>5, <3>1
  <2> QED BY <1>1, <2>6, <2>7
<1>2. ASSUME IdleFollows(s), s # <<>> PROVE IdleFollows(Tail(s))
  <2> PICK S : S = In(s)
    OBVIOUS
  <2>1. s \in Seq(S)
    BY DEF IsSeq
  <2>2. \A i \in DOMAIN Tail(s) : i \in Nat /\ i + 1 \in DOMAIN s /\ Tail(s)[i] = s[i + 1]
    BY <1>2, <2>1, Taken
  <2>3. \A i \in DOMAIN Tail(s) : Later(Tail(s), {"idle"}, i) = Later(s, {"idle"}, i + 1)
    BY <1>2, <2>1, <2>2, LaterTaken
  <2> QED BY <1>2, <2>2, <2>3 DEF IdleFollows
<1>3. IdleFollows(<<>>)
  BY DEF IdleFollows
<1>4. ASSUME IdleFollows(s), NEW x \in In(s), x.type \notin {"idle"} \cup Gates PROVE Later(s, {"idle"}, 0) > 0
  <2> PICK S : S = In(s)
    OBVIOUS
  <2>1. s \in Seq(S)
    BY DEF IsSeq
  <2>2. PICK i \in DOMAIN s : x = s[i]
    BY DEF In
  <2>3. Later(s, {"idle"}, i) > 0 /\ i \in Nat
    BY <1>4, <2>1, <2>2, Elements DEF IdleFollows
  <2>4. \E k \in DOMAIN s : k > i /\ s[k].type \in {"idle"}
    <3>1. CASE {k \in DOMAIN s : k > i /\ s[k].type \in {"idle"}} = {}
      BY <2>3, <3>1, FS_EmptySet DEF Later
    <3> QED BY <3>1
  <2> QED BY <2>1, <2>3, <2>4, LaterSome
<1>5. \A e : IdleFollows(s) /\ e.type \in Gates => IdleFollows(Append(s, e))
  BY <1>1
<1>6. \A e : e.type = "idle" => IdleFollows(Append(s, e))
  <2> SUFFICES ASSUME NEW e, e.type = "idle" PROVE IdleFollows(Append(s, e))
    OBVIOUS
  <2> QED BY <1>1
<1>7. IdleFollows(s) => \A x \in In(s) : x.type \notin {"idle"} \cup Gates => Later(s, {"idle"}, 0) > 0
  BY <1>4
<1> QED BY <1>2, <1>3, <1>5, <1>6, <1>7

LEMMA ResolvedFollowsOn ==
  ASSUME NEW s, IsSeq(s), NEW q
  PROVE  /\ \A e : e # Required(q) /\ ResolvedFollows(s, q) => ResolvedFollows(Append(s, e), q)
         /\ ResolvedFollows(Append(s, Resolved(q)), q)
         /\ ResolvedFollows(s, q) /\ s # <<>> =>
              ResolvedFollows(Tail(s), q) /\ (Head(s) = Required(q) => Resolved(q) \in In(Tail(s)))
         /\ ResolvedFollows(<<>>, q)
         /\ Required(q) \notin In(s) => ResolvedFollows(s, q)
<1>1. ASSUME NEW e, e # Required(q), ResolvedFollows(s, q) \/ e = Resolved(q) PROVE ResolvedFollows(Append(s, e), q)
  <2> PICK S : S = In(s) \cup {e}
    OBVIOUS
  <2> PICK t : t = Append(s, e)
    OBVIOUS
  <2>1. s \in Seq(S) /\ e \in S
    BY SeqMonotonic DEF IsSeq
  <2>2. /\ t \in Seq(S) /\ DOMAIN s = 1..Len(s) /\ Len(s) \in Nat
        /\ DOMAIN t = 1..Len(s) + 1 /\ t[Len(s) + 1] = e
        /\ \A i \in 1..Len(s) : t[i] = s[i]
    BY <2>1, AppendProperties, Elements
  <2>3. SUFFICES ASSUME NEW i \in DOMAIN t, t[i] = Required(q) PROVE \E j \in DOMAIN t : j > i /\ t[j] = Resolved(q)
    BY DEF ResolvedFollows
  <2>4. i \in 1..Len(s) /\ s[i] = Required(q)
    BY <1>1, <2>2, <2>3
  <2>5. CASE e = Resolved(q)
    <3>1. Len(s) + 1 > i /\ Len(s) + 1 \in DOMAIN t
      BY <2>2, <2>4
    <3> QED BY <2>2, <2>5, <3>1
  <2>6. CASE ResolvedFollows(s, q)
    <3>1. PICK j \in DOMAIN s : j > i /\ s[j] = Resolved(q)
      BY <2>2, <2>4, <2>6 DEF ResolvedFollows
    <3>2. j \in DOMAIN t /\ t[j] = Resolved(q)
      BY <2>2, <3>1
    <3> QED BY <3>1, <3>2
  <2> QED BY <1>1, <2>5, <2>6
<1>2. ASSUME ResolvedFollows(s, q), s # <<>>
      PROVE  ResolvedFollows(Tail(s), q) /\ (Head(s) = Required(q) => Resolved(q) \in In(Tail(s)))
  <2> PICK S : S = In(s)
    OBVIOUS
  <2>1. s \in Seq(S) /\ Len(s) \in Nat \ {0}
    BY <1>2, EmptySeq DEF IsSeq
  <2>2. /\ Tail(s) \in Seq(S) /\ Head(s) = s[1] /\ DOMAIN s = 1..Len(s) /\ DOMAIN Tail(s) = 1..Len(s) - 1
        /\ \A i \in 1..Len(s) - 1 : Tail(s)[i] = s[i + 1]
    BY <2>1, HeadTailProperties, Elements
  <2>3. ASSUME NEW i \in DOMAIN s, s[i] = Required(q)
        PROVE  \E j \in DOMAIN Tail(s) : j > i - 1 /\ Tail(s)[j] = Resolved(q)
    <3>1. PICK j \in DOMAIN s : j > i /\ s[j] = Resolved(q)
      BY <1>2, <2>3 DEF ResolvedFollows
    <3>2. j - 1 \in 1..Len(s) - 1 /\ j - 1 > i - 1 /\ (j - 1) + 1 = j
      BY <2>1, <2>2, <3>1
    <3>3. Tail(s)[j - 1] = Resolved(q)
      BY <2>2, <3>1, <3>2
    <3> QED BY <2>2, <3>2, <3>3
  <2>4. ResolvedFollows(Tail(s), q)
    <3> SUFFICES ASSUME NEW i \in DOMAIN Tail(s), Tail(s)[i] = Required(q)
                 PROVE  \E j \in DOMAIN Tail(s) : j > i /\ Tail(s)[j] = Resolved(q)
      BY DEF ResolvedFollows
    <3>1. i + 1 \in DOMAIN s /\ s[i + 1] = Required(q) /\ (i + 1) - 1 = i
      BY <2>1, <2>2
    <3> QED BY <2>3, <3>1
  <2>5. Head(s) = Required(q) => Resolved(q) \in In(Tail(s))
    <3> SUFFICES ASSUME Head(s) = Required(q) PROVE Resolved(q) \in In(Tail(s))
      OBVIOUS
    <3>1. 1 \in DOMAIN s /\ s[1] = Required(q)
      BY <2>1, <2>2
    <3>2. PICK j \in DOMAIN Tail(s) : Tail(s)[j] = Resolved(q)
      BY <2>3, <3>1
    <3> QED BY <3>2 DEF In
  <2> QED BY <2>4, <2>5
<1>3. ResolvedFollows(<<>>, q)
  BY DEF ResolvedFollows
<1>4. Required(q) \notin In(s) => ResolvedFollows(s, q)
  BY DEF ResolvedFollows, In
<1>5. Resolved(q) # Required(q)
  BY DEF Resolved, Required
<1> QED BY <1>1, <1>2, <1>3, <1>4, <1>5

-----------------------------------------------------------------------------
(* The invariant of the page.                                                  *)
MessageTyped(m) == m \in [role : {"user", "assistant"}, done : BOOLEAN, parts : {m.parts}]
RowsTyped ==
  /\ IsSeq(rows) /\ Len(rows) % 2 = 0
  /\ \A i \in DOMAIN rows : /\ MessageTyped(rows[i])
                            /\ rows[i].role = (IF i % 2 = 1 THEN "user" ELSE "assistant")

EventTyped(e) == e.type \in Gates => \E q \in Questions : e = Required(q) \/ e = Resolved(q)
ReplyTyped(r) ==
  /\ r.kind \in {"parts", "sessions", "sent", "answered"}
  /\ r.kind = "answered" => r.q \in Questions
  /\ r.kind # "answered" => r.idles \in Int
  /\ r.kind = "parts" => r.gates \in Nat /\ r.pending \subseteq Questions
  /\ r.kind \in {"sessions", "sent"} => r.busy \in BOOLEAN /\ r.unread \in BOOLEAN

PageTypes ==
  /\ idles \in Nat /\ gates \in Nat /\ pageSeen \in Nat /\ told \in Nat
  /\ joined \in BOOLEAN /\ busy \in BOOLEAN /\ news \in BOOLEAN /\ viewing \in BOOLEAN
  /\ unread \in BOOLEAN /\ behind \in BOOLEAN /\ late \in BOOLEAN
  /\ asks \in [Questions -> {"none", "pending", "answered", "early"}]
  /\ run \in {"none", "loop", "done", "over"} /\ pageStatus \in {"none", "busy", "idle"}
  /\ asked \subseteq Questions
  /\ IsSeq(events) /\ IsSeq(gets) /\ IsSeq(replies)
  /\ \A e \in In(events) \cup {owed} : EventTyped(e)
  /\ \A r \in In(replies) : ReplyTyped(r)

(* What the page has applied and what is still on its way make up what has been *)
(* emitted. A page that is subscribed and not open was never opened.            *)
Untouched ==
  /\ events = <<>> /\ gets = <<>> /\ replies = <<>> /\ run = "none" /\ pageStatus = "none" /\ asked = {}
  /\ owed = View!Nothing /\ idles = 0 /\ pageSeen = 0 /\ gates = 0 /\ told = 0
  /\ behind = FALSE /\ unread = FALSE /\ late = FALSE
  /\ \A q \in Questions : asks[q] = "none"
Numbers ==
  /\ Later(events, {"idle"}, 0) <= idles /\ Later(events, Gates, 0) <= gates
  /\ pageSeen <= idles /\ told <= gates
  /\ viewing => /\ joined /\ pageSeen = idles - Later(events, {"idle"}, 0)
                /\ told = gates - Later(events, Gates, 0)
  /\ ~viewing /\ joined => Untouched
  /\ ~joined => late

Progress ==
  /\ run \in {"none", "done"} => owed = View!Nothing
  /\ run = "none" => ~busy
  /\ run = "over" => ~busy /\ owed = [type |-> "idle"]
  /\ owed.type = "idle" => run = "over"
  /\ owed.type # "resolved"
  /\ View!Runs = idles + (IF run = "none" THEN 0 ELSE 1)

(* After the last run its "idle" follows all it wrote, so while no "idle" is    *)
(* missing a busy session has a run.                                           *)
Followed ==
  /\ joined /\ run = "none" => IdleFollows(events)
  /\ ~joined /\ ~behind /\ run = "none" /\ (\E e \in In(events) : e.type = "busy") => pageSeen < idles
  /\ pageStatus = "busy" /\ ~behind /\ pageSeen = idles => run # "none"

(* A page that knows of the last "idle" shows what is stored, or has asked for  *)
(* it, or the answer is on its way.                                            *)
Fresh ==
  /\ unread => pageStatus = "idle"
  /\ viewing /\ pageStatus = "none" => "sessions" \in In(gets) \/ \E r \in In(replies) : r.kind = "sessions"
  /\ viewing /\ ~behind /\ pageSeen = idles /\ run = "none" =>
       /\ ~unread /\ pageStatus # "busy"
       /\ \/ "parts" \in In(gets)
          \/ \E r \in In(replies) : r.kind = "parts" /\ r.idles = idles
          \/ shown = View!SettledAll(rows)
Snapped(r) ==
  r.kind # "answered" =>
    /\ r.idles <= idles
    /\ r.kind # "parts" => (r.unread => ~r.busy)
    /\ r.idles = idles /\ run = "none" =>
         /\ r.kind # "sent" /\ (r.kind = "sessions" => ~r.busy) /\ (r.kind = "parts" => r.msgs = rows)

(* The prompts A, with the events W that are yet to come, are those that wait.  *)
Good(A, W) ==
  \A q \in Questions :
    /\ asks[q] = "pending" /\ owed # Required(q) => q \in A \/ Required(q) \in W
    /\ asks[q] = "none" => q \notin A
    /\ asks[q] = "answered" => q \notin A \/ Resolved(q) \in W
Answering ==
  \A q \in Questions :
    /\ owed = Required(q) => asks[q] \in {"pending", "early"}
    /\ asks[q] = "none" => Required(q) \notin In(events) /\ Resolved(q) \notin In(events)
    /\ Resolved(q) \in In(events) => asks[q] \in {"answered", "early"}
    /\ viewing /\ asks[q] = "answered" => ResolvedFollows(events, q)
Promised(r) ==
  /\ r.kind = "answered" => asks[r.q] \in {"answered", "early"}
  /\ r.kind = "parts" =>
       /\ r.gates <= gates
       /\ r.gates = gates => /\ \A q \in r.pending : asks[q] = "pending"
                             /\ \A q \in Questions \ r.pending : asks[q] = "pending" => owed = Required(q)
       /\ viewing /\ r.gates >= told => Good(r.pending, Coming(events, gates, r.gates))
Asking == viewing /\ ~late => Good(asked, In(events))

PageInv ==
  /\ RowsTyped /\ PageTypes /\ Numbers /\ Progress /\ Followed /\ Fresh /\ Answering /\ Asking
  /\ \A r \in In(replies) : Snapped(r) /\ Promised(r)

(* The rows change only in the parts and the end of an answer, or by a prompt   *)
(* and an empty answer.                                                        *)
LEMMA RowsKept ==
  ASSUME RowsTyped, NEW q, q = [i \in DOMAIN rows |-> q[i]],
         \A i \in DOMAIN rows : MessageTyped(q[i]) /\ q[i].role = rows[i].role,
         rows' = q
  PROVE  RowsTyped' /\ View!Runs' = View!Runs
<1>1. DOMAIN rows = 1..Len(rows) /\ Len(rows) \in Nat
  BY Elements DEF RowsTyped, IsSeq
<1>2. q \in Seq({q[i] : i \in 1..Len(rows)}) /\ DOMAIN q = 1..Len(rows)
  BY <1>1, SeqDef
<1>3. IsSeq(q) /\ Len(q) = Len(rows)
  <2> PICK S : S = {q[i] : i \in 1..Len(rows)}
    OBVIOUS
  <2>1. q \in Seq(S) /\ DOMAIN q = 1..Len(q) /\ Len(q) \in Nat
    BY <1>2, Elements
  <2>2. IsSeq(q)
    BY <2>1, SeqOfIts
  <2>3. \A a, b \in Nat : 1..a = 1..b => a = b
    OBVIOUS
  <2> QED BY <1>1, <1>2, <2>1, <2>2, <2>3
<1>4. \A i \in DOMAIN q : MessageTyped(q[i]) /\ q[i].role = (IF i % 2 = 1 THEN "user" ELSE "assistant")
  BY <1>1, <1>2 DEF RowsTyped
<1>5. RowsTyped'
  BY <1>3, <1>4 DEF RowsTyped, MessageTyped
<1>6. {i \in DOMAIN q : q[i].role = "user"} = {i \in DOMAIN rows : rows[i].role = "user"}
  BY <1>1, <1>2
<1> QED BY <1>5, <1>6 DEF View!Runs

LEMMA PartsPut ==
  ASSUME RowsTyped, NEW p, NEW d \in BOOLEAN,
         \/ rows' = [rows EXCEPT ![Len(rows)].parts = p]
         \/ rows' = [rows EXCEPT ![Len(rows)].done = d, ![Len(rows)].parts = p]
  PROVE  RowsTyped' /\ View!Runs' = View!Runs
<1>1. PICK q : q = rows'
  OBVIOUS
<1>2. q = [i \in DOMAIN rows |-> q[i]]
  BY <1>1
<1>3. \A i \in DOMAIN rows : MessageTyped(q[i]) /\ q[i].role = rows[i].role
  <2> TAKE i \in DOMAIN rows
  <2>1. PICK m : m = rows[i]
    OBVIOUS
  <2>2. m \in [role : {"user", "assistant"}, done : BOOLEAN, parts : {m.parts}]
    BY <2>1 DEF RowsTyped, MessageTyped
  <2>3. CASE i # Len(rows)
    <3>1. q[i] = m
      BY <1>1, <2>1, <2>3
    <3> QED BY <2>1, <2>2, <3>1 DEF MessageTyped
  <2>4. CASE i = Len(rows)
    <3>1. q[i] = [m EXCEPT !.parts = p] \/ q[i] = [[m EXCEPT !.done = d] EXCEPT !.parts = p]
      BY <1>1, <2>1, <2>4
    <3>2. q[i].role = m.role /\ q[i] \in [role : {"user", "assistant"}, done : BOOLEAN, parts : {p}] /\ q[i].parts = p
      BY <2>2, <3>1
    <3> QED BY <2>1, <3>2 DEF MessageTyped
  <2> QED BY <2>3, <2>4
<1> QED BY <1>1, <1>2, <1>3, RowsKept

LEMMA PromptStored ==
  ASSUME RowsTyped, rows' = rows \o <<View!Message("user", <<>>), View!Message("assistant", <<>>)>>
  PROVE  RowsTyped' /\ View!Runs' = View!Runs + 1 /\ View!Runs \in Nat
<1>1. PICK u, a : u = View!Message("user", <<>>) /\ a = View!Message("assistant", <<>>)
  OBVIOUS
<1>2. MessageTyped(u) /\ MessageTyped(a) /\ u.role = "user" /\ a.role = "assistant"
  BY <1>1 DEF MessageTyped, View!Message
<1> PICK S : S = In(rows) \cup {u, a}
  OBVIOUS
<1>3. rows \in Seq(S) /\ <<u, a>> \in Seq(S) /\ Len(<<u, a>>) = 2
  <2>1. rows \in Seq(In(rows))
    BY DEF RowsTyped, IsSeq
  <2> QED BY <2>1, SeqMonotonic
<1>4. PICK n \in Nat : n = Len(rows) /\ n % 2 = 0 /\ DOMAIN rows = 1..n
  BY <1>3, Elements DEF RowsTyped
<1>5. PICK q : q = rows'
  OBVIOUS
<1>6. /\ q \in Seq(S) /\ Len(q) = n + 2 /\ DOMAIN q = 1..n + 2
      /\ \A i \in 1..n + 2 : q[i] = IF i <= n THEN rows[i] ELSE <<u, a>>[i - n]
  BY <1>1, <1>3, <1>4, <1>5, ConcatProperties, Elements
<1>7. q[n + 1] = u /\ q[n + 2] = a /\ \A i \in 1..n : q[i] = rows[i]
  <2>1. <<u, a>>[1] = u /\ <<u, a>>[2] = a /\ (n + 1) - n = 1 /\ (n + 2) - n = 2
    BY <1>4
  <2>2. \A i \in 1..n : q[i] = rows[i]
    BY <1>4, <1>6
  <2>3. q[n + 1] = <<u, a>>[(n + 1) - n]
    BY <1>4, <1>6
  <2>4. q[n + 2] = <<u, a>>[(n + 2) - n]
    BY <1>4, <1>6
  <2> QED BY <2>1, <2>2, <2>3, <2>4
<1>8. (n + 2) % 2 = 0 /\ (n + 1) % 2 = 1
  BY <1>4
<1>9. \A i \in DOMAIN q : MessageTyped(q[i]) /\ q[i].role = (IF i % 2 = 1 THEN "user" ELSE "assistant")
  <2> TAKE i \in DOMAIN q
  <2>1. CASE i \in 1..n
    BY <1>4, <1>7, <2>1 DEF RowsTyped
  <2>2. CASE i = n + 1
    BY <1>2, <1>7, <1>8, <2>2
  <2>3. CASE i = n + 2
    BY <1>2, <1>7, <1>8, <2>3
  <2> QED BY <1>4, <1>6, <2>1, <2>2, <2>3
<1>10. RowsTyped'
  BY <1>5, <1>6, <1>8, <1>9, SeqOfIts DEF RowsTyped, MessageTyped
<1>11. PICK D : D = {i \in DOMAIN rows : rows[i].role = "user"}
  OBVIOUS
<1>12. {i \in DOMAIN q : q[i].role = "user"} = D \cup {n + 1}
  BY <1>2, <1>4, <1>6, <1>7, <1>11
<1>13. IsFiniteSet(D) /\ n + 1 \notin D
  <2>1. IsFiniteSet(1..n) /\ D \subseteq 1..n
    BY <1>4, <1>11, FS_Interval
  <2>2. n + 1 \notin 1..n
    BY <1>4
  <2> QED BY <2>1, <2>2, FS_Subset
<1>14. Cardinality(D \cup {n + 1}) = Cardinality(D) + 1 /\ Cardinality(D) \in Nat
  BY <1>13, FS_AddElement, FS_CardinalityType
<1>15. View!Runs = Cardinality(D) /\ View!Runs' = Cardinality(D \cup {n + 1})
  BY <1>5, <1>11, <1>12, Counted DEF View!Runs
<1> QED BY <1>10, <1>14, <1>15

(* Requests to the server that it refuses, or that change nothing here.        *)
LEMMA GetsMoved ==
  ASSUME PageInv, viewing \/ gets # <<>>, news' \in BOOLEAN,
         UNCHANGED <<rows, busy, asks, run, owed, idles, gates, joined, events, replies, shown, pageStatus,
                     asked, viewing, unread, pageSeen, behind, told, late>>,
         IsSeq(gets'), In(gets) \cap {"parts", "sessions"} \subseteq In(gets')
  PROVE  PageInv'
<1>1. RowsTyped' /\ View!Runs' = View!Runs
  BY DEF PageInv, RowsTyped, MessageTyped, View!Runs
<1>2. PageTypes'
  BY DEF PageInv, PageTypes, EventTyped, ReplyTyped
<1>3. Numbers'
  BY DEF PageInv, Numbers, Untouched
<1>4. Progress'
  BY <1>1 DEF PageInv, Progress
<1>5. Followed'
  BY DEF PageInv, Followed
<1>6. Fresh'
  BY DEF PageInv, Fresh
<1>7. Answering' /\ Asking'
  BY DEF PageInv, Answering, Asking, Good
<1>8. \A r \in In(replies) : Snapped(r)' /\ Promised(r)'
  BY DEF PageInv, Snapped, Promised, Good
<1> QED BY <1>1, <1>2, <1>3, <1>4, <1>5, <1>6, <1>7, <1>8 DEF PageInv

LEMMA ViewRequests ==
  ASSUME PageInv, View!ViewAssumption,
         \/ View!TakeRead \/ View!Send \/ \E q \in Questions : View!Answer(q)
         \/ gets # <<>> /\ gets' = Tail(gets) /\ Head(gets) \in Questions \cup {"message"}
            /\ UNCHANGED <<rows, busy, asks, news, run, owed, idles, gates, joined, events, replies>> /\ UNCHANGED View!pageVars
  PROVE  PageInv'
<1>1. IsSeq(gets) /\ news \in BOOLEAN
  BY DEF PageInv, PageTypes
<1>2. UNCHANGED <<rows, busy, asks, run, owed, idles, gates, joined, events, replies, shown, pageStatus,
                  asked, viewing, unread, pageSeen, behind, told, late>>
  BY DEF View!TakeRead, View!Send, View!Answer, View!pageVars, View!serverVars
<1>3. news' \in BOOLEAN
  BY <1>1 DEF View!TakeRead, View!Send, View!Answer, View!serverVars
<1>4. \/ gets # <<>> /\ gets' = Tail(gets) /\ Head(gets) \in Questions \cup {"message", "read"}
      \/ viewing /\ \E x \in Questions \cup {"message"} : gets' = Append(gets, x)
  BY DEF View!TakeRead, View!Send, View!Answer
<1>5. CASE gets # <<>> /\ gets' = Tail(gets) /\ Head(gets) \in Questions \cup {"message", "read"}
  <2>1. IsSeq(gets') /\ In(gets) = In(gets') \cup {Head(gets)}
    BY <1>1, <1>5, InTaken
  <2>2. Head(gets) \notin {"parts", "sessions"}
    BY <1>5 DEF View!ViewAssumption
  <2> QED BY <1>2, <1>3, <1>5, <2>1, <2>2, GetsMoved
<1>6. CASE viewing /\ \E x \in Questions \cup {"message"} : gets' = Append(gets, x)
  <2>1. IsSeq(gets') /\ In(gets) \subseteq In(gets')
    BY <1>1, <1>6, InAppended
  <2> QED BY <1>2, <1>3, <1>6, <2>1, GetsMoved
<1> QED BY <1>4, <1>5, <1>6

(* The server writes, and has yet to tell.                                     *)
LEMMA RowIsWritten ==
  ASSUME PageInv, View!WriteStep PROVE PageInv'
<1>1. PICK p, e :
        /\ rows' = [rows EXCEPT ![Len(rows)].parts = p] /\ owed' = e
        /\ e.type \in {"text", "started", "completed", "finish", "patch"}
        /\ run = "loop" /\ owed = View!Nothing
        /\ UNCHANGED <<busy, asks, news, run, idles, gates, joined, events, gets, replies>> /\ UNCHANGED View!pageVars
  BY DEF View!WriteStep, View!WriteText, View!StartTool, View!EndTool, View!FinishStep, View!WritePatch, View!Writes
<1>2. UNCHANGED <<shown, pageStatus, asked, viewing, unread, pageSeen, behind, told, late>>
  BY <1>1 DEF View!pageVars
<1>3. RowsTyped' /\ View!Runs' = View!Runs
  <2>1. RowsTyped /\ TRUE \in BOOLEAN
    BY DEF PageInv
  <2> QED BY <1>1, <2>1, PartsPut
<1>4. \A q \in Questions : owed # Required(q) /\ owed' # Required(q)
  BY <1>1 DEF View!Nothing, Required
<1>5. PageTypes'
  <2>1. EventTyped(owed)'
    BY <1>1 DEF EventTyped, Gates
  <2> QED BY <1>1, <1>2, <2>1 DEF PageInv, PageTypes, EventTyped, ReplyTyped
<1>6. Numbers'
  BY <1>1, <1>2 DEF PageInv, Numbers, Untouched
<1>7. Progress'
  BY <1>1, <1>3 DEF PageInv, Progress
<1>8. Followed'
  BY <1>1, <1>2 DEF PageInv, Followed
<1>9. Fresh'
  BY <1>1, <1>2 DEF PageInv, Fresh
<1>10. Answering' /\ Asking'
  BY <1>1, <1>2, <1>4 DEF PageInv, Answering, Asking, Good
<1>11. \A r \in In(replies) : Snapped(r)' /\ Promised(r)'
  BY <1>1, <1>2, <1>4 DEF PageInv, Snapped, Promised, Good
<1> QED BY <1>1, <1>3, <1>5, <1>6, <1>7, <1>8, <1>9, <1>10, <1>11 DEF PageInv

LEMMA RequestIsMade ==
  ASSUME PageInv, NEW p \in Questions, View!Ask(p) PROVE PageInv'
<1>1. /\ owed' = Required(p) /\ run = "loop" /\ owed = View!Nothing /\ asks[p] = "none"
      /\ asks' = [asks EXCEPT ![p] = "pending"] /\ \A q \in Questions : asks[q] # "pending"
      /\ UNCHANGED <<rows, busy, news, run, idles, gates, joined, events, gets, replies>> /\ UNCHANGED View!pageVars
  BY DEF View!Ask, View!Required, View!pending, Required
<1>2. UNCHANGED <<shown, pageStatus, asked, viewing, unread, pageSeen, behind, told, late>>
  BY <1>1 DEF View!pageVars
<1>3. RowsTyped' /\ View!Runs' = View!Runs
  BY <1>1 DEF PageInv, RowsTyped, MessageTyped, View!Runs
<1>4. /\ \A q \in Questions : owed # Required(q) /\ (owed' = Required(q) <=> q = p)
      /\ \A q \in Questions : asks'[q] = IF q = p THEN "pending" ELSE asks[q]
  BY <1>1 DEF View!Nothing, Required, PageInv, PageTypes
<1>5. PageTypes'
  <2>1. EventTyped(owed)'
    BY <1>1 DEF EventTyped
  <2>2. asks' \in [Questions -> {"none", "pending", "answered", "early"}]
    BY <1>1 DEF PageInv, PageTypes
  <2> QED BY <1>1, <1>2, <2>1, <2>2 DEF PageInv, PageTypes, EventTyped, ReplyTyped
<1>6. Numbers'
  BY <1>1, <1>2 DEF PageInv, Numbers, Untouched
<1>7. Progress'
  BY <1>1, <1>3 DEF PageInv, Progress, Required
<1>8. Followed'
  BY <1>1, <1>2 DEF PageInv, Followed
<1>9. Fresh'
  BY <1>1, <1>2 DEF PageInv, Fresh
<1>10. \A A, W : Good(A, W) => Good(A, W)'
  BY <1>4 DEF Good
<1>11. Answering'
  BY <1>1, <1>2, <1>4 DEF PageInv, Answering
<1>12. Asking'
  BY <1>1, <1>2, <1>4 DEF PageInv, Asking, Good
<1>13. \A r \in In(replies) : Snapped(r)'
  BY <1>1, <1>2 DEF PageInv, Snapped
<1>14. ASSUME NEW r \in In(replies) PROVE Promised(r)'
  <2>1. Promised(r) /\ ReplyTyped(r)
    BY DEF PageInv, PageTypes
  <2>2. r.kind = "parts" /\ viewing /\ r.gates >= told => Good(r.pending, Coming(events, gates, r.gates))'
    BY <1>1, <1>4, <2>1 DEF Promised, Good
  <2> QED BY <1>1, <1>2, <1>4, <2>1, <2>2 DEF Promised, ReplyTyped
<1> QED BY <1>1, <1>3, <1>5, <1>6, <1>7, <1>8, <1>9, <1>11, <1>12, <1>13, <1>14 DEF PageInv

LEMMA RunIsOver ==
  ASSUME PageInv, View!Complete \/ View!MarkIdle PROVE PageInv'
<1>1. /\ run \in {"loop", "done"} /\ run' \in {"done", "over"} /\ owed.type # "idle"
      /\ \A q \in Questions : owed' = Required(q) <=> owed = Required(q)
      /\ UNCHANGED <<asks, idles, gates, joined, events, gets, replies>> /\ UNCHANGED View!pageVars
  BY DEF View!Complete, View!MarkIdle, View!Nothing, Required, PageInv, Progress
<1>2. UNCHANGED <<shown, pageStatus, asked, viewing, unread, pageSeen, behind, told, late>>
  BY <1>1 DEF View!pageVars
<1>3. RowsTyped' /\ View!Runs' = View!Runs
  <2>1. RowsTyped
    BY DEF PageInv
  <2>2. CASE View!MarkIdle
    BY <2>1, <2>2 DEF View!MarkIdle, RowsTyped, MessageTyped, View!Runs
  <2>3. CASE View!Complete
    <3>1. PICK p : rows' = [rows EXCEPT ![Len(rows)].done = TRUE, ![Len(rows)].parts = p]
      <4> PICK p : p = View!Settled([rows EXCEPT ![Len(rows)].done = TRUE][Len(rows)].parts)
        OBVIOUS
      <4> QED BY <2>3 DEF View!Complete
    <3> QED BY <2>1, <3>1, PartsPut
  <2> QED BY <2>2, <2>3
<1>4. /\ run' = "over" => busy' = FALSE /\ owed' = [type |-> "idle"]
      /\ run' = "done" => owed' = View!Nothing
      /\ busy' \in BOOLEAN /\ news' \in BOOLEAN
  BY DEF View!Complete, View!MarkIdle, PageInv, PageTypes
<1>5. PageTypes'
  <2>1. EventTyped(owed)'
    BY <1>1, <1>4 DEF EventTyped, View!Nothing, Gates
  <2> QED BY <1>1, <1>2, <1>4, <2>1 DEF PageInv, PageTypes, EventTyped, ReplyTyped
<1>6. Numbers'
  BY <1>1, <1>2 DEF PageInv, Numbers, Untouched
<1>7. Progress'
  <2>1. run' # "none" /\ run # "none" /\ (owed'.type = "idle" => run' = "over") /\ owed'.type # "resolved"
    BY <1>1, <1>4 DEF View!Nothing
  <2>2. View!Runs = idles + (IF run = "none" THEN 0 ELSE 1)
    BY DEF PageInv, Progress
  <2>3. View!Runs' = idles' + (IF run' = "none" THEN 0 ELSE 1)
    BY <1>1, <1>3, <2>1, <2>2
  <2> QED BY <1>1, <1>4, <2>1, <2>3 DEF Progress
<1>8. Followed'
  BY <1>1, <1>2 DEF PageInv, Followed
<1>9. Fresh'
  BY <1>1, <1>2 DEF PageInv, Fresh
<1>10. Answering' /\ Asking'
  BY <1>1, <1>2 DEF PageInv, Answering, Asking, Good
<1>11. \A r \in In(replies) : Snapped(r)' /\ Promised(r)'
  BY <1>1, <1>2 DEF PageInv, Snapped, Promised, Good
<1> QED BY <1>1, <1>3, <1>5, <1>6, <1>7, <1>8, <1>9, <1>10, <1>11 DEF PageInv

(* What an event on its way to a subscribed page adds.                         *)
LEMMA Told ==
  ASSUME NEW s, IsSeq(s), NEW e
  PROVE  /\ Later(s, {"idle"}, 0) \in Nat /\ Later(s, Gates, 0) \in Nat
         /\ Later(Append(s, e), {"idle"}, 0) = Later(s, {"idle"}, 0) + (IF e.type = "idle" THEN 1 ELSE 0)
         /\ Later(Append(s, e), Gates, 0) = Later(s, Gates, 0) + (IF e.type \in Gates THEN 1 ELSE 0)
<1> PICK S : S = In(s) \cup {e}
  OBVIOUS
<1>1. s \in Seq(S) /\ e \in S /\ Len(s) \in Nat
  BY SeqMonotonic, Elements DEF IsSeq
<1>2. 0 \in 0..Len(s) /\ 0 \in Nat
  BY <1>1
<1>3. Later(s, {"idle"}, 0) \in Nat /\ Later(s, Gates, 0) \in Nat
  BY <1>1, <1>2, LaterFinite
<1>4. Later(Append(s, e), {"idle"}, 0) = Later(s, {"idle"}, 0) + (IF e.type \in {"idle"} THEN 1 ELSE 0)
  BY <1>1, <1>2, LaterAppended
<1>5. Later(Append(s, e), Gates, 0) = Later(s, Gates, 0) + (IF e.type \in Gates THEN 1 ELSE 0)
  BY <1>1, <1>2, LaterAppended
<1> QED BY <1>3, <1>4, <1>5

LEMMA NumbersOn ==
  ASSUME PageInv, NEW e, View!Tells(e), viewing \/ ~joined,
         idles' = idles + (IF e.type = "idle" THEN 1 ELSE 0),
         gates' = gates + (IF e.type \in Gates THEN 1 ELSE 0),
         EventTyped(e)', UNCHANGED <<pageSeen, told, viewing, joined, late>>
  PROVE  /\ Numbers' /\ IsSeq(events)' /\ \A x \in In(events)' : EventTyped(x)'
         /\ In(events) \subseteq In(events') /\ In(events') \subseteq In(events) \cup {e}
         /\ joined => e \in In(events')
<1>1. IsSeq(events) /\ idles \in Nat /\ gates \in Nat /\ pageSeen \in Nat /\ told \in Nat /\ Numbers
      /\ \A x \in In(events) : EventTyped(x)
  BY DEF PageInv, PageTypes
<1>2. CASE joined
  <2>1. events' = Append(events, e)
    BY <1>2 DEF View!Tells
  <2>2. IsSeq(events') /\ In(events') = In(events) \cup {e}
    BY <1>1, <2>1, InAppended
  <2>3. /\ Later(events, {"idle"}, 0) \in Nat /\ Later(events, Gates, 0) \in Nat
        /\ Later(events', {"idle"}, 0) = Later(events, {"idle"}, 0) + (IF e.type = "idle" THEN 1 ELSE 0)
        /\ Later(events', Gates, 0) = Later(events, Gates, 0) + (IF e.type \in Gates THEN 1 ELSE 0)
    BY <1>1, <2>1, Told
  <2>4. IsSeq(events)' /\ In(events)' = In(events')
    BY <2>2 DEF IsSeq, In
  <2>5. viewing /\ joined' /\ viewing'
    BY <1>2
  <2>6. /\ Later(events, {"idle"}, 0) <= idles /\ Later(events, Gates, 0) <= gates
        /\ pageSeen <= idles /\ told <= gates
        /\ pageSeen = idles - Later(events, {"idle"}, 0) /\ told = gates - Later(events, Gates, 0)
    BY <1>1, <2>5 DEF Numbers
  <2>7. /\ Later(events', {"idle"}, 0) <= idles' /\ pageSeen <= idles'
        /\ pageSeen = idles' - Later(events', {"idle"}, 0)
    BY <1>1, <2>3, <2>6
  <2>8. /\ Later(events', Gates, 0) <= gates' /\ told <= gates'
        /\ told = gates' - Later(events', Gates, 0)
    BY <1>1, <2>3, <2>6
  <2>9. Numbers'
    BY <2>5, <2>7, <2>8 DEF Numbers
  <2> QED BY <1>1, <2>2, <2>4, <2>9 DEF EventTyped
<1>3. CASE ~joined
  <2>1. events' = events
    BY <1>3 DEF View!Tells
  <2>2. Later(events, {"idle"}, 0) \in Nat /\ Later(events, Gates, 0) \in Nat
    BY <1>1, Told
  <2>3. Numbers'
    BY <1>1, <1>3, <2>1, <2>2 DEF Numbers
  <2>4. In(events)' = In(events) /\ IsSeq(events)'
    BY <1>1, <2>1 DEF IsSeq
  <2> QED BY <1>1, <1>3, <2>1, <2>3, <2>4 DEF EventTyped
<1> QED BY <1>2, <1>3

LEMMA ComingOn ==
  ASSUME PageInv, NEW e, View!Tells(e), viewing, NEW g \in Nat,
         gates' = gates + (IF e.type \in Gates THEN 1 ELSE 0)
  PROVE  /\ Coming(events, gates, g) \subseteq Coming(events', gates', g)
         /\ e.type \in Gates /\ g <= gates => e \in Coming(events', gates', g)
<1>1. events' = Append(events, e) /\ IsSeq(events) /\ gates \in Nat /\ g \in Int
  BY DEF PageInv, PageTypes, Numbers, View!Tells
<1>2. /\ Coming(events, gates, g) \subseteq Coming(Append(events, e), gates', g)
      /\ e.type \in Gates /\ g <= gates => e \in Coming(Append(events, e), gates + 1, g)
  BY <1>1, ComingAppended
<1>3. e.type \in Gates => gates' = gates + 1
  OBVIOUS
<1> QED BY <1>1, <1>2, <1>3

LEMMA ResolvedOn ==
  ASSUME PageInv, NEW e, View!Tells(e), NEW q
  PROVE  /\ e # Required(q) /\ ResolvedFollows(events, q) => ResolvedFollows(events', q)
         /\ viewing /\ e = Resolved(q) => ResolvedFollows(events', q)
<1>1. IsSeq(events) /\ (viewing => joined)
  BY DEF PageInv, PageTypes, Numbers
<1>2. CASE joined
  <2>1. events' = Append(events, e)
    BY <1>2 DEF View!Tells
  <2> QED BY <1>1, <2>1, ResolvedFollowsOn
<1>3. CASE ~joined
  BY <1>1, <1>3 DEF View!Tells
<1> QED BY <1>2, <1>3

LEMMA PromptIsTaken ==
  ASSUME PageInv, View!ViewAssumption, View!TakeMessage PROVE PageInv'
<1>1. CASE run # "none"
  BY <1>1, ViewRequests DEF View!TakeMessage
<1>2. CASE run = "none"
  <2> DEFINE e == [type |-> "busy"]
  <2>1. /\ gets # <<>> /\ Head(gets) = "message"
        /\ rows' = rows \o <<View!Message("user", <<>>), View!Message("assistant", <<>>)>>
        /\ busy' = TRUE /\ run' = "loop" /\ View!Tells(e) /\ gets' = Append(Tail(gets), "sent")
        /\ UNCHANGED <<asks, news, owed, idles, gates, joined, replies>>
        /\ UNCHANGED <<shown, pageStatus, asked, viewing, unread, pageSeen, behind, told, late>>
    BY <1>2 DEF View!TakeMessage, View!pageVars
  <2>2. RowsTyped' /\ View!Runs' = View!Runs + 1
    BY <2>1, PromptStored DEF PageInv
  <2>3. IsSeq(gets') /\ In(gets) \subseteq In(gets') \cup {"message"}
    <3>1. IsSeq(gets)
      BY DEF PageInv, PageTypes
    <3>2. IsSeq(Tail(gets)) /\ In(gets) = In(Tail(gets)) \cup {Head(gets)}
      BY <2>1, <3>1, InTaken
    <3>3. IsSeq(gets') /\ In(gets') = In(Tail(gets)) \cup {"sent"}
      BY <2>1, <3>2, InAppended
    <3> QED BY <2>1, <3>2, <3>3
  <2>4. /\ Numbers' /\ IsSeq(events)' /\ \A x \in In(events)' : EventTyped(x)'
        /\ In(events) \subseteq In(events') /\ In(events') \subseteq In(events) \cup {e}
    <3>1. idles' = idles + 0 /\ gates' = gates + 0 /\ e.type = "busy" /\ e.type \notin Gates
      BY <2>1 DEF PageInv, PageTypes, Gates
    <3>2. viewing \/ ~joined
      BY <2>1 DEF PageInv, Numbers, Untouched
    <3>3. EventTyped(e)'
      BY <3>1 DEF EventTyped
    <3> HIDE DEF e
    <3> QED BY <2>1, <3>1, <3>2, <3>3, NumbersOn
  <2>5. PageTypes'
    <3>1. EventTyped(owed)'
      BY <2>1 DEF PageInv, PageTypes, EventTyped
    <3> QED BY <2>1, <2>3, <2>4, <3>1 DEF PageInv, PageTypes, ReplyTyped, IsSeq
  <2>6. Progress'
    <3>1. owed = View!Nothing /\ View!Runs = idles /\ idles \in Nat
      BY <1>2 DEF PageInv, Progress, PageTypes
    <3> QED BY <2>1, <2>2, <3>1 DEF Progress, View!Nothing
  <2>7. Followed'
    BY <2>1 DEF Followed
  <2>8. Fresh'
    BY <2>1, <2>3 DEF PageInv, Fresh
  <2>9. \A q \in Questions : Required(q) # e /\ Resolved(q) # e
    BY DEF Required, Resolved
  <2>10. \A A, W : Good(A, W) => \A V : W \subseteq V => Good(A, V)'
    BY <2>1 DEF Good
  <2>11. Answering'
    <3>1. \A q \in Questions : ResolvedFollows(events, q) => ResolvedFollows(events', q)
      BY <2>1, <2>9, ResolvedOn
    <3>2. \A q \in Questions : /\ Required(q) \in In(events') <=> Required(q) \in In(events)
                               /\ Resolved(q) \in In(events') <=> Resolved(q) \in In(events)
      BY <2>4, <2>9
    <3> QED BY <2>1, <3>1, <3>2 DEF PageInv, Answering
  <2>12. Asking'
    BY <2>1, <2>4, <2>10 DEF PageInv, Asking
  <2>13. ASSUME NEW r \in In(replies) PROVE Snapped(r)' /\ Promised(r)'
    <3>1. Snapped(r)'
      BY <2>1 DEF PageInv, Snapped
    <3>2. ReplyTyped(r) /\ Promised(r)
      BY DEF PageInv, PageTypes
    <3>3. r.kind = "parts" /\ viewing => Coming(events, gates, r.gates) \subseteq Coming(events, gates, r.gates)'
      <4> SUFFICES ASSUME r.kind = "parts", viewing
                   PROVE  Coming(events, gates, r.gates) \subseteq Coming(events', gates', r.gates)
        OBVIOUS
      <4>1. r.gates \in Nat
        BY <3>2 DEF ReplyTyped
      <4>2. gates' = gates + 0 /\ e.type \notin Gates
        BY <2>1 DEF PageInv, PageTypes, Gates
      <4> HIDE DEF e
      <4> QED BY <2>1, <4>1, <4>2, ComingOn
    <3> QED BY <2>1, <2>10, <3>1, <3>2, <3>3 DEF Promised
  <2> QED BY <2>1, <2>2, <2>4, <2>5, <2>6, <2>7, <2>8, <2>11, <2>12, <2>13 DEF PageInv
<1> QED BY <1>1, <1>2

LEMMA SnapshotIsRead ==
  ASSUME PageInv, View!Serve PROVE PageInv'
<1> PICK r : r = View!Snapshot(Head(gets))
  OBVIOUS
<1>1. /\ gets # <<>> /\ Head(gets) \in {"parts", "sessions", "sent"}
      /\ replies' = Append(replies, r) /\ gets' = Tail(gets)
      /\ UNCHANGED <<rows, busy, asks, news, run, owed, idles, gates, joined, events>>
      /\ UNCHANGED <<shown, pageStatus, asked, viewing, unread, pageSeen, behind, told, late>>
  BY DEF View!Serve, View!pageVars, View!serverVars
<1>2. r.kind = Head(gets) /\ r.kind \in {"parts", "sessions", "sent"}
  BY <1>1 DEF View!Snapshot
<1>3. r.kind = "parts" => r.idles = idles /\ r.msgs = rows /\ r.pending = View!pending /\ r.gates = gates
  BY <1>2 DEF View!Snapshot
<1>4. r.kind # "parts" => /\ r.idles = (IF r.kind = "sent" THEN View!Runs - 1 ELSE idles)
                          /\ r.busy = busy /\ r.unread = (~busy /\ news)
  BY <1>2 DEF View!Snapshot
<1>5. View!Runs = idles + (IF run = "none" THEN 0 ELSE 1) /\ idles \in Nat /\ gates \in Nat
      /\ busy \in BOOLEAN /\ news \in BOOLEAN /\ IsSeq(replies) /\ IsSeq(gets) /\ (run = "none" => ~busy)
  BY DEF PageInv, PageTypes, Progress
<1>6. IsSeq(replies') /\ In(replies') = In(replies) \cup {r}
  BY <1>1, <1>5, InAppended
<1>7. IsSeq(gets') /\ In(gets) = In(gets') \cup {Head(gets)}
  BY <1>1, <1>5, InTaken
<1>8. ReplyTyped(r)
  <2>1. r.idles \in Int
    BY <1>3, <1>4, <1>5
  <2>2. r.kind # "parts" => r.busy \in BOOLEAN /\ r.unread \in BOOLEAN
    BY <1>4, <1>5
  <2>3. r.kind = "parts" => r.gates \in Nat /\ r.pending \subseteq Questions
    BY <1>3, <1>5 DEF View!pending
  <2> QED BY <1>2, <2>1, <2>2, <2>3 DEF ReplyTyped
<1>9. RowsTyped' /\ View!Runs' = View!Runs
  BY <1>1 DEF PageInv, RowsTyped, MessageTyped, View!Runs
<1>10. PageTypes'
  <2>1. \A x \in In(replies') : ReplyTyped(x)
    BY <1>6, <1>8 DEF PageInv, PageTypes
  <2> QED BY <1>1, <1>6, <1>7, <2>1 DEF PageInv, PageTypes, EventTyped, ReplyTyped
<1>11. Numbers'
  BY <1>1 DEF PageInv, Numbers, Untouched
<1>12. Progress' /\ Followed'
  BY <1>1, <1>9 DEF PageInv, Progress, Followed
<1>13. Fresh'
  BY <1>1, <1>2, <1>3, <1>6, <1>7 DEF PageInv, Fresh
<1>14. Answering' /\ Asking'
  BY <1>1 DEF PageInv, Answering, Asking, Good
<1>15. \A x \in In(replies) : Snapped(x)' /\ Promised(x)'
  BY <1>1 DEF PageInv, Snapped, Promised, Good
<1>16. Snapped(r)'
  <2>1. r.kind = "sent" => r.idles <= idles /\ (run = "none" => r.idles # idles)
    BY <1>4, <1>5
  <2>2. r.kind # "sent" => r.idles = idles
    BY <1>3, <1>4
  <2>3. r.kind # "parts" => (r.unread => ~r.busy) /\ (run = "none" => ~r.busy)
    BY <1>4, <1>5
  <2> QED BY <1>1, <1>3, <1>5, <2>1, <2>2, <2>3 DEF Snapped
<1>17. Promised(r)'
  <2>1. r.kind = "parts" => \A W : Good(r.pending, W)'
    BY <1>1, <1>3 DEF Good, View!pending
  <2> QED BY <1>1, <1>2, <1>3, <1>5, <2>1 DEF Promised, View!pending
<1> QED BY <1>6, <1>9, <1>10, <1>11, <1>12, <1>13, <1>14, <1>15, <1>16, <1>17 DEF PageInv

LEMMA RequestIsResolved ==
  ASSUME PageInv, View!ViewAssumption, NEW p \in Questions, View!Resolve(p),
         gets' = gets \/ (gets # <<>> /\ gets' = Tail(gets) /\ Head(gets) = p),
         replies' = replies \/ replies' = Append(replies, [kind |-> "answered", q |-> p])
  PROVE  PageInv'
<1> DEFINE e == Resolved(p)
           a == [kind |-> "answered", q |-> p]
<1>1. /\ asks[p] = "pending" /\ asks' = [asks EXCEPT ![p] = IF owed = Required(p) THEN "early" ELSE "answered"]
      /\ gates' = gates + 1 /\ View!Tells(e)
      /\ UNCHANGED <<rows, busy, news, run, owed, idles, joined>>
      /\ UNCHANGED <<shown, pageStatus, asked, viewing, unread, pageSeen, behind, told, late>>
  BY DEF View!Resolve, View!pending, View!pageVars, View!Required, Required, Resolved
<1>2. /\ e.type = "resolved" /\ e.type \in Gates /\ e.q = p
      /\ \A q \in Questions : e # Required(q) /\ (e = Resolved(q) <=> q = p)
  BY DEF Resolved, Required, Gates
<1>3. asks' \in [Questions -> {"none", "pending", "answered", "early"}]
      /\ \A q \in Questions : asks'[q] = IF q # p THEN asks[q] ELSE IF owed = Required(p) THEN "early" ELSE "answered"
  BY <1>1 DEF PageInv, PageTypes
<1>4. IsSeq(gets') /\ In(gets) \subseteq In(gets') \cup {p} /\ p \notin {"parts", "sessions"}
  <2>1. IsSeq(gets)
    BY DEF PageInv, PageTypes
  <2> QED BY <2>1, InTaken DEF View!ViewAssumption
<1>5. IsSeq(replies') /\ In(replies) \subseteq In(replies') /\ In(replies') \subseteq In(replies) \cup {a}
  <2>1. IsSeq(replies)
    BY DEF PageInv, PageTypes
  <2> HIDE DEF a
  <2>2. CASE replies' = Append(replies, a)
    BY <2>1, <2>2, InAppended
  <2> QED BY <2>1, <2>2 DEF a
<1>6. viewing \/ ~joined
  BY <1>1 DEF PageInv, Numbers, Untouched
<1>7. /\ Numbers' /\ IsSeq(events)' /\ \A x \in In(events)' : EventTyped(x)'
      /\ In(events) \subseteq In(events') /\ In(events') \subseteq In(events) \cup {e}
      /\ joined => e \in In(events')
  <2>1. idles' = idles + 0 /\ gates' = gates + 1 /\ e.type # "idle"
    BY <1>1, <1>2 DEF PageInv, PageTypes
  <2>2. EventTyped(e)'
    BY DEF EventTyped
  <2> HIDE DEF e
  <2> QED BY <1>1, <1>2, <1>6, <2>1, <2>2, NumbersOn
<1>8. RowsTyped' /\ View!Runs' = View!Runs
  BY <1>1 DEF PageInv, RowsTyped, MessageTyped, View!Runs
<1>9. PageTypes'
  <2>1. EventTyped(owed)'
    BY <1>1 DEF PageInv, PageTypes, EventTyped
  <2>2. \A x \in In(replies') : ReplyTyped(x)
    BY <1>5 DEF PageInv, PageTypes, ReplyTyped
  <2>3. gates' \in Nat
    BY <1>1 DEF PageInv, PageTypes
  <2> HIDE DEF e, a
  <2> QED BY <1>1, <1>3, <1>4, <1>5, <1>7, <2>1, <2>2, <2>3 DEF PageInv, PageTypes, ReplyTyped, IsSeq
<1>10. Progress'
  BY <1>1, <1>8 DEF PageInv, Progress
<1>11. Followed'
  <2>1. joined /\ run = "none" => IdleFollows(events')
    <3> SUFFICES ASSUME joined, run = "none" PROVE IdleFollows(events')
      OBVIOUS
    <3>1. events' = Append(events, e) /\ IsSeq(events) /\ IdleFollows(events)
      BY <1>1 DEF PageInv, PageTypes, Followed, View!Tells
    <3> HIDE DEF e
    <3> QED BY <1>2, <3>1, IdleFollowsOn
  <2>2. (\E x \in In(events') : x.type = "busy") => \E x \in In(events) : x.type = "busy"
    BY <1>2, <1>7
  <2> HIDE DEF e
  <2> QED BY <1>1, <2>1, <2>2 DEF PageInv, Followed, In, IdleFollows
<1>12. Fresh'
  BY <1>1, <1>4, <1>5 DEF PageInv, Fresh
<1>13. \A A, W, V : Good(A, W) /\ W \subseteq V /\ e \in V => Good(A, V)'
  BY <1>1, <1>2, <1>3 DEF Good
<1>14. Answering'
  <2>1. \A q \in Questions : ResolvedFollows(events, q) => ResolvedFollows(events', q)
    BY <1>1, <1>2, ResolvedOn
  <2>2. viewing => ResolvedFollows(events', p)
    BY <1>1, <1>2, ResolvedOn
  <2>3. \A q \in Questions : /\ Required(q) \in In(events') <=> Required(q) \in In(events)
                             /\ q # p => (Resolved(q) \in In(events') <=> Resolved(q) \in In(events))
    BY <1>2, <1>7
  <2> QED BY <1>1, <1>3, <2>1, <2>2, <2>3 DEF PageInv, Answering
<1>15. Asking'
  <2>1. viewing => joined
    BY DEF PageInv, Numbers
  <2> QED BY <1>1, <1>7, <1>13, <2>1 DEF PageInv, Asking
<1>16. ASSUME NEW r \in In(replies) PROVE Snapped(r)' /\ Promised(r)'
  <2>1. Snapped(r)'
    BY <1>1 DEF PageInv, Snapped
  <2>2. ReplyTyped(r) /\ Promised(r) /\ gates \in Nat
    BY DEF PageInv, PageTypes
  <2>3. r.kind = "parts" => r.gates <= gates' /\ r.gates # gates'
    BY <1>1, <2>2 DEF Promised, ReplyTyped
  <2>4. r.kind = "answered" => asks'[r.q] \in {"answered", "early"}
    BY <1>3, <2>2 DEF Promised, ReplyTyped
  <2>5. r.kind = "parts" /\ viewing /\ r.gates >= told => Good(r.pending, Coming(events, gates, r.gates))'
    <3> SUFFICES ASSUME r.kind = "parts", viewing, r.gates >= told
                 PROVE  Good(r.pending, Coming(events, gates, r.gates))'
      OBVIOUS
    <3>1. r.gates \in Nat /\ r.gates <= gates /\ Good(r.pending, Coming(events, gates, r.gates))
      BY <2>2 DEF Promised, ReplyTyped
    <3>2. Coming(events, gates, r.gates) \subseteq Coming(events', gates', r.gates) /\ e \in Coming(events', gates', r.gates)
      <4> HIDE DEF e
      <4> QED BY <1>1, <1>2, <3>1, ComingOn
    <3> QED BY <1>13, <3>1, <3>2
  <2> QED BY <1>1, <2>1, <2>3, <2>4, <2>5 DEF Promised
<1>17. Snapped(a)' /\ Promised(a)'
  BY <1>3 DEF Snapped, Promised
<1> HIDE DEF e, a
<1> QED BY <1>5, <1>7, <1>8, <1>9, <1>10, <1>11, <1>12, <1>14, <1>15, <1>16, <1>17 DEF PageInv

LEMMA EventIsEmitted ==
  ASSUME PageInv, View!Emit PROVE PageInv'
<1> PICK e : e = owed
  OBVIOUS
<1>1. /\ e # View!Nothing /\ View!Tells(e) /\ owed' = View!Nothing
      /\ idles' = idles + (IF e.type = "idle" THEN 1 ELSE 0)
      /\ gates' = gates + (IF e.type = "required" THEN 1 ELSE 0)
      /\ run' = (IF e.type = "idle" THEN "none" ELSE run)
      /\ UNCHANGED <<rows, busy, asks, news, joined, gets, replies>>
      /\ UNCHANGED <<shown, pageStatus, asked, viewing, unread, pageSeen, behind, told, late>>
  BY DEF View!Emit, View!pageVars
<1>2. /\ IsSeq(events) /\ idles \in Nat /\ gates \in Nat /\ pageSeen \in Nat /\ pageSeen <= idles /\ EventTyped(e)
      /\ run \in {"none", "loop", "done", "over"} /\ run \notin {"none", "done"} /\ e.type # "resolved"
      /\ (run = "over" <=> e.type = "idle") /\ (run = "over" => ~busy)
      /\ View!Runs = idles + (IF run = "none" THEN 0 ELSE 1)
  BY <1>1 DEF PageInv, PageTypes, Progress, Numbers
<1>3. /\ e.type \in Gates <=> e.type = "required"
      /\ e.type \in Gates => \E q \in Questions : e = Required(q)
      /\ \A q \in Questions : e # Resolved(q) /\ (e.type \notin Gates => e # Required(q)) /\ owed' # Required(q)
  BY <1>1, <1>2 DEF EventTyped, Gates, Resolved, Required, View!Nothing
<1>4. viewing \/ ~joined
  BY <1>1 DEF PageInv, Numbers, Untouched
<1>5. /\ Numbers' /\ IsSeq(events)' /\ \A x \in In(events)' : EventTyped(x)'
      /\ In(events) \subseteq In(events') /\ In(events') \subseteq In(events) \cup {e}
      /\ joined => e \in In(events')
  <2>1. gates' = gates + (IF e.type \in Gates THEN 1 ELSE 0)
    BY <1>1, <1>3
  <2>2. EventTyped(e)'
    BY <1>2 DEF EventTyped
  <2> QED BY <1>1, <1>4, <2>1, <2>2, NumbersOn
<1>6. RowsTyped' /\ View!Runs' = View!Runs
  BY <1>1 DEF PageInv, RowsTyped, MessageTyped, View!Runs
<1>7. PageTypes'
  <2>1. EventTyped(owed)'
    BY <1>1 DEF EventTyped, View!Nothing, Gates
  <2>2. gates' \in Nat /\ idles' \in Nat /\ run' \in {"none", "loop", "done", "over"}
    BY <1>1, <1>2
  <2> QED BY <1>1, <1>5, <2>1, <2>2 DEF PageInv, PageTypes, ReplyTyped, IsSeq
<1>8. Progress'
  <2>1. run' \notin {"done", "over"} /\ (run' = "none" => ~busy)
    BY <1>1, <1>2
  <2>2. View!Runs' = idles' + (IF run' = "none" THEN 0 ELSE 1)
    BY <1>1, <1>2, <1>6
  <2>3. owed'.type # "idle" /\ owed'.type # "resolved"
    BY <1>1 DEF View!Nothing
  <2> QED BY <1>1, <2>1, <2>2, <2>3 DEF Progress
<1>9. run' = "none" => e.type = "idle" /\ pageSeen < idles' /\ idles' > idles
  BY <1>1, <1>2
<1>10. Followed'
  <2>1. joined /\ run' = "none" => IdleFollows(events')
    <3> SUFFICES ASSUME joined, run' = "none" PROVE IdleFollows(events')
      OBVIOUS
    <3>1. events' = Append(events, e)
      BY <1>1 DEF View!Tells
    <3> QED BY <1>2, <1>9, <3>1, IdleFollowsOn
  <2>2. pageSeen' = pageSeen /\ joined' = joined
    BY <1>1
  <2>3. run' = "none" => pageSeen < idles' /\ pageSeen # idles'
    BY <1>2, <1>9
  <2> QED BY <2>1, <2>2, <2>3 DEF Followed, IdleFollows
<1>11. Fresh'
  <2>1. run' = "none" => pageSeen' # idles'
    BY <1>1, <1>2, <1>9
  <2> QED BY <1>1, <2>1 DEF PageInv, Fresh
<1>12. \A A, W, V : Good(A, W) /\ W \subseteq V /\ (e.type \in Gates => e \in V) => Good(A, V)'
  BY <1>1, <1>3 DEF Good
<1>13. Answering'
  <2>1. \A q \in Questions : ResolvedFollows(events, q) /\ e # Required(q) => ResolvedFollows(events', q)
    BY <1>1, ResolvedOn
  <2>2. \A q \in Questions : e = Required(q) => asks[q] \in {"pending", "early"}
    BY DEF PageInv, Answering
  <2>3. \A q \in Questions : /\ Required(q) \in In(events') => Required(q) \in In(events) \/ e = Required(q)
                             /\ Resolved(q) \in In(events') <=> Resolved(q) \in In(events)
    BY <1>3, <1>5
  <2> QED BY <1>1, <1>3, <2>1, <2>2, <2>3 DEF PageInv, Answering
<1>14. Asking'
  <2>1. viewing => joined
    BY DEF PageInv, Numbers
  <2> QED BY <1>1, <1>5, <1>12, <2>1 DEF PageInv, Asking
<1>15. ASSUME NEW r \in In(replies) PROVE Snapped(r)' /\ Promised(r)'
  <2>1. ReplyTyped(r) /\ Promised(r) /\ Snapped(r)
    BY DEF PageInv, PageTypes
  <2>2. Snapped(r)'
    <3>1. r.kind # "answered" => r.idles <= idles' /\ (run' = "none" => r.idles # idles')
      BY <1>1, <1>2, <1>9, <2>1 DEF Snapped, ReplyTyped
    <3>2. r.kind # "answered" /\ r.kind # "parts" => (r.unread => ~r.busy)
      BY <2>1 DEF Snapped
    <3> QED BY <3>1, <3>2 DEF Snapped
  <2>3. r.kind = "parts" => r.gates <= gates' /\ (r.gates = gates' => r.gates = gates /\ e.type \notin Gates)
    BY <1>1, <1>2, <1>3, <2>1 DEF Promised, ReplyTyped
  <2>4. r.kind = "parts" /\ viewing /\ r.gates >= told => Good(r.pending, Coming(events, gates, r.gates))'
    <3> SUFFICES ASSUME r.kind = "parts", viewing, r.gates >= told
                 PROVE  Good(r.pending, Coming(events, gates, r.gates))'
      OBVIOUS
    <3>1. r.gates \in Nat /\ r.gates <= gates /\ Good(r.pending, Coming(events, gates, r.gates))
      BY <2>1 DEF Promised, ReplyTyped
    <3>2. gates' = gates + (IF e.type \in Gates THEN 1 ELSE 0)
      BY <1>1, <1>3
    <3>3. Coming(events, gates, r.gates) \subseteq Coming(events', gates', r.gates)
          /\ (e.type \in Gates => e \in Coming(events', gates', r.gates))
      BY <1>1, <3>1, <3>2, ComingOn
    <3> QED BY <1>12, <3>1, <3>3
  <2>5. r.kind = "parts" /\ r.gates = gates' =>
          /\ \A q \in r.pending : asks[q] = "pending"
          /\ \A q \in Questions \ r.pending : asks[q] # "pending"
    BY <1>3, <2>1, <2>3 DEF Promised
  <2> QED BY <1>1, <2>1, <2>2, <2>3, <2>4, <2>5 DEF Promised
<1> QED BY <1>1, <1>5, <1>6, <1>7, <1>8, <1>10, <1>11, <1>13, <1>14, <1>15 DEF PageInv

(* The page comes and goes.                                                    *)
LEMMA NoneLater == Later(<<>>, {"idle"}, 0) = 0 /\ Later(<<>>, Gates, 0) = 0
<1>1. <<>> \in Seq({}) /\ 0 \in Nat
  OBVIOUS
<1> QED BY <1>1, LaterSome

(* A page with no event on its way and all numbers up to date.                 *)
LEMMA PromisedAgain ==
  ASSUME PageInv, NEW r \in In(replies), UNCHANGED <<asks, owed, gates>>, told' = gates
  PROVE  Promised(r)'
<1>1. ReplyTyped(r) /\ Promised(r) /\ gates \in Nat
  BY DEF PageInv, PageTypes
<1>2. r.kind = "parts" /\ r.gates >= told' => r.gates = gates
  BY <1>1 DEF Promised, ReplyTyped
<1>3. r.kind = "parts" /\ r.gates = gates => \A W : Good(r.pending, W)'
  BY <1>1 DEF Promised, Good
<1> QED BY <1>1, <1>2, <1>3 DEF Promised

LEMMA PageIsOpened ==
  ASSUME PageInv, View!Open PROVE PageInv'
<1> DEFINE more == <<"sessions", "parts">> \o (IF pageStatus = "idle" THEN <<"read">> ELSE <<>>)
<1>1. /\ ~viewing /\ viewing' = TRUE /\ joined' = TRUE /\ (joined \/ events = <<>>)
      /\ unread' = (unread /\ pageStatus # "idle")
      /\ pageSeen' = idles - View!IdlesIn(events) /\ told' = gates - View!GatesIn(events)
      /\ behind' = (pageStatus = "busy" /\ (behind \/ pageSeen # pageSeen'))
      /\ UNCHANGED <<events, replies, shown, pageStatus, asked, late, rows, busy, asks, news, run, owed, idles, gates>>
  BY DEF View!Open
<1>2. events = <<>> /\ (joined => Untouched) /\ (~joined => late)
  BY <1>1 DEF PageInv, Numbers, Untouched
<1>3. /\ IsSeq(events) /\ idles \in Nat /\ gates \in Nat /\ pageSeen \in Nat
      /\ unread \in BOOLEAN /\ behind \in BOOLEAN /\ pageSeen <= idles
  BY DEF PageInv, PageTypes, Numbers
<1>4. pageSeen' = idles /\ told' = gates
  <2>1. View!IdlesIn(events) = 0 /\ View!GatesIn(events) = 0
    BY <1>2, <1>3, Counts, NoneLater DEF IsSeq
  <2> QED BY <1>1, <1>3, <2>1
<1>5. IsSeq(gets') /\ "sessions" \in In(gets') /\ "parts" \in In(gets')
  <2>1. gets' = gets \o <<"sessions", "parts">> \o (IF pageStatus = "idle" THEN <<"read">> ELSE <<>>)
    BY DEF View!Open
  <2>2. IsSeq(gets)
    BY DEF PageInv, PageTypes
  <2>3. IsSeq(<<"sessions", "parts">>) /\ {"sessions", "parts"} \subseteq In(<<"sessions", "parts">>)
    <3>1. <<"sessions", "parts">> \in Seq({"sessions", "parts"}) /\ 1 \in DOMAIN <<"sessions", "parts">>
          /\ 2 \in DOMAIN <<"sessions", "parts">>
      OBVIOUS
    <3>2. <<"sessions", "parts">>[1] = "sessions" /\ <<"sessions", "parts">>[2] = "parts"
      OBVIOUS
    <3>3. IsSeq(<<"sessions", "parts">>)
      BY <3>1, SeqOfIts
    <3> QED BY <3>1, <3>2, <3>3 DEF In
  <2> PICK a : a = <<"sessions", "parts">>
    OBVIOUS
  <2>4. IsSeq(gets \o a) /\ {"sessions", "parts"} \subseteq In(gets \o a)
    BY <2>2, <2>3, InConcat
  <2>5. IsSeq(<<"read">>) /\ IsSeq(<<>>)
    <3>1. <<"read">> \in Seq({"read"}) /\ <<>> \in Seq({"read"})
      OBVIOUS
    <3> QED BY <3>1, SeqOfIts
  <2> PICK b : b = IF pageStatus = "idle" THEN <<"read">> ELSE <<>>
    OBVIOUS
  <2>6. IsSeq(b) /\ gets' = gets \o a \o b
    BY <2>1, <2>5
  <2> QED BY <2>4, <2>6, InConcat
<1>6. RowsTyped' /\ View!Runs' = View!Runs
  BY <1>1 DEF PageInv, RowsTyped, MessageTyped, View!Runs
<1>7. PageTypes'
  <2>1. unread' \in BOOLEAN /\ behind' \in BOOLEAN
    BY <1>1
  <2> QED BY <1>1, <1>3, <1>4, <1>5, <2>1 DEF PageInv, PageTypes, EventTyped, ReplyTyped, IsSeq
<1>8. Numbers'
  <2>1. Later(events, {"idle"}, 0) = 0 /\ Later(events, Gates, 0) = 0
    BY <1>2, NoneLater
  <2> QED BY <1>1, <1>3, <1>4, <2>1 DEF Numbers
<1>9. Progress'
  BY <1>1, <1>6 DEF PageInv, Progress
<1>10. Followed'
  <2>1. IdleFollows(events')
    BY <1>1, <1>2 DEF IdleFollows
  <2>2. pageStatus = "busy" /\ ~behind' => ~behind /\ pageSeen = idles
    BY <1>1, <1>4
  <2>3. pageStatus = "busy" /\ ~behind' => run # "none"
    BY <2>2 DEF PageInv, Followed
  <2> QED BY <1>1, <2>1, <2>3 DEF Followed
<1>11. Fresh'
  <2>1. ~unread'
    BY <1>1 DEF PageInv, Fresh
  <2>2. ~behind' /\ run = "none" => pageStatus # "busy"
    <3>1. pageStatus = "busy" /\ ~behind' => ~behind /\ pageSeen = idles
      BY <1>1, <1>4
    <3> QED BY <3>1 DEF PageInv, Followed
  <2> QED BY <1>1, <1>5, <2>1, <2>2 DEF Fresh
<1>12. Answering'
  <2>1. \A q \in Questions : ResolvedFollows(events', q)
    BY <1>1, <1>2 DEF ResolvedFollows
  <2> QED BY <1>1, <2>1 DEF PageInv, Answering
<1>13. Asking'
  <2>1. joined => \A q \in Questions : asks[q] = "none" /\ q \notin asked
    BY <1>2 DEF Untouched
  <2> QED BY <1>1, <1>2, <2>1 DEF Asking, Good
<1>14. \A r \in In(replies) : Snapped(r)' /\ Promised(r)'
  <2>1. \A r \in In(replies) : Snapped(r)'
    BY <1>1 DEF PageInv, Snapped
  <2> QED BY <1>1, <1>4, <2>1, PromisedAgain
<1> QED BY <1>1, <1>6, <1>7, <1>8, <1>9, <1>10, <1>11, <1>12, <1>13, <1>14 DEF PageInv

LEMMA PageIsLeft ==
  ASSUME PageInv, View!Leave PROVE PageInv'
<1>1. /\ viewing /\ viewing' = FALSE /\ joined' = FALSE /\ late' = TRUE
      /\ UNCHANGED <<events, gets, replies, shown, pageStatus, asked, unread, pageSeen, behind, told,
                     rows, busy, asks, news, run, owed, idles, gates>>
  BY DEF View!Leave
<1>2. RowsTyped' /\ View!Runs' = View!Runs
  BY <1>1 DEF PageInv, RowsTyped, MessageTyped, View!Runs
<1>3. PageTypes'
  BY <1>1 DEF PageInv, PageTypes, EventTyped, ReplyTyped
<1>4. Numbers'
  BY <1>1 DEF PageInv, Numbers
<1>5. Progress'
  BY <1>1, <1>2 DEF PageInv, Progress
<1>6. Followed'
  <2>1. run = "none" /\ (\E e \in In(events) : e.type = "busy") => pageSeen < idles
    <3> SUFFICES ASSUME run = "none", NEW e \in In(events), e.type = "busy" PROVE pageSeen < idles
      OBVIOUS
    <3>1. joined /\ IsSeq(events) /\ IdleFollows(events) /\ pageSeen = idles - Later(events, {"idle"}, 0) /\ idles \in Nat
      BY <1>1 DEF PageInv, PageTypes, Numbers, Followed
    <3>2. Later(events, {"idle"}, 0) > 0
      BY <3>1, IdleFollowsOn DEF Gates
    <3>3. Later(events, {"idle"}, 0) \in Nat
      BY <3>1, Told
    <3> QED BY <3>1, <3>2, <3>3
  <2> QED BY <1>1, <2>1 DEF PageInv, Followed
<1>7. Fresh'
  BY <1>1 DEF PageInv, Fresh
<1>8. Answering' /\ Asking'
  BY <1>1 DEF PageInv, Answering, Asking
<1>9. \A r \in In(replies) : Snapped(r)' /\ Promised(r)'
  BY <1>1 DEF PageInv, Snapped, Promised
<1> QED BY <1>1, <1>2, <1>3, <1>4, <1>5, <1>6, <1>7, <1>8, <1>9 DEF PageInv

LEMMA ConnectionIsLost ==
  ASSUME PageInv, View!Disconnect PROVE PageInv'
<1>1. /\ events # <<>> /\ events' = <<>> /\ pageSeen' = idles /\ told' = gates /\ behind' = TRUE /\ late' = TRUE
      /\ UNCHANGED <<gets, replies, shown, pageStatus, asked, viewing, unread,
                     rows, busy, asks, news, run, owed, idles, gates, joined>>
  BY DEF View!Disconnect, View!serverVars
<1>2. RowsTyped' /\ View!Runs' = View!Runs
  BY <1>1 DEF PageInv, RowsTyped, MessageTyped, View!Runs
<1>3. IsSeq(events') /\ In(events') = {} /\ idles \in Nat /\ gates \in Nat
  BY <1>1, InEmpty DEF PageInv, PageTypes
<1>4. PageTypes'
  <2>1. EventTyped(owed)'
    BY <1>1 DEF PageInv, PageTypes, EventTyped
  <2> QED BY <1>1, <1>3, <2>1 DEF PageInv, PageTypes, ReplyTyped, IsSeq
<1>5. Numbers'
  <2>1. Later(events', {"idle"}, 0) = 0 /\ Later(events', Gates, 0) = 0
    BY <1>1, NoneLater
  <2>2. (viewing => joined) /\ ~(~viewing /\ joined)
    BY <1>1 DEF PageInv, Numbers, Untouched
  <2> QED BY <1>1, <1>3, <2>1, <2>2 DEF Numbers
<1>6. Progress'
  BY <1>1, <1>2 DEF PageInv, Progress
<1>7. Followed'
  <2>1. IdleFollows(events')
    BY <1>1 DEF IdleFollows
  <2> QED BY <1>1, <2>1 DEF Followed
<1>8. Fresh'
  BY <1>1 DEF PageInv, Fresh
<1>9. Answering' /\ Asking'
  <2>1. \A q \in Questions : ResolvedFollows(events', q)
    BY <1>1 DEF ResolvedFollows
  <2> QED BY <1>1, <1>3, <2>1 DEF PageInv, Answering, Asking
<1>10. \A r \in In(replies) : Snapped(r)' /\ Promised(r)'
  <2>1. \A r \in In(replies) : Snapped(r)'
    BY <1>1 DEF PageInv, Snapped
  <2> QED BY <1>1, <2>1, PromisedAgain
<1> QED BY <1>1, <1>2, <1>4, <1>5, <1>6, <1>7, <1>8, <1>9, <1>10 DEF PageInv

(* The page takes an event.                                                    *)
LEMMA QueueShrinks ==
  ASSUME PageInv, events # <<>>, events' = Tail(events), NEW e, e = Head(events),
         UNCHANGED <<rows, busy, asks, news, run, owed, idles, gates, joined, replies, viewing>>
  PROVE  /\ IsSeq(events') /\ In(events) = In(events') \cup {e} /\ EventTyped(e)
         /\ (viewing <=> joined)
         /\ View!IdlesIn(Tail(events)) = Later(events', {"idle"}, 0) /\ Later(events', {"idle"}, 0) \in Nat
         /\ View!GatesIn(Tail(events)) = Later(events', Gates, 0) /\ Later(events', Gates, 0) \in Nat
         /\ Later(events, {"idle"}, 0) = Later(events', {"idle"}, 0) + (IF e.type = "idle" THEN 1 ELSE 0)
         /\ Later(events, Gates, 0) = Later(events', Gates, 0) + (IF e.type \in Gates THEN 1 ELSE 0)
         /\ RowsTyped' /\ Progress' /\ Answering' /\ (joined /\ run = "none" => IdleFollows(events'))
         /\ \A r \in In(replies) : Snapped(r)'
<1>1. IsSeq(events) /\ \A x \in In(events) : EventTyped(x)
  BY DEF PageInv, PageTypes
<1>2. IsSeq(events') /\ In(events) = In(events') \cup {e}
  BY <1>1, InTaken
<1>3. viewing <=> joined
  BY DEF PageInv, Numbers, Untouched
<1>4. /\ View!IdlesIn(Tail(events)) = Later(events', {"idle"}, 0) /\ Later(events', {"idle"}, 0) \in Nat
      /\ View!GatesIn(Tail(events)) = Later(events', Gates, 0) /\ Later(events', Gates, 0) \in Nat
  <2>1. View!IdlesIn(events') = Later(events', {"idle"}, 0) /\ View!GatesIn(events') = Later(events', Gates, 0)
    BY <1>2, Counts DEF IsSeq
  <2>2. Later(events', {"idle"}, 0) \in Nat /\ Later(events', Gates, 0) \in Nat
    BY <1>2, Told
  <2> QED BY <2>1, <2>2
<1>5. /\ Later(events, {"idle"}, 0) = Later(events', {"idle"}, 0) + (IF e.type = "idle" THEN 1 ELSE 0)
      /\ Later(events, Gates, 0) = Later(events', Gates, 0) + (IF e.type \in Gates THEN 1 ELSE 0)
  <2> PICK s, S : s = events /\ S = In(s)
    OBVIOUS
  <2>1. s \in Seq(S) /\ s # <<>>
    BY <1>1 DEF IsSeq
  <2>2. Later(s, {"idle"}, 0) = Later(Tail(s), {"idle"}, 0) + (IF Head(s).type \in {"idle"} THEN 1 ELSE 0)
    BY <2>1, LaterHead
  <2>3. Later(s, Gates, 0) = Later(Tail(s), Gates, 0) + (IF Head(s).type \in Gates THEN 1 ELSE 0)
    BY <2>1, LaterHead
  <2> QED BY <2>2, <2>3
<1>6. RowsTyped' /\ View!Runs' = View!Runs
  BY DEF PageInv, RowsTyped, MessageTyped, View!Runs
<1>7. Progress'
  BY <1>6 DEF PageInv, Progress
<1>8. Answering'
  <2>1. \A q \in Questions : ResolvedFollows(events, q) => ResolvedFollows(events', q)
    BY <1>1, ResolvedFollowsOn
  <2> QED BY <1>2, <2>1 DEF PageInv, Answering
<1>9. joined /\ run = "none" => IdleFollows(events')
  BY <1>1, IdleFollowsOn DEF PageInv, Followed
<1>10. \A r \in In(replies) : Snapped(r)'
  BY DEF PageInv, Snapped
<1> QED BY <1>1, <1>2, <1>3, <1>4, <1>5, <1>6, <1>7, <1>8, <1>9, <1>10

LEMMA PromisesKept ==
  ASSUME PageInv, events # <<>>, events' = Tail(events),
         UNCHANGED <<rows, busy, asks, news, run, owed, idles, gates, joined, replies, viewing>>,
         viewing => told' = gates - Later(events', Gates, 0), NEW r \in In(replies)
  PROVE  Promised(r)'
<1> PICK e : e = Head(events)
  OBVIOUS
<1>1. ReplyTyped(r) /\ Promised(r) /\ gates \in Nat /\ IsSeq(events)
      /\ (viewing => told = gates - Later(events, Gates, 0))
  BY DEF PageInv, PageTypes, Numbers
<1>2. /\ Later(events', Gates, 0) \in Nat
      /\ Later(events, Gates, 0) = Later(events', Gates, 0) + (IF e.type \in Gates THEN 1 ELSE 0)
  BY QueueShrinks
<1>3. r.kind = "parts" /\ viewing /\ r.gates >= told' => Good(r.pending, Coming(events, gates, r.gates))'
  <2> SUFFICES ASSUME r.kind = "parts", viewing, r.gates >= told'
               PROVE  Good(r.pending, Coming(events, gates, r.gates))'
    OBVIOUS
  <2>1. r.gates \in Nat /\ r.gates >= told
    BY <1>1, <1>2 DEF ReplyTyped
  <2>2. Coming(events, gates, r.gates) \subseteq Coming(events', gates, r.gates)
    <3>1. r.gates \in Int /\ r.gates >= gates - Later(Tail(events), Gates, 0)
      BY <2>1
    <3> QED BY <1>1, <3>1, ComingTaken
  <2>3. Good(r.pending, Coming(events, gates, r.gates))
    BY <1>1, <2>1 DEF Promised
  <2> QED BY <2>2, <2>3 DEF Good
<1> QED BY <1>1, <1>3 DEF Promised

(* An event that the page does not count as one of a request.                  *)
LEMMA AskingStays ==
  ASSUME PageInv, events # <<>>, events' = Tail(events), Head(events).type \notin Gates,
         UNCHANGED <<asks, owed, asked, viewing, late>>, In(events) = In(events') \cup {Head(events)}
  PROVE  Asking'
<1>1. \A q \in Questions : Required(q) # Head(events) /\ Resolved(q) # Head(events)
  BY DEF Required, Resolved, Gates
<1> QED BY <1>1 DEF PageInv, Asking, Good

LEMMA StatusIsTold ==
  ASSUME PageInv, events # <<>>, events' = Tail(events), NEW e, e = Head(events), e.type \in {"busy", "idle"},
         View!StatusChanged(e), UNCHANGED <<replies, viewing>>, UNCHANGED View!serverVars
  PROVE  PageInv'
<1>1. /\ pageStatus' = (IF pageStatus = "none" THEN pageStatus ELSE e.type)
      /\ unread' = (e.type = "idle" /\ ~viewing /\ pageStatus # "none")
      /\ gets' = (IF e.type = "idle" /\ viewing THEN gets \o <<"read", "parts">> ELSE gets)
      /\ pageSeen' = (IF e.type = "idle" THEN View!Larger(pageSeen, idles - View!IdlesIn(Tail(events))) ELSE pageSeen)
      /\ behind' = (IF e.type = "idle" THEN ~viewing ELSE behind)
      /\ UNCHANGED <<shown, asked, told, late>>
      /\ UNCHANGED <<rows, busy, asks, news, run, owed, idles, gates, joined, replies, viewing>>
  BY DEF View!StatusChanged, View!serverVars
<1>2. /\ IsSeq(events') /\ In(events) = In(events') \cup {e} /\ (viewing <=> joined)
      /\ View!IdlesIn(Tail(events)) = Later(events', {"idle"}, 0) /\ Later(events', {"idle"}, 0) \in Nat
      /\ Later(events', Gates, 0) \in Nat
      /\ Later(events, {"idle"}, 0) = Later(events', {"idle"}, 0) + (IF e.type = "idle" THEN 1 ELSE 0)
      /\ Later(events, Gates, 0) = Later(events', Gates, 0) + (IF e.type \in Gates THEN 1 ELSE 0)
      /\ RowsTyped' /\ Progress' /\ Answering' /\ (joined /\ run = "none" => IdleFollows(events'))
      /\ \A r \in In(replies) : Snapped(r)'
  BY <1>1, QueueShrinks
<1>3. /\ idles \in Nat /\ gates \in Nat /\ pageSeen \in Nat /\ told \in Nat /\ pageSeen <= idles /\ told <= gates
      /\ Later(events, {"idle"}, 0) <= idles /\ Later(events, Gates, 0) <= gates
      /\ (viewing => pageSeen = idles - Later(events, {"idle"}, 0) /\ told = gates - Later(events, Gates, 0))
      /\ (~joined => late) /\ viewing \in BOOLEAN /\ behind \in BOOLEAN
  BY DEF PageInv, PageTypes, Numbers
<1>4. e.type \notin Gates /\ Later(events', Gates, 0) = Later(events, Gates, 0)
  BY <1>2 DEF Gates
<1>5. /\ pageSeen' \in Nat /\ pageSeen' <= idles /\ pageSeen' >= pageSeen
      /\ (viewing => pageSeen' = idles - Later(events', {"idle"}, 0))
  BY <1>1, <1>2, <1>3 DEF View!Larger
<1>6. /\ IsSeq(gets') /\ In(gets) \subseteq In(gets')
      /\ (e.type = "idle" /\ viewing => "parts" \in In(gets'))
  <2>1. IsSeq(gets)
    BY DEF PageInv, PageTypes
  <2> PICK a : a = <<"read", "parts">>
    OBVIOUS
  <2>2. IsSeq(a) /\ "parts" \in In(a)
    <3>1. a \in Seq({"read", "parts"}) /\ 2 \in DOMAIN a /\ a[2] = "parts"
      OBVIOUS
    <3> QED BY <3>1, SeqOfIts DEF In
  <2>3. IsSeq(gets \o a) /\ In(gets) \subseteq In(gets \o a) /\ "parts" \in In(gets \o a)
    BY <2>1, <2>2, InConcat
  <2> QED BY <1>1, <2>1, <2>3
<1>7. PageTypes'
  <2>1. EventTyped(owed)' /\ \A x \in In(events') : EventTyped(x)'
    BY <1>1, <1>2 DEF PageInv, PageTypes, EventTyped
  <2>2. unread' \in BOOLEAN /\ behind' \in BOOLEAN /\ pageStatus' \in {"none", "busy", "idle"}
    BY <1>1, <1>3 DEF PageInv, PageTypes
  <2> QED BY <1>1, <1>2, <1>5, <1>6, <2>1, <2>2 DEF PageInv, PageTypes, ReplyTyped, IsSeq
<1>8. Numbers'
  <2>1. Later(events', {"idle"}, 0) <= idles
    BY <1>2, <1>3
  <2> QED BY <1>1, <1>2, <1>3, <1>4, <1>5, <2>1 DEF Numbers
<1>9. pageStatus' = "busy" => e.type = "busy"
  BY <1>1 DEF PageInv, PageTypes
<1>10. e.type = "busy" /\ ~behind /\ run = "none" => pageSeen < idles
  <2> SUFFICES ASSUME e.type = "busy", ~behind, run = "none" PROVE pageSeen < idles
    OBVIOUS
  <2>1. CASE ~joined
    <3>1. e \in In(events)
      BY <1>2
    <3> QED BY <2>1, <3>1 DEF PageInv, Followed
  <2>2. CASE joined
    <3>1. IsSeq(events) /\ IdleFollows(events) /\ e \in In(events)
      BY <1>2, <2>2 DEF PageInv, PageTypes, Followed
    <3>2. Later(events, {"idle"}, 0) > 0
      BY <3>1, IdleFollowsOn DEF Gates
    <3> QED BY <1>2, <1>3, <2>2, <3>2
  <2> QED BY <2>1, <2>2
<1>11. Followed'
  <2>1. e.type = "busy" => pageSeen' = pageSeen /\ behind' = behind
    BY <1>1
  <2>2. e.type = "idle" /\ ~behind' => viewing
    BY <1>1
  <2>3. pageStatus' = "busy" /\ ~behind' /\ pageSeen' = idles => run # "none"
    BY <1>3, <1>9, <1>10, <2>1
  <2>4. ~joined /\ ~behind' /\ run = "none" /\ (\E x \in In(events') : x.type = "busy") => pageSeen' < idles
    <3>1. ~joined /\ ~behind' => pageSeen' = pageSeen /\ behind' = behind
      BY <1>2, <2>1, <2>2
    <3> QED BY <1>2, <3>1 DEF PageInv, Followed
  <2> QED BY <1>1, <1>2, <2>3, <2>4 DEF Followed, In, IdleFollows
<1>12. Fresh'
  <2>1. unread' => pageStatus' = "idle"
    BY <1>1
  <2>2. viewing /\ pageStatus' = "none" => "sessions" \in In(gets') \/ \E r \in In(replies) : r.kind = "sessions"
    BY <1>1, <1>6 DEF PageInv, Fresh
  <2>3. CASE e.type = "idle"
    BY <1>1, <1>6, <1>9, <2>1, <2>2, <2>3 DEF Fresh
  <2>4. CASE e.type = "busy"
    <3>1. ~(viewing /\ ~behind' /\ pageSeen' = idles /\ run = "none")
      BY <1>1, <1>3, <1>10, <2>4
    <3> QED BY <1>1, <2>1, <2>2, <3>1 DEF Fresh
  <2> QED BY <2>3, <2>4
<1>13. Asking'
  BY <1>1, <1>2, <1>4, AskingStays
<1>14. \A r \in In(replies) : Promised(r)'
  <2>1. viewing => told' = gates - Later(events', Gates, 0)
    BY <1>1, <1>3, <1>4
  <2> QED BY <1>1, <2>1, PromisesKept
<1> QED BY <1>1, <1>2, <1>7, <1>8, <1>11, <1>12, <1>13, <1>14 DEF PageInv

LEMMA GateIsTold ==
  ASSUME PageInv, events # <<>>, events' = Tail(events), NEW e, e = Head(events), e.type \in Gates,
         View!Gate(e), UNCHANGED <<replies, viewing>>, UNCHANGED View!serverVars
  PROVE  PageInv'
<1>1. /\ asked' = (IF ~viewing THEN asked ELSE IF e.type = "required" THEN asked \cup {e.q} ELSE asked \ {e.q})
      /\ told' = gates - View!GatesIn(Tail(events)) /\ late' = (late \/ ~viewing)
      /\ UNCHANGED <<shown, pageStatus, unread, pageSeen, behind, gets>>
      /\ UNCHANGED <<rows, busy, asks, news, run, owed, idles, gates, joined, replies, viewing>>
  BY DEF View!Gate, View!serverVars
<1>2. /\ IsSeq(events') /\ In(events) = In(events') \cup {e} /\ (viewing <=> joined) /\ EventTyped(e)
      /\ View!GatesIn(Tail(events)) = Later(events', Gates, 0) /\ Later(events', Gates, 0) \in Nat
      /\ Later(events', {"idle"}, 0) \in Nat
      /\ Later(events, {"idle"}, 0) = Later(events', {"idle"}, 0) + (IF e.type = "idle" THEN 1 ELSE 0)
      /\ Later(events, Gates, 0) = Later(events', Gates, 0) + (IF e.type \in Gates THEN 1 ELSE 0)
      /\ RowsTyped' /\ Progress' /\ Answering' /\ (joined /\ run = "none" => IdleFollows(events'))
      /\ \A r \in In(replies) : Snapped(r)'
  BY <1>1, QueueShrinks
<1>3. /\ idles \in Nat /\ gates \in Nat /\ pageSeen \in Nat /\ told \in Nat /\ pageSeen <= idles /\ told <= gates
      /\ Later(events, {"idle"}, 0) <= idles /\ Later(events, Gates, 0) <= gates
      /\ (viewing => pageSeen = idles - Later(events, {"idle"}, 0) /\ told = gates - Later(events, Gates, 0))
      /\ (~joined => late) /\ late \in BOOLEAN
  BY DEF PageInv, PageTypes, Numbers
<1>4. Later(events', {"idle"}, 0) = Later(events, {"idle"}, 0)
  BY <1>2 DEF Gates
<1>5. PICK p \in Questions : e = Required(p) \/ e = Resolved(p)
  BY <1>2 DEF EventTyped
<1>6. /\ e.q = p /\ (e.type = "required" <=> e = Required(p))
      /\ \A q \in Questions : (e = Required(q) \/ e = Resolved(q)) => q = p
      /\ Required(p) # Resolved(p)
  BY <1>5 DEF Required, Resolved
<1>7. told' \in Nat /\ told' <= gates /\ told' = gates - Later(events', Gates, 0)
  BY <1>1, <1>2, <1>3
<1>8. PageTypes'
  <2>1. EventTyped(owed)' /\ \A x \in In(events') : EventTyped(x)'
    BY <1>1, <1>2 DEF PageInv, PageTypes, EventTyped
  <2>2. asked' \subseteq Questions
    BY <1>1, <1>6 DEF PageInv, PageTypes
  <2>3. late' \in BOOLEAN
    BY <1>1, <1>3
  <2> QED BY <1>1, <1>2, <1>7, <2>1, <2>2, <2>3 DEF PageInv, PageTypes, ReplyTyped, IsSeq
<1>9. Numbers'
  <2>1. Later(events', Gates, 0) <= gates
    BY <1>2, <1>3
  <2> QED BY <1>1, <1>2, <1>3, <1>4, <1>7, <2>1 DEF Numbers
<1>10. Followed'
  BY <1>1, <1>2 DEF PageInv, Followed, In, IdleFollows
<1>11. Fresh'
  BY <1>1 DEF PageInv, Fresh
<1>12. Asking'
  <2> SUFFICES ASSUME viewing, ~late PROVE Good(asked, In(events))'
    BY <1>1 DEF Asking
  <2>1. Good(asked, In(events))
    BY DEF PageInv, Asking
  <2>2. IsSeq(events) /\ \A q \in Questions : asks[q] = "answered" => ResolvedFollows(events, q)
    BY DEF PageInv, PageTypes, Answering
  <2>3. CASE e = Required(p)
    <3>1. asked' = asked \cup {p}
      BY <1>1, <1>6, <2>3
    <3>2. asks[p] # "none"
      BY <1>2, <2>3 DEF PageInv, Answering
    <3>3. asks[p] = "answered" => Resolved(p) \in In(events')
      BY <2>2, <2>3, ResolvedFollowsOn
    <3>4. \A q \in Questions : /\ q # p => (Required(q) \in In(events') <=> Required(q) \in In(events))
                               /\ q # p => (Resolved(q) \in In(events') <=> Resolved(q) \in In(events))
      BY <1>2, <1>6
    <3>5. \A q \in Questions : (q \in asked' <=> q \in asked \/ q = p) /\ asks'[q] = asks[q] /\ owed' = owed
      BY <1>1, <3>1
    <3>6. In(events)' = In(events')
      BY DEF In
    <3> QED BY <2>1, <3>2, <3>3, <3>4, <3>5, <3>6 DEF Good
  <2>4. CASE e = Resolved(p)
    <3>1. asked' = asked \ {p}
      BY <1>1, <1>6, <2>4
    <3>2. asks[p] \in {"answered", "early"}
      BY <1>2, <2>4 DEF PageInv, Answering
    <3>3. \A q \in Questions : /\ q # p => (Required(q) \in In(events') <=> Required(q) \in In(events))
                               /\ q # p => (Resolved(q) \in In(events') <=> Resolved(q) \in In(events))
      BY <1>2, <1>6
    <3>4. \A q \in Questions : (q \in asked' <=> q \in asked /\ q # p) /\ asks'[q] = asks[q] /\ owed' = owed
      BY <1>1, <3>1
    <3>5. In(events)' = In(events')
      BY DEF In
    <3> QED BY <2>1, <3>2, <3>3, <3>4, <3>5 DEF Good
  <2> QED BY <1>5, <2>3, <2>4
<1>13. \A r \in In(replies) : Promised(r)'
  BY <1>1, <1>7, PromisesKept
<1> QED BY <1>1, <1>2, <1>8, <1>9, <1>10, <1>11, <1>12, <1>13 DEF PageInv

LEMMA PartIsTold ==
  ASSUME PageInv, events # <<>>, events' = Tail(events), NEW e, e = Head(events),
         e.type \notin {"busy", "idle"} \cup Gates,
         \/ viewing /\ View!PartUpdated(e)
         \/ ~viewing /\ UNCHANGED <<shown, pageStatus, asked, unread, pageSeen, behind, told, late, gets>>,
         UNCHANGED <<replies, viewing>>, UNCHANGED View!serverVars
  PROVE  PageInv'
<1>1. /\ (~viewing => shown' = shown) /\ (gets' = gets \/ gets' = Append(gets, "parts"))
      /\ UNCHANGED <<pageStatus, asked, unread, pageSeen, behind, told, late>>
      /\ UNCHANGED <<rows, busy, asks, news, run, owed, idles, gates, joined, replies, viewing>>
  BY DEF View!PartUpdated, View!serverVars
<1>2. /\ IsSeq(events') /\ In(events) = In(events') \cup {e} /\ (viewing <=> joined)
      /\ Later(events', {"idle"}, 0) \in Nat /\ Later(events', Gates, 0) \in Nat
      /\ Later(events, {"idle"}, 0) = Later(events', {"idle"}, 0) + (IF e.type = "idle" THEN 1 ELSE 0)
      /\ Later(events, Gates, 0) = Later(events', Gates, 0) + (IF e.type \in Gates THEN 1 ELSE 0)
      /\ RowsTyped' /\ Progress' /\ Answering' /\ (joined /\ run = "none" => IdleFollows(events'))
      /\ \A r \in In(replies) : Snapped(r)'
  BY <1>1, QueueShrinks
<1>3. Later(events', {"idle"}, 0) = Later(events, {"idle"}, 0) /\ Later(events', Gates, 0) = Later(events, Gates, 0)
  BY <1>2
<1>4. IsSeq(gets') /\ In(gets) \subseteq In(gets')
  <2>1. IsSeq(gets)
    BY DEF PageInv, PageTypes
  <2>2. CASE gets' = gets
    BY <2>1, <2>2
  <2>3. CASE gets' = Append(gets, "parts")
    BY <2>1, <2>3, InAppended
  <2> QED BY <1>1, <2>2, <2>3
<1>5. PageTypes'
  <2>1. EventTyped(owed)' /\ \A x \in In(events') : EventTyped(x)'
    BY <1>1, <1>2 DEF PageInv, PageTypes, EventTyped
  <2> QED BY <1>1, <1>2, <1>4, <2>1 DEF PageInv, PageTypes, ReplyTyped, IsSeq
<1>6. Numbers'
  <2>1. Numbers /\ viewing' = viewing /\ joined' = joined /\ late' = late
    BY <1>1 DEF PageInv
  <2> QED BY <1>1, <1>2, <1>3, <2>1 DEF Numbers
<1>7. Followed'
  BY <1>1, <1>2 DEF PageInv, Followed, In, IdleFollows
<1>8. Fresh'
  <2>1. viewing /\ pageSeen = idles => run # "none"
    <3> SUFFICES ASSUME viewing, run = "none" PROVE pageSeen # idles
      OBVIOUS
    <3>1. IsSeq(events) /\ IdleFollows(events) /\ e \in In(events) /\ idles \in Nat
          /\ pageSeen = idles - Later(events, {"idle"}, 0)
      BY <1>2 DEF PageInv, PageTypes, Followed, Numbers
    <3>2. Later(events, {"idle"}, 0) > 0
      BY <3>1, IdleFollowsOn
    <3> QED BY <1>2, <1>3, <3>1, <3>2
  <2> QED BY <1>1, <1>4, <2>1 DEF PageInv, Fresh
<1>9. Asking'
  BY <1>1, <1>2, AskingStays
<1>10. \A r \in In(replies) : Promised(r)'
  <2>1. viewing => told' = gates - Later(events', Gates, 0)
    BY <1>1, <1>3 DEF PageInv, Numbers
  <2> QED BY <1>1, <2>1, PromisesKept
<1> QED BY <1>1, <1>2, <1>5, <1>6, <1>7, <1>8, <1>9, <1>10 DEF PageInv

-----------------------------------------------------------------------------
(* The page takes a reply.                                                     *)
LEMMA ReplyIsTaken ==
  ASSUME PageInv, NEW r \in In(replies), IsSeq(replies'), In(replies') \subseteq In(replies),
         UNCHANGED <<events, viewing, pageSeen, told>>, UNCHANGED View!serverVars,
         asked' \subseteq Questions, unread' \in BOOLEAN, behind' \in BOOLEAN, late' \in BOOLEAN,
         ~joined => late', pageStatus' \in {"none", "busy", "idle"}, IsSeq(gets')
  PROVE  /\ RowsTyped' /\ PageTypes' /\ Numbers' /\ Progress' /\ Answering'
         /\ \A x \in In(replies') : Snapped(x)' /\ Promised(x)'
<1>1. UNCHANGED <<rows, busy, asks, news, run, owed, idles, gates, joined, events, viewing, pageSeen, told>>
  BY DEF View!serverVars
<1>2. replies # <<>>
  BY InEmpty
<1>3. viewing \/ ~joined
  BY <1>2 DEF PageInv, Numbers, Untouched
<1>4. RowsTyped' /\ View!Runs' = View!Runs
  BY <1>1 DEF PageInv, RowsTyped, MessageTyped, View!Runs
<1>5. PageTypes'
  BY <1>1 DEF PageInv, PageTypes, EventTyped, ReplyTyped
<1>6. Numbers'
  BY <1>1, <1>3 DEF PageInv, Numbers
<1>7. Progress'
  BY <1>1, <1>4 DEF PageInv, Progress
<1>8. Answering'
  BY <1>1 DEF PageInv, Answering, In
<1>9. \A x \in In(replies) : Snapped(x)'
  BY <1>1 DEF PageInv, Snapped
<1>10. \A x \in In(replies) : Promised(x)'
  <2>1. \A A, W : Good(A, W) => Good(A, W)'
    BY <1>1 DEF Good
  <2> QED BY <1>1, <2>1 DEF PageInv, Promised
<1> QED BY <1>4, <1>5, <1>6, <1>7, <1>8, <1>9, <1>10

LEMMA ReplyIsRead ==
  ASSUME PageInv, NEW i \in DOMAIN replies, View!Reply(i) PROVE PageInv'
<1> PICK r : r = replies[i]
  OBVIOUS
<1>1. /\ replies' = View!RemoveAt(replies, i)
      /\ behind' = (behind \/ (r.kind # "answered" /\ r.idles < pageSeen))
      /\ UNCHANGED <<events, viewing, pageSeen, told>> /\ UNCHANGED View!serverVars
      /\ UNCHANGED <<rows, busy, asks, news, run, owed, idles, gates, joined>>
  BY DEF View!Reply, View!serverVars
<1>2. \/ /\ r.kind = "parts"
         /\ shown' = (IF pageStatus = "busy" THEN View!Merged(shown, r.msgs) ELSE View!SettledAll(r.msgs))
         /\ asked' = r.pending /\ late' = (r.gates < told \/ ~viewing)
         /\ UNCHANGED <<pageStatus, unread, gets>>
      \/ /\ r.kind = "sessions"
         /\ pageStatus' = (IF r.busy THEN "busy" ELSE "idle")
         /\ unread' = (r.unread /\ ~viewing)
         /\ gets' = (IF viewing /\ ~r.busy THEN Append(gets, "read") ELSE gets)
         /\ UNCHANGED <<shown, asked, late>>
      \/ /\ r.kind = "sent"
         /\ pageStatus' = (IF r.busy THEN "busy" ELSE "idle") /\ unread' = r.unread
         /\ UNCHANGED <<asked, late, gets>>
      \/ /\ r.kind = "answered" /\ asked' = asked \ {r.q}
         /\ UNCHANGED <<shown, pageStatus, unread, gets, late>>
  BY DEF View!Reply, View!Fetched, View!Listed, View!Sent, View!Answered
<1>3. /\ r \in In(replies) /\ IsSeq(replies') /\ In(replies') \subseteq In(replies)
      /\ In(replies) \subseteq In(replies') \cup {r}
  <2>1. IsSeq(replies) /\ r \in In(replies)
    BY DEF PageInv, PageTypes, In
  <2> QED BY <1>1, <2>1, InRemoved
<1>4. ReplyTyped(r) /\ Snapped(r) /\ Promised(r)
  BY <1>3 DEF PageInv, PageTypes
<1>5. /\ idles \in Nat /\ pageSeen \in Nat /\ pageSeen <= idles /\ gates \in Nat /\ told \in Nat
      /\ viewing \in BOOLEAN /\ behind \in BOOLEAN /\ late \in BOOLEAN /\ unread \in BOOLEAN
      /\ pageStatus \in {"none", "busy", "idle"} /\ asked \subseteq Questions /\ IsSeq(gets)
      /\ (viewing => joined) /\ (~joined => late)
  BY DEF PageInv, PageTypes, Numbers
<1>6. IsSeq(gets') /\ In(gets) \subseteq In(gets')
  <2>1. gets' = gets \/ gets' = Append(gets, "read")
    BY <1>2
  <2>2. CASE gets' = gets
    BY <1>5, <2>2
  <2>3. CASE gets' = Append(gets, "read")
    BY <1>5, <2>3, InAppended
  <2> QED BY <2>1, <2>2, <2>3
<1>7. /\ asked' \subseteq Questions /\ unread' \in BOOLEAN /\ behind' \in BOOLEAN /\ late' \in BOOLEAN
      /\ (~joined => late') /\ pageStatus' \in {"none", "busy", "idle"}
  <2>1. behind' \in BOOLEAN
    BY <1>1, <1>5
  <2>2. asked' \subseteq Questions
    BY <1>2, <1>4, <1>5 DEF ReplyTyped
  <2>3. unread' \in BOOLEAN /\ pageStatus' \in {"none", "busy", "idle"}
    BY <1>2, <1>4, <1>5 DEF ReplyTyped
  <2>4. late' \in BOOLEAN /\ (~joined => late')
    BY <1>2, <1>5
  <2> QED BY <2>1, <2>2, <2>3, <2>4
<1>8. /\ RowsTyped' /\ PageTypes' /\ Numbers' /\ Progress' /\ Answering'
      /\ \A x \in In(replies') : Snapped(x)' /\ Promised(x)'
  BY <1>1, <1>3, <1>6, <1>7, ReplyIsTaken
<1>9. /\ ~behind' => ~behind
      /\ ~behind' /\ r.kind # "answered" /\ pageSeen = idles => r.idles = idles
  <2>1. r.kind # "answered" => r.idles \in Int /\ r.idles <= idles
    BY <1>4 DEF ReplyTyped, Snapped
  <2>2. ~behind' => ~behind /\ ~(r.kind # "answered" /\ r.idles < pageSeen)
    BY <1>1
  <2>3. r.kind # "answered" /\ ~(r.idles < pageSeen) /\ pageSeen = idles => r.idles = idles
    BY <1>5, <2>1
  <2> QED BY <2>2, <2>3
<1>10. ~behind' /\ pageSeen = idles /\ run = "none" =>
         /\ r.kind # "sent" /\ (r.kind = "sessions" => ~r.busy) /\ (r.kind = "parts" => r.msgs = rows)
  BY <1>4, <1>9 DEF Snapped
<1>11. Followed'
  <2>1. pageStatus' = "busy" /\ ~behind' /\ pageSeen = idles => run # "none"
    BY <1>2, <1>9, <1>10 DEF PageInv, Followed
  <2> QED BY <1>1, <1>9, <2>1 DEF PageInv, Followed, In, IdleFollows
<1>12. Fresh'
  <2>1. unread' => pageStatus' = "idle"
    BY <1>2, <1>4 DEF PageInv, Fresh, Snapped
  <2>2. viewing /\ pageStatus' = "none" => "sessions" \in In(gets') \/ \E x \in In(replies') : x.kind = "sessions"
    BY <1>2, <1>3, <1>6 DEF PageInv, Fresh
  <2>3. ASSUME viewing, ~behind', pageSeen = idles, run = "none"
        PROVE  /\ ~unread' /\ pageStatus' # "busy"
               /\ \/ "parts" \in In(gets')
                  \/ \E x \in In(replies') : x.kind = "parts" /\ x.idles = idles
                  \/ shown' = View!SettledAll(rows)
    <3>1. /\ ~unread /\ pageStatus # "busy"
          /\ \/ "parts" \in In(gets)
             \/ \E x \in In(replies) : x.kind = "parts" /\ x.idles = idles
             \/ shown = View!SettledAll(rows)
      BY <1>9, <2>3 DEF PageInv, Fresh
    <3>2. ~unread' /\ pageStatus' # "busy"
      <4>1. r.kind # "sent" /\ (r.kind = "sessions" => ~r.busy)
        BY <1>10, <2>3
      <4>2. CASE r.kind = "sessions"
        BY <1>2, <2>3, <4>1, <4>2
      <4>3. CASE r.kind # "sessions"
        BY <1>2, <3>1, <4>1, <4>3
      <4> QED BY <4>2, <4>3
    <3>3. CASE r.kind = "parts"
      BY <1>2, <1>10, <2>3, <3>1, <3>2, <3>3
    <3>4. CASE r.kind \in {"sessions", "answered"}
      <4>1. shown' = shown
        BY <1>2, <3>4
      <4> QED BY <1>3, <1>6, <3>1, <3>2, <3>4, <4>1
    <3> QED BY <1>2, <1>10, <2>3, <3>3, <3>4
  <2> QED BY <1>1, <2>1, <2>2, <2>3 DEF Fresh
<1>13. Asking'
  <2> SUFFICES ASSUME viewing, ~late' PROVE Good(asked, In(events))'
    BY <1>1 DEF Asking
  <2>1. /\ In(events)' = In(events) /\ \A A, W, B, V : Good(A, W) /\ W \subseteq V /\ asked' = A /\ V = In(events)
                                       => Good(asked, In(events))'
    BY <1>1 DEF Good, In
  <2>2. CASE r.kind = "parts"
    <3>1. asked' = r.pending /\ r.gates \in Nat /\ ~(r.gates < told)
      BY <1>2, <1>4, <2>2 DEF ReplyTyped
    <3>2. Good(r.pending, Coming(events, gates, r.gates))
      BY <1>4, <1>5, <2>2, <3>1 DEF Promised
    <3>3. Coming(events, gates, r.gates) \subseteq In(events)
      BY ComingIn DEF In
    <3> QED BY <2>1, <3>1, <3>2, <3>3
  <2>3. CASE r.kind = "answered"
    <3>1. asked' = asked \ {r.q} /\ asks[r.q] \in {"answered", "early"} /\ late' = late
      BY <1>2, <1>4, <2>3 DEF Promised
    <3>2. Good(asked, In(events))
      BY <3>1 DEF PageInv, Asking
    <3>3. Good(asked \ {r.q}, In(events))
      BY <3>1, <3>2 DEF Good
    <3> QED BY <2>1, <3>1, <3>3
  <2>4. CASE r.kind \in {"sessions", "sent"}
    <3>1. asked' = asked /\ late' = late
      BY <1>2, <2>4
    <3>2. Good(asked, In(events))
      BY <3>1 DEF PageInv, Asking
    <3> QED BY <2>1, <3>1, <3>2
  <2> QED BY <1>2, <2>2, <2>3, <2>4
<1> QED BY <1>8, <1>11, <1>12, <1>13 DEF PageInv

LEMMA EventIsRead ==
  ASSUME PageInv, View!DeliverEvent PROVE PageInv'
<1> PICK e : e = Head(events)
  OBVIOUS
<1>1. /\ events # <<>> /\ events' = Tail(events)
      /\ UNCHANGED <<replies, viewing>> /\ UNCHANGED View!serverVars
      /\ e.type \in {"busy", "idle"} => View!StatusChanged(e)
      /\ e.type \in Gates => View!Gate(e)
      /\ e.type \notin {"busy", "idle"} \cup Gates =>
           \/ viewing /\ View!PartUpdated(e)
           \/ ~viewing /\ UNCHANGED <<shown, pageStatus, asked, unread, pageSeen, behind, told, late, gets>>
  BY DEF View!DeliverEvent, Gates
<1>2. CASE e.type \in {"busy", "idle"}
  BY <1>1, <1>2, StatusIsTold
<1>3. CASE e.type \in Gates
  BY <1>1, <1>3, GateIsTold
<1>4. CASE e.type \notin {"busy", "idle"} \cup Gates
  BY <1>1, <1>4, PartIsTold
<1> QED BY <1>2, <1>3, <1>4

LEMMA AnswerIsTaken ==
  ASSUME PageInv, View!ViewAssumption, View!TakeAnswer PROVE PageInv'
<1> PICK q : q = Head(gets)
  OBVIOUS
<1>1. /\ gets # <<>> /\ gets' = Tail(gets)
      /\ \/ q \in View!pending /\ View!Resolve(q) /\ replies' = Append(replies, [kind |-> "answered", q |-> q])
         \/ q \in Questions /\ UNCHANGED <<events, replies>> /\ UNCHANGED View!serverVars /\ UNCHANGED View!pageVars
  BY DEF View!TakeAnswer
<1>2. q \in Questions
  BY <1>1 DEF View!pending
<1>3. CASE View!Resolve(q) /\ replies' = Append(replies, [kind |-> "answered", q |-> q])
  BY <1>1, <1>2, <1>3, RequestIsResolved
<1>4. CASE UNCHANGED <<events, replies>> /\ UNCHANGED View!serverVars /\ UNCHANGED View!pageVars
  <2>1. UNCHANGED <<rows, busy, asks, news, run, owed, idles, gates, joined, events, replies>>
    BY <1>4 DEF View!serverVars
  <2> QED BY <1>1, <1>2, <1>4, <2>1, ViewRequests
<1> QED BY <1>1, <1>3, <1>4

-----------------------------------------------------------------------------
(* The page begins in the invariant, and every step keeps it.                  *)
LEMMA PageBegins == View!Init => PageInv
<1> SUFFICES ASSUME View!Init PROVE PageInv
  OBVIOUS
<1>1. /\ rows = <<>> /\ busy = FALSE /\ asks = [q \in Questions |-> "none"] /\ news = FALSE
      /\ run = "none" /\ owed = View!Nothing /\ idles = 0 /\ gates = 0 /\ joined = TRUE
      /\ events = <<>> /\ gets = <<>> /\ replies = <<>>
      /\ shown = <<>> /\ pageStatus = "none" /\ asked = {} /\ viewing = FALSE
      /\ unread = FALSE /\ pageSeen = 0 /\ behind = FALSE /\ told = 0 /\ late = FALSE
  BY DEF View!Init
<1>2. /\ IsSeq(rows) /\ IsSeq(events) /\ IsSeq(gets) /\ IsSeq(replies)
      /\ In(events) = {} /\ In(replies) = {} /\ DOMAIN rows = {} /\ Len(rows) = 0
  BY <1>1, InEmpty
<1>3. RowsTyped
  BY <1>2 DEF RowsTyped
<1>4. PageTypes
  <2>1. EventTyped(owed)
    BY <1>1 DEF EventTyped, View!Nothing, Gates
  <2> QED BY <1>1, <1>2, <2>1 DEF PageTypes
<1>5. Numbers
  <2>1. Untouched
    BY <1>1 DEF Untouched
  <2> QED BY <1>1, <2>1, NoneLater DEF Numbers
<1>6. Progress
  <2>1. View!Runs = 0
    <3>1. {k \in DOMAIN rows : rows[k].role = "user"} = {}
      BY <1>2
    <3>2. View!Runs = View!Cardinality({})
      BY <3>1 DEF View!Runs
    <3> QED BY <3>2, Counted, FS_EmptySet
  <2> QED BY <1>1, <2>1 DEF Progress, View!Nothing
<1>7. Followed
  BY <1>1, <1>2 DEF Followed, IdleFollows
<1>8. Fresh
  BY <1>1 DEF Fresh
<1>9. Answering
  <2>1. \A q \in Questions : owed # Required(q) /\ asks[q] = "none"
    BY <1>1 DEF Required, View!Nothing
  <2> QED BY <1>1, <1>2, <2>1 DEF Answering
<1>10. Asking
  BY <1>1 DEF Asking
<1> QED BY <1>2, <1>3, <1>4, <1>5, <1>6, <1>7, <1>8, <1>9, <1>10 DEF PageInv

LEMMA PageKept == View!ViewAssumption /\ PageInv /\ [View!Next]_pageVars => PageInv'
<1> SUFFICES ASSUME View!ViewAssumption, PageInv, [View!Next]_pageVars PROVE PageInv'
  OBVIOUS
<1>1. CASE View!TakeMessage
  BY <1>1, PromptIsTaken
<1>2. CASE View!Serve
  BY <1>2, SnapshotIsRead
<1>3. CASE View!TakeRead \/ View!Send \/ \E q \in Questions : View!Answer(q)
  BY <1>3, ViewRequests
<1>4. CASE View!TakeAnswer
  BY <1>4, AnswerIsTaken
<1>5. CASE View!OtherAnswers
  BY <1>5, RequestIsResolved DEF View!OtherAnswers
<1>6. CASE View!WriteStep
  BY <1>6, RowIsWritten
<1>7. ASSUME NEW q \in Questions, View!Ask(q) PROVE PageInv'
  BY <1>7, RequestIsMade
<1>8. CASE View!Emit
  BY <1>8, EventIsEmitted
<1>9. CASE View!Complete \/ View!MarkIdle
  BY <1>9, RunIsOver
<1>10. CASE View!Open
  BY <1>10, PageIsOpened
<1>11. CASE View!DeliverEvent
  BY <1>11, EventIsRead
<1>12. ASSUME NEW i \in DOMAIN replies, View!Reply(i) PROVE PageInv'
  BY <1>12, ReplyIsRead
<1>13. CASE View!Leave
  BY <1>13, PageIsLeft
<1>14. CASE View!Disconnect
  BY <1>14, ConnectionIsLost
<1>15. CASE UNCHANGED pageVars
  <2>1. UNCHANGED <<rows, busy, asks, news, run, owed, idles, gates, joined, events, gets, replies, shown,
                    pageStatus, asked, viewing, unread, pageSeen, behind, told, late>>
    BY <1>15 DEF pageVars
  <2>2. RowsTyped' /\ View!Runs' = View!Runs
    BY <2>1 DEF PageInv, RowsTyped, MessageTyped, View!Runs
  <2>3. PageTypes'
    BY <2>1 DEF PageInv, PageTypes, EventTyped, ReplyTyped
  <2>4. Numbers' /\ Fresh'
    BY <2>1 DEF PageInv, Numbers, Untouched, Fresh
  <2>5. Progress' /\ Followed'
    BY <2>1, <2>2 DEF PageInv, Progress, Followed
  <2>6. Answering' /\ Asking'
    BY <2>1 DEF PageInv, Answering, Asking, Good
  <2>7. \A r \in In(replies) : Snapped(r)' /\ Promised(r)'
    BY <2>1 DEF PageInv, Snapped, Promised, Good
  <2> QED BY <2>1, <2>2, <2>3, <2>4, <2>5, <2>6, <2>7 DEF PageInv, In
<1> QED BY <1>1, <1>2, <1>3, <1>4, <1>5, <1>6, <1>7, <1>8, <1>9, <1>10, <1>11, <1>12, <1>13, <1>14, <1>15
        DEF View!Next, View!Server, View!Page, View!DeliverReply

(* When all has arrived, the invariant says what the page shows and asks.      *)
LEMMA PageShown == PageInv => PageCatchesUp
<1> SUFFICES ASSUME PageInv PROVE View!CatchesUp /\ View!PromptsCatchUp
  BY DEF PageCatchesUp
<1>1. /\ View!Arrived => /\ owed = View!Nothing /\ In(events) = {} /\ In(gets) = {} /\ In(replies) = {}
                         /\ events = <<>>
  BY InEmpty DEF View!Arrived
<1>2. View!CatchesUp
  <2> SUFFICES ASSUME View!Arrived, run = "none", viewing, ~behind
               PROVE  shown = View!SettledAll(rows) /\ pageStatus = "idle" /\ ~unread
    BY DEF View!CatchesUp
  <2>1. pageSeen = idles
    <3>1. pageSeen = idles - Later(events, {"idle"}, 0) /\ idles \in Nat
      BY DEF PageInv, PageTypes, Numbers
    <3> QED BY <1>1, <3>1, NoneLater
  <2> QED BY <1>1, <2>1 DEF PageInv, PageTypes, Fresh
<1>3. View!PromptsCatchUp
  <2> SUFFICES ASSUME View!Arrived, viewing, ~late
               PROVE  asked \ {q \in Questions : asks[q] = "early"} = View!pending
    BY DEF View!PromptsCatchUp
  <2>1. Good(asked, {}) /\ asked \subseteq Questions
        /\ asks \in [Questions -> {"none", "pending", "answered", "early"}]
    BY <1>1 DEF PageInv, PageTypes, Asking
  <2>2. \A q \in Questions : owed # Required(q)
    BY <1>1 DEF View!Nothing, Required
  <2> QED BY <2>1, <2>2 DEF Good, View!pending
<1> QED BY <1>2, <1>3

LEMMA PageTyped == PageInv => View!TypeOK
<1> SUFFICES ASSUME PageInv PROVE View!TypeOK
  OBVIOUS
<1>1. /\ idles \in Nat /\ gates \in Nat /\ pageSeen \in Nat /\ told \in Nat /\ pageSeen <= idles /\ told <= gates
  BY DEF PageInv, PageTypes, Numbers
<1>2. pageSeen \in 0..idles /\ told \in 0..gates
  BY <1>1
<1>3. \A i \in DOMAIN rows : rows[i].role = (IF i % 2 = 1 THEN "user" ELSE "assistant")
  BY DEF PageInv, RowsTyped
<1>4. run = "none" => owed = View!Nothing
  BY DEF PageInv, Progress
<1> QED BY <1>2, <1>3, <1>4 DEF PageInv, PageTypes, View!TypeOK

(* Whatever order events, snapshots and answers reach the page in, with         *)
(* connections lost and pages left and opened again, once all has arrived the   *)
(* page shows the stored messages of a finished run, its session idle and read, *)
(* and asks what is pending and nothing else (SessionView names the exceptions, *)
(* which are the code's). For any number of runs, prompts and faults.           *)
THEOREM PagesCatchUp == SumSpec => []PageCatchesUp
<1>1. View!ViewAssumption
  BY RunAssumption
<1>2. SumInit => PageInv
  BY PageBegins DEF SumInit
<1>3. PageInv /\ [SumNext]_<<moves, vars, loopVars, pageVars>> => PageInv'
  <2>1. [SumNext]_<<moves, vars, loopVars, pageVars>> => [View!Next]_pageVars
    BY DEF SumNext
  <2> QED BY <1>1, <2>1, PageKept
<1> QED BY <1>2, <1>3, PageShown, PTL DEF SumSpec

(* The variables of the three modules have their types: what a stored turn,     *)
(* a snapshot or a queue may hold, and the phases each part goes through.       *)
THEOREM AllTyped == SumSpec => []TypesOK
<1> DEFINE Step == [SumNext]_<<moves, vars, loopVars, pageVars>>
           Inv == TypeOK /\ LoopInv /\ PageInv
<1>1. Loop!LoopAssumption /\ View!ViewAssumption
  BY RunAssumption
<1>2. SumInit => Inv
  BY <1>1, TypesKept, LoopBegins, PageBegins DEF SumInit
<1>3. Inv /\ Step => Inv'
  <2>1. Step => [Next]_vars /\ [Loop!Next]_loopVars /\ [View!Next]_pageVars
    BY DEF SumNext
  <2> QED BY <1>1, <2>1, TypesKept, LoopKept, PageKept
<1>4. Inv => TypesOK
  BY LoopTyped, PageTyped DEF TypesOK
<1> QED BY <1>2, <1>3, <1>4, PTL DEF SumSpec
==============================================================================
