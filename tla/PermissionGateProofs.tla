------------------------ MODULE PermissionGateProofs ------------------------
(****************************************************************************)
(* Theorems about PermissionGate, for every set of calls, users and aborts  *)
(* and any number of runs: no call is executed without consent, no prompt   *)
(* that was resolved after its future was registered is forgotten, and an   *)
(* abort leaves no prompt of the runs it cancelled.                         *)
(****************************************************************************)
EXTENDS MCConsent, TLAPS

Active(r) == run[r] \in {"on", "cancelled"}
Allowed(c) == \E u \in Users : Allows(u, c)

(* Runs follow one another, and a call waits within its run.                *)
OneByOne == \A q, r \in 1..Runs : q < r /\ run[r] # "off" => run[q] = "over"
WaitsInRun == \A c \in Calls : Waits(c) => Active(RunOf[c])

(* What an answer is about stays, once it was read; the prompts it resolves *)
(* are that one and, of an "always", others of the same tool. An abort has  *)
(* a verdict of its own.                                                    *)
Speaks ==
  /\ \A u \in Users :
       /\ step[u] = "ready" <=> about[u] = None
       /\ step[u] # "joining" /\ verdict[u] \in Verdicts
       /\ step[u] \in {"read", "marked"} => cursor[u] = about[u]
       /\ step[u] \in {"listing", "sweeping", "swept"} => verdict[u] = "always"
       /\ step[u] \in {"sweeping", "swept"} => \A c \in todo[u] : Tool[c] = Tool[about[u]]
       /\ step[u] = "swept" => cursor[u] \in Calls /\ Tool[cursor[u]] = Tool[about[u]]
  /\ \A a \in Aborts : verdict[a] = "abort" /\ step[a] \notin {"read", "marked"}

(* Wherever a grant comes from, it is allowed: the future, or the cache of  *)
(* the run that is active.                                                  *)
GrantsAllowed ==
  /\ \A c \in Calls : future[c] = "allow" => Allowed(c)
  /\ \A c \in Calls : Pair(c) \in once /\ Active(RunOf[c]) => Allowed(c)
  /\ GrantedIsAllowed

(* The runs an abort cancelled are over when it lists the prompts they left *)
(* and stay so; it goes through all of these.                               *)
Sweeps ==
  \A a \in Aborts : step[a] \notin {"ready", "joining"} =>
    /\ \A r \in aborted[a] : run[r] = "over"
    /\ \A c \in Calls : RunOf[c] \in aborted[a] /\ request[c] = "pending" =>
         step[a] = "listing" \/ c \in todo[a]
    /\ step[a] = "done" => todo[a] = {}

Inv ==
  /\ TypeOK /\ OneByOne /\ WaitsInRun /\ Speaks /\ GrantsAllowed /\ ResolvedIsWoken /\ Sweeps
-----------------------------------------------------------------------------
(* Types                                                                    *)

LEMMA InitTyped == Init => TypeOK
  BY RunsAssumption, ActorsAssumption DEF Init, TypeOK, Actors, Verdicts

(* Popping a future keeps the types of the registry and the futures.        *)
LEMMA PopTyped ==
  ASSUME TypeOK, NEW c, NEW v \in Verdicts \cup {"abort"}, Pop(c, v)
  PROVE  /\ registry' \in SUBSET Calls
         /\ future' \in [Calls -> {"open", "allow", "deny", "cancelled"}]
<1>1. OutcomeOf[v] \in {"allow", "deny", "cancelled"}
  BY DEF OutcomeOf, Verdicts
<1> QED BY <1>1 DEF Pop, TypeOK

(* The steps of answers and aborts after their first one keep the types.    *)
LEMMA ProgressTyped ==
  ASSUME TypeOK, NEW x \in Actors, ActorProgress(x)
  PROVE  TypeOK'
<1> USE ActorsAssumption DEF TypeOK, ActorStep, callVars, rowVars
<1>1. CASE MarkAnswered(x)
  BY <1>1 DEF MarkAnswered, Mark, StatusOf
<1>2. CASE WakeAnswered(x)
  BY <1>2, PopTyped DEF WakeAnswered
<1>3. CASE ListSiblings(x)
  <2>1. Siblings(x) \in SUBSET Calls
    BY DEF Siblings
  <2> QED BY <1>3, <2>1 DEF ListSiblings
<1>4. CASE MarkListed(x)
  BY <1>4 DEF MarkListed, Mark, StatusOf
<1>5. CASE WakeListed(x)
  BY <1>5, PopTyped DEF WakeListed
<1>6. CASE SweepEnds(x)
  BY <1>6 DEF SweepEnds
<1>7. CASE Joined(x)
  BY <1>7 DEF Joined
<1>8. CASE ListLeftover(x)
  <2>1. Leftover \in SUBSET Calls
    BY DEF Leftover
  <2> QED BY <1>8, <2>1 DEF ListLeftover
<1> QED BY <1>1, <1>2, <1>3, <1>4, <1>5, <1>6, <1>7, <1>8 DEF ActorProgress

LEMMA StepTyped == TypeOK /\ [Next]_vars => TypeOK'
<1> SUFFICES ASSUME TypeOK, [Next]_vars PROVE TypeOK'
  OBVIOUS
<1> USE RunsAssumption, ActorsAssumption DEF TypeOK
<1>1. ASSUME NEW r \in 1..Runs, StartRun(r) PROVE TypeOK'
  BY <1>1 DEF StartRun, callVars, rowVars, actorVars
<1>2. ASSUME NEW r \in 1..Runs, EndRun(r) PROVE TypeOK'
  BY <1>2 DEF EndRun, callVars, rowVars, actorVars
<1>3. ASSUME NEW c \in Calls, OnceApproved(c) PROVE TypeOK'
  BY <1>3 DEF OnceApproved, GateStep, rowVars, actorVars
<1>4. ASSUME NEW c \in Calls, Ask(c) PROVE TypeOK'
  BY <1>4 DEF Ask, GateStep, actorVars
<1>5. ASSUME NEW c \in Calls, Register(c) PROVE TypeOK'
  BY <1>5 DEF Register, GateStep, actorVars
<1>6. ASSUME NEW c \in Calls, Await(c) PROVE TypeOK'
  BY <1>6 DEF Await, GateStep, rowVars, actorVars
<1>7. ASSUME NEW c \in Calls, Resume(c) PROVE TypeOK'
  <2>1. PICK s \in {"granted", "denied", "cancelled"} : GateStep(c, "waiting", s)
    BY <1>7 DEF Resume
  <2>2. gate' = [gate EXCEPT ![c] = s]
    BY <2>1 DEF GateStep
  <2> QED BY <1>7, <2>2 DEF Resume, actorVars
<1>8. ASSUME NEW c \in Calls, Interrupt(c) PROVE TypeOK'
  BY <1>8 DEF Interrupt, actorVars
<1>9. ASSUME NEW u \in Users, NEW c \in Calls, NEW v \in Verdicts, Answer(u, c, v)
      PROVE TypeOK'
  BY <1>9 DEF Answer, ActorStep, callVars, rowVars, Actors
<1>10. ASSUME NEW a \in Aborts, RequestAbort(a) PROVE TypeOK'
  <2>1. Running \in SUBSET (1..Runs)
    BY DEF Running
  <2> QED BY <1>10, <2>1 DEF RequestAbort, ActorStep, callVars, rowVars, Actors
<1>11. CASE UNCHANGED vars
  BY <1>11 DEF vars, callVars, rowVars, actorVars
<1> QED
  BY <1>1, <1>2, <1>3, <1>4, <1>5, <1>6, <1>7, <1>8, <1>9, <1>10, <1>11, ProgressTyped
  DEF Next, CallProgress

(* The variables have their types, whatever is asked, answered and aborted  *)
(* (harness_service.py, _on_permission, resolve_permission and abort_run).  *)
THEOREM TypeCorrect == Spec => []TypeOK
  BY InitTyped, StepTyped, PTL DEF Spec
-----------------------------------------------------------------------------
(* The inductive invariant, conjunct by conjunct                            *)

LEMMA InitInv == Init => Inv
<1> SUFFICES ASSUME Init PROVE Inv
  OBVIOUS
<1> USE RunsAssumption, ActorsAssumption
<1>1. TypeOK
  BY InitTyped
<1>2. OneByOne
  BY DEF Init, OneByOne
<1>3. WaitsInRun
  BY DEF Init, WaitsInRun, Waits
<1>4. Speaks
  BY DEF Init, Speaks, Actors, Verdicts
<1>5. GrantsAllowed
  BY DEF Init, GrantsAllowed, GrantedIsAllowed
<1>6. ResolvedIsWoken
  BY DEF Init, ResolvedIsWoken
<1>7. Sweeps
  BY DEF Init, Sweeps, Actors
<1> QED BY <1>1, <1>2, <1>3, <1>4, <1>5, <1>6, <1>7 DEF Inv

(* The steps that move a run, and those that move a call.                   *)
LEMMA RunMoves ==
  ASSUME [Next]_vars
  PROVE  \/ run' = run
         \/ \E r \in 1..Runs : StartRun(r) \/ EndRun(r)
         \/ \E a \in Aborts : RequestAbort(a)
  BY DEF Next, vars, OnceApproved, Ask, CallProgress, Register, Await, Resume, Interrupt, Answer,
         ActorProgress, MarkAnswered, WakeAnswered, ListSiblings, MarkListed, WakeListed,
         SweepEnds, Joined, ListLeftover

LEMMA CallMoves ==
  ASSUME [Next]_vars
  PROVE  \/ gate' = gate
         \/ \E c \in Calls : OnceApproved(c) \/ Ask(c) \/ CallProgress(c)
  BY DEF Next, vars, callVars, StartRun, EndRun, Answer, RequestAbort,
         ActorProgress, MarkAnswered, WakeAnswered, ListSiblings, MarkListed, WakeListed,
         SweepEnds, Joined, ListLeftover

LEMMA ActorMoves ==
  ASSUME [Next]_vars
  PROVE  \/ UNCHANGED actorVars
         \/ \E u \in Users, c \in Calls, v \in Verdicts : Answer(u, c, v)
         \/ \E a \in Aborts : RequestAbort(a)
         \/ \E x \in Actors : ActorProgress(x)
  BY DEF Next, vars, actorVars, StartRun, EndRun, OnceApproved, Ask, CallProgress, Register,
         Await, Resume, Interrupt

LEMMA OneByOneKept == Inv /\ [Next]_vars => OneByOne'
<1> SUFFICES ASSUME Inv, [Next]_vars PROVE OneByOne'
  OBVIOUS
<1> USE RunsAssumption DEF OneByOne, Inv, TypeOK
<1>1. CASE run' = run
  BY <1>1
<1>2. ASSUME NEW r \in 1..Runs, StartRun(r) PROVE OneByOne'
  BY <1>2 DEF StartRun
<1>3. ASSUME NEW r \in 1..Runs, EndRun(r) PROVE OneByOne'
  BY <1>3 DEF EndRun
<1>4. ASSUME NEW a \in Aborts, RequestAbort(a) PROVE OneByOne'
  BY <1>4 DEF RequestAbort, Running
<1> QED BY <1>1, <1>2, <1>3, <1>4, RunMoves

(* A run that is active stays so while one of its calls waits; a call comes *)
(* to wait only in a run that is on.                                        *)
LEMMA WaitsInRunKept == Inv /\ [Next]_vars => WaitsInRun'
<1> SUFFICES ASSUME Inv, [Next]_vars, NEW c \in Calls, Waits(c)' PROVE Active(RunOf[c])'
  BY DEF WaitsInRun
<1> USE RunsAssumption DEF Inv, TypeOK, WaitsInRun
<1>1. RunOf[c] \in 1..Runs
  OBVIOUS
<1>2. Active(RunOf[c])
  <2>1. CASE gate'[c] = gate[c]
    BY <2>1 DEF Waits
  <2>2. ASSUME NEW d \in Calls, OnceApproved(d) \/ CallProgress(d) PROVE Active(RunOf[c])
    <3>1. gate'[c] = gate[c] \/ (c = d /\ Waits(c))
      BY <2>2 DEF OnceApproved, CallProgress, Register, Await, Resume, Interrupt, GateStep, Waits
    <3> QED BY <3>1, <2>1
  <2>3. ASSUME NEW d \in Calls, Ask(d) PROVE Active(RunOf[c])
    <3>1. gate'[c] = gate[c] \/ c = d
      BY <2>3 DEF Ask, GateStep
    <3> QED BY <2>3, <3>1, <2>1 DEF Ask, MayCall, Active
  <2> QED BY <2>1, <2>2, <2>3, CallMoves
<1>3. CASE run' = run
  BY <1>2, <1>3 DEF Active
<1>4. ASSUME NEW r \in 1..Runs, StartRun(r) PROVE Active(RunOf[c])'
  BY <1>1, <1>2, <1>4 DEF StartRun, Active
<1>5. ASSUME NEW r \in 1..Runs, EndRun(r) PROVE Active(RunOf[c])'
  <2>1. Waits(c)
    BY <1>5 DEF EndRun, callVars, Waits
  <2> QED BY <1>1, <1>2, <1>5, <2>1 DEF EndRun, Active
<1>6. ASSUME NEW a \in Aborts, RequestAbort(a) PROVE Active(RunOf[c])'
  BY <1>1, <1>2, <1>6 DEF RequestAbort, Running, Active
<1> QED BY <1>3, <1>4, <1>5, <1>6, RunMoves

LEMMA SpeaksKept == Inv /\ [Next]_vars => Speaks'
<1> SUFFICES ASSUME Inv, [Next]_vars PROVE Speaks'
  OBVIOUS
<1> USE ActorsAssumption DEF Speaks, Inv, TypeOK, ActorStep, Actors
<1>1. CASE UNCHANGED actorVars
  BY <1>1 DEF actorVars
<1>2. ASSUME NEW u \in Users, NEW c \in Calls, NEW v \in Verdicts, Answer(u, c, v) PROVE Speaks'
  BY <1>2 DEF Answer
<1>3. ASSUME NEW a \in Aborts, RequestAbort(a) PROVE Speaks'
  BY <1>3 DEF RequestAbort
<1>4. ASSUME NEW x \in Actors, ActorProgress(x) PROVE Speaks'
  <2>1. CASE MarkAnswered(x)
    BY <2>1 DEF MarkAnswered
  <2>2. CASE WakeAnswered(x)
    BY <2>2 DEF WakeAnswered
  <2>3. CASE ListSiblings(x)
    BY <2>3 DEF ListSiblings, Siblings
  <2>4. CASE MarkListed(x)
    BY <2>4 DEF MarkListed
  <2>5. CASE WakeListed(x)
    BY <2>5 DEF WakeListed
  <2>6. CASE SweepEnds(x)
    BY <2>6 DEF SweepEnds
  <2>7. CASE Joined(x)
    BY <2>7 DEF Joined
  <2>8. CASE ListLeftover(x)
    BY <2>8 DEF ListLeftover
  <2> QED BY <1>4, <2>1, <2>2, <2>3, <2>4, <2>5, <2>6, <2>7, <2>8 DEF ActorProgress
<1> QED BY <1>1, <1>2, <1>3, <1>4, ActorMoves
(* An answer allows what it allowed: what it is about and what it says are  *)
(* decided once, when the request is read.                                  *)
LEMMA AllowedStays ==
  ASSUME Inv, [Next]_vars, NEW c \in Calls, Allowed(c)
  PROVE  Allowed(c)'
<1> PICK u \in Users : Allows(u, c)
  BY DEF Allowed
<1> SUFFICES about'[u] = about[u] /\ verdict'[u] = verdict[u]
  BY DEF Allowed, Allows, Pair
<1> USE ActorsAssumption DEF Inv, TypeOK, Actors
<1>1. CASE UNCHANGED actorVars
  BY <1>1 DEF actorVars
<1>2. ASSUME NEW w \in Users, NEW d \in Calls, NEW v \in Verdicts, Answer(w, d, v)
      PROVE about'[u] = about[u] /\ verdict'[u] = verdict[u]
  BY <1>2 DEF Answer, ActorStep, Speaks, Allows
<1>3. ASSUME NEW a \in Aborts, RequestAbort(a)
      PROVE about'[u] = about[u] /\ verdict'[u] = verdict[u]
  BY <1>3 DEF RequestAbort
<1>4. ASSUME NEW x \in Actors, ActorProgress(x)
      PROVE about'[u] = about[u] /\ verdict'[u] = verdict[u]
  BY <1>4 DEF ActorProgress, MarkAnswered, WakeAnswered, ListSiblings, MarkListed, WakeListed,
              SweepEnds, Joined, ListLeftover
<1> QED BY <1>1, <1>2, <1>3, <1>4, ActorMoves

(* A future comes to allow its call only when an answer that allows it pops *)
(* it: the prompt's own, or an "always" for its tool.                       *)
LEMMA FuturesAllowed ==
  ASSUME Inv, [Next]_vars, NEW c \in Calls, future'[c] = "allow"
  PROVE  Allowed(c)
<1> USE ActorsAssumption DEF Inv, TypeOK
<1>1. CASE future'[c] = future[c]
  BY <1>1 DEF GrantsAllowed
<1>2. ASSUME NEW d \in Calls, CallProgress(d) PROVE Allowed(c)
  <2>1. future'[c] = future[c] \/ future'[c] = "open"
    BY <1>2 DEF CallProgress, Register, Await, Resume, Interrupt, rowVars
  <2> QED BY <2>1, <1>1
<1>3. ASSUME NEW x \in Actors, WakeAnswered(x) \/ WakeListed(x) PROVE Allowed(c)
  <2>1. Pop(cursor[x], verdict[x]) /\ step[x] \in {"marked", "swept"}
    BY <1>3 DEF WakeAnswered, WakeListed, ActorStep
  <2>2. CASE future'[c] # future[c]
    <3>1. c = cursor[x] /\ OutcomeOf[verdict[x]] = "allow"
      BY <2>1, <2>2 DEF Pop
    <3>2. x \in Users /\ verdict[x] \in {"once", "always"}
      BY <3>1 DEF Speaks, OutcomeOf, Actors, Verdicts
    <3>3. Allows(x, c)
      BY <2>1, <3>1, <3>2 DEF Speaks, Allows, Pair
    <3> QED BY <3>2, <3>3 DEF Allowed
  <2> QED BY <2>2, <1>1
<1>4. \/ future' = future
      \/ \E d \in Calls : CallProgress(d)
      \/ \E x \in Actors : WakeAnswered(x) \/ WakeListed(x)
  BY DEF Next, vars, rowVars, StartRun, EndRun, OnceApproved, Ask, Answer, RequestAbort,
         ActorProgress, MarkAnswered, ListSiblings, MarkListed, SweepEnds, Joined, ListLeftover
<1> QED BY <1>1, <1>2, <1>3, <1>4

(* Two calls that ask for the same in one run are allowed by one answer.    *)
LEMMA AllowedAlike ==
  ASSUME NEW c \in Calls, NEW d \in Calls, Pair(c) = Pair(d), RunOf[c] = RunOf[d], Allowed(c)
  PROVE  Allowed(d)
  BY DEF Allowed, Allows, Pair

LEMMA GrantsAllowedKept == Inv /\ [Next]_vars => GrantsAllowed'
<1> SUFFICES ASSUME Inv, [Next]_vars PROVE GrantsAllowed'
  OBVIOUS
<1> USE RunsAssumption DEF Inv, TypeOK
<1>1. ASSUME NEW c \in Calls, future'[c] = "allow" PROVE Allowed(c)'
  BY <1>1, FuturesAllowed, AllowedStays
<1>2. ASSUME NEW c \in Calls, (Pair(c) \in once)', Active(RunOf[c])' PROVE Allowed(c)'
  <2>1. RunOf[c] \in 1..Runs
    OBVIOUS
  <2>2. CASE Pair(c) \in once /\ Active(RunOf[c])
    BY <2>2, AllowedStays DEF GrantsAllowed
  <2>3. CASE \E r \in 1..Runs : StartRun(r)
    BY <1>2, <2>3 DEF StartRun
  <2>4. Active(RunOf[c]) \/ \E r \in 1..Runs : StartRun(r)
    <3>1. ASSUME NEW r \in 1..Runs, EndRun(r) PROVE Active(RunOf[c])
      BY <1>2, <2>1, <3>1 DEF EndRun, Active
    <3>2. ASSUME NEW a \in Aborts, RequestAbort(a) PROVE Active(RunOf[c])
      BY <1>2, <2>1, <3>2 DEF RequestAbort, Running, Active
    <3> QED BY <1>2, <3>1, <3>2, RunMoves DEF Active
  <2>5. ASSUME NEW d \in Calls, Resume(d), Pair(c) \notin once, Active(RunOf[c]) PROVE Allowed(c)'
    <3>1. future[d] = "allow" /\ Pair(c) = Pair(d) /\ Waits(d)
      BY <1>2, <2>5 DEF Resume, GateStep, Waits, Pair
    <3>2. RunOf[d] \in 1..Runs /\ RunOf[d] = RunOf[c]
      <4>1. RunOf[d] \in 1..Runs /\ Active(RunOf[d])
        BY <3>1 DEF WaitsInRun
      <4>2. ~(RunOf[d] < RunOf[c]) /\ ~(RunOf[c] < RunOf[d])
        BY <2>1, <2>5, <4>1 DEF OneByOne, Active
      <4> QED BY <2>1, <4>1, <4>2
    <3>3. Allowed(c)
      BY <3>1, <3>2, AllowedAlike DEF GrantsAllowed
    <3> QED BY <3>3, AllowedStays
  <2>6. Pair(c) \in once \/ \E d \in Calls : Resume(d)
    <3>1. once' = once \/ once' = {} \/ \E d \in Calls : Resume(d)
      BY DEF Next, vars, StartRun, EndRun, OnceApproved, Ask, CallProgress, Register, Await,
             Interrupt, Answer, RequestAbort, ActorProgress, MarkAnswered, WakeAnswered,
             ListSiblings, MarkListed, WakeListed, SweepEnds, Joined, ListLeftover
    <3> QED BY <1>2, <3>1 DEF Pair
  <2> QED BY <2>2, <2>3, <2>4, <2>5, <2>6
<1>3. ASSUME NEW c \in Calls, gate'[c] = "granted" PROVE Allowed(c)'
  <2>1. CASE gate'[c] = gate[c]
    BY <1>3, <2>1, AllowedStays DEF GrantsAllowed, GrantedIsAllowed, Allowed
  <2>2. ASSUME NEW d \in Calls, OnceApproved(d) PROVE Allowed(c)'
    <3>1. gate'[c] = gate[c] \/ (c = d /\ Pair(c) \in once /\ Active(RunOf[c]))
      BY <2>2 DEF OnceApproved, GateStep, MayCall, Active
    <3> QED BY <2>1, <3>1, AllowedStays DEF GrantsAllowed
  <2>3. ASSUME NEW d \in Calls, Resume(d) PROVE Allowed(c)'
    <3>1. gate'[c] = gate[c] \/ (c = d /\ future[c] = "allow")
      BY <1>3, <2>3 DEF Resume, GateStep
    <3> QED BY <2>1, <3>1, AllowedStays DEF GrantsAllowed
  <2>4. ASSUME NEW d \in Calls, Ask(d) \/ Register(d) \/ Await(d) \/ Interrupt(d)
        PROVE gate'[c] = gate[c]
    BY <1>3, <2>4 DEF Ask, Register, Await, Interrupt, GateStep
  <2> QED BY <2>1, <2>2, <2>3, <2>4, CallMoves DEF CallProgress
<1>4. GrantedIsAllowed'
  BY <1>3 DEF GrantedIsAllowed, Allowed
<1> HIDE DEF Inv, TypeOK
<1> QED BY <1>1, <1>2, <1>4 DEF GrantsAllowed

(* A prompt resolved while its future was registered is in the hands of     *)
(* whoever resolved it until that one has popped the future.                *)
LEMMA ResolvedIsWokenKept == Inv /\ [Next]_vars => ResolvedIsWoken'
<1> DEFINE Held(c) == \E x \in Actors : step[x] \in {"marked", "swept"} /\ cursor[x] = c
<1> SUFFICES ASSUME Inv, [Next]_vars,
                    NEW c \in Calls, (c \in registry \ early)', (request[c] # "pending")'
             PROVE  Held(c)'
  BY StepTyped DEF ResolvedIsWoken, Inv, TypeOK
<1> USE ActorsAssumption DEF Inv, TypeOK, ActorStep
<1>1. ASSUME NEW d \in Calls, Register(d), c = d PROVE Held(c)'
  BY <1>1 DEF Register
<1>2. ASSUME NEW x \in Actors, MarkAnswered(x), cursor[x] = c PROVE Held(c)'
  BY <1>2 DEF MarkAnswered
<1>3. ASSUME NEW x \in Actors, MarkListed(x), cursor'[x] = c PROVE Held(c)'
  BY <1>3 DEF MarkListed
<1>4. ASSUME c \in registry \ early, request[c] # "pending" PROVE Held(c)'
  <2>1. PICK x \in Actors : step[x] \in {"marked", "swept"} /\ cursor[x] = c
    BY <1>4 DEF ResolvedIsWoken
  <2> SUFFICES step'[x] = step[x] /\ cursor'[x] = cursor[x]
    BY <2>1
  <2>2. CASE UNCHANGED actorVars
    BY <2>2 DEF actorVars
  <2>3. ASSUME NEW u \in Users, NEW d \in Calls, NEW v \in Verdicts, Answer(u, d, v)
        PROVE step'[x] = step[x] /\ cursor'[x] = cursor[x]
    BY <2>1, <2>3 DEF Answer, Actors
  <2>4. ASSUME NEW a \in Aborts, RequestAbort(a)
        PROVE step'[x] = step[x] /\ cursor'[x] = cursor[x]
    BY <2>1, <2>4 DEF RequestAbort, Actors
  <2>5. ASSUME NEW y \in Actors, ActorProgress(y)
        PROVE step'[x] = step[x] /\ cursor'[x] = cursor[x]
    <3>1. CASE WakeAnswered(y) \/ WakeListed(y)
      <4>1. cursor[y] # c
        BY <3>1 DEF WakeAnswered, WakeListed, Pop
      <4> QED BY <2>1, <3>1, <4>1 DEF WakeAnswered, WakeListed
    <3>2. CASE MarkAnswered(y) \/ ListSiblings(y) \/ MarkListed(y)
      BY <2>1, <3>2 DEF MarkAnswered, ListSiblings, MarkListed
    <3>3. CASE SweepEnds(y) \/ Joined(y) \/ ListLeftover(y)
      BY <2>1, <3>3 DEF SweepEnds, Joined, ListLeftover
    <3> QED BY <2>5, <3>1, <3>2, <3>3 DEF ActorProgress
  <2> QED BY <2>2, <2>3, <2>4, <2>5, ActorMoves
<1>5. \/ c \in registry \ early /\ request[c] # "pending"
      \/ Register(c)
      \/ \E x \in Actors : MarkAnswered(x) /\ cursor[x] = c
      \/ \E x \in Actors : MarkListed(x) /\ cursor'[x] = c
  <2>1. \/ c \in registry \ early
        \/ Register(c)
    BY DEF Next, vars, callVars, rowVars, StartRun, EndRun, OnceApproved, Ask, CallProgress,
           Register, Await, Resume, Interrupt, Answer, RequestAbort, ActorProgress, MarkAnswered,
           WakeAnswered, ListSiblings, MarkListed, WakeListed, SweepEnds, Joined, ListLeftover,
           Pop
  <2>2. \/ request[c] # "pending"
        \/ \E x \in Actors : MarkAnswered(x) /\ cursor[x] = c
        \/ \E x \in Actors : MarkListed(x) /\ cursor'[x] = c
    <3>1. \/ request' = request
          \/ \E d \in Calls : Ask(d)
          \/ \E x \in Actors : MarkAnswered(x) \/ MarkListed(x)
      BY DEF Next, vars, rowVars, StartRun, EndRun, OnceApproved, CallProgress,
             Register, Await, Resume, Interrupt, Answer, RequestAbort, ActorProgress,
             WakeAnswered, ListSiblings, WakeListed, SweepEnds, Joined, ListLeftover
    <3>2. ASSUME NEW d \in Calls, Ask(d) PROVE request[c] # "pending"
      BY <3>2 DEF Ask
    <3>3. ASSUME NEW x \in Actors, MarkAnswered(x), cursor[x] # c PROVE request[c] # "pending"
      BY <3>3 DEF MarkAnswered, Mark
    <3>4. ASSUME NEW x \in Actors, MarkListed(x), cursor'[x] # c PROVE request[c] # "pending"
      BY <3>4 DEF MarkListed, Mark
    <3> QED BY <3>1, <3>2, <3>3, <3>4
  <2> QED BY <2>1, <2>2
<1> QED BY <1>1, <1>2, <1>3, <1>4, <1>5

(* Runs that are over stay so, and their prompts do not become pending.     *)
LEMMA OverStays ==
  ASSUME Inv, [Next]_vars, NEW r \in 1..Runs, run[r] = "over"
  PROVE  /\ run'[r] = "over"
         /\ \A c \in Calls : RunOf[c] = r /\ request'[c] = "pending" => request[c] = "pending"
<1> USE RunsAssumption DEF Inv, TypeOK
<1>1. run'[r] = "over"
  BY RunMoves DEF StartRun, EndRun, RequestAbort, Running
<1>2. ASSUME NEW c \in Calls, RunOf[c] = r, request'[c] = "pending" PROVE request[c] = "pending"
  <2>1. \/ request' = request
        \/ \E d \in Calls : Ask(d)
        \/ \E x \in Actors : MarkAnswered(x) \/ MarkListed(x)
    BY DEF Next, vars, rowVars, StartRun, EndRun, OnceApproved, CallProgress,
           Register, Await, Resume, Interrupt, Answer, RequestAbort, ActorProgress,
           WakeAnswered, ListSiblings, WakeListed, SweepEnds, Joined, ListLeftover
  <2>2. ASSUME NEW d \in Calls, Ask(d) PROVE request[c] = "pending"
    BY <1>2, <2>2 DEF Ask, MayCall
  <2>3. ASSUME NEW x \in Actors, MarkAnswered(x) \/ MarkListed(x) PROVE request[c] = "pending"
    BY <1>2, <2>3 DEF MarkAnswered, MarkListed, Mark, StatusOf
  <2> QED BY <1>2, <2>1, <2>2, <2>3
<1> QED BY <1>1, <1>2

(* What Sweeps says of one abort.                                           *)
SweepOf(a) ==
  /\ \A r \in aborted[a] : run[r] = "over"
  /\ \A c \in Calls : RunOf[c] \in aborted[a] /\ request[c] = "pending" =>
       step[a] = "listing" \/ c \in todo[a]
  /\ step[a] = "done" => todo[a] = {}

LEMMA SweepsKept == Inv /\ [Next]_vars => Sweeps'
<1> SUFFICES ASSUME Inv, [Next]_vars, NEW a \in Aborts, step'[a] \notin {"ready", "joining"}
             PROVE  SweepOf(a)'
  BY DEF Sweeps, SweepOf
<1> USE ActorsAssumption DEF Inv, TypeOK, ActorStep, Actors
<1>1. ASSUME step'[a] = step[a], todo'[a] = todo[a], aborted'[a] = aborted[a]
      PROVE  SweepOf(a)'
  <2>1. SweepOf(a)
    BY <1>1 DEF Sweeps, SweepOf
  <2> QED BY <1>1, <2>1, OverStays DEF SweepOf
<1>2. CASE UNCHANGED actorVars
  BY <1>1, <1>2 DEF actorVars
<1>3. ASSUME NEW u \in Users, NEW c \in Calls, NEW v \in Verdicts, Answer(u, c, v)
      PROVE  SweepOf(a)'
  BY <1>1, <1>3 DEF Answer
<1>4. ASSUME NEW b \in Aborts, RequestAbort(b) PROVE SweepOf(a)'
  <2>1. CASE b = a
    BY <1>4, <2>1 DEF RequestAbort, SweepOf
  <2>2. CASE b # a
    BY <1>1, <1>4, <2>2 DEF RequestAbort
  <2> QED BY <2>1, <2>2
<1>5. ASSUME NEW x \in Actors, ActorProgress(x), x # a PROVE SweepOf(a)'
  BY <1>1, <1>5 DEF ActorProgress, MarkAnswered, WakeAnswered, ListSiblings, MarkListed,
                    WakeListed, SweepEnds, Joined, ListLeftover
<1>6. CASE Joined(a)
  BY <1>6 DEF Joined, rowVars, SweepOf
<1>7. CASE ListLeftover(a)
  BY <1>7 DEF ListLeftover, Leftover, rowVars, Sweeps, SweepOf
<1>8. CASE MarkListed(a)
  <2>1. PICK c \in todo[a] : /\ todo' = [todo EXCEPT ![a] = @ \ {c}]
                             /\ request' = [request EXCEPT ![c] = "rejected"]
    BY <1>8 DEF MarkListed, Mark, StatusOf, Speaks
  <2>2. UNCHANGED <<run, aborted>> /\ step[a] = "sweeping" /\ step'[a] = "swept"
    BY <1>8 DEF MarkListed
  <2> QED BY <2>1, <2>2 DEF Sweeps, SweepOf
<1>9. CASE WakeListed(a)
  BY <1>9 DEF WakeListed, Sweeps, SweepOf
<1>10. CASE SweepEnds(a)
  BY <1>10 DEF SweepEnds, rowVars, Sweeps, SweepOf
<1>11. ~MarkAnswered(a) /\ ~WakeAnswered(a) /\ ~ListSiblings(a)
  BY DEF MarkAnswered, WakeAnswered, ListSiblings, Speaks
<1> QED BY <1>2, <1>3, <1>4, <1>5, <1>6, <1>7, <1>8, <1>9, <1>10, <1>11, ActorMoves
        DEF ActorProgress

-----------------------------------------------------------------------------
(* The invariants                                                           *)

LEMMA Invariant == Spec => []Inv
<1>1. Inv /\ [Next]_vars => Inv'
  BY StepTyped, OneByOneKept, WaitsInRunKept, SpeaksKept, GrantsAllowedKept,
     ResolvedIsWokenKept, SweepsKept DEF Inv
<1> QED BY InitInv, <1>1, PTL DEF Spec

(* No call that needs consent is executed without it: each one that is      *)
(* granted was allowed by an answer, to its own prompt, to a prompt of the  *)
(* same tool or, within its run, of the same action (runner.py,             *)
(* _resolve_ask; permissions/service.py).                                   *)
THEOREM ConsentGiven == Spec => []GrantedIsAllowed
<1>1. Inv => GrantedIsAllowed
  BY DEF Inv, GrantsAllowed
<1> QED BY <1>1, Invariant, PTL

(* A prompt that was resolved after its future was registered is not        *)
(* forgotten: resolve_permission, the sweep over its siblings or the abort  *)
(* that saved the row still has the future to pop.                          *)
THEOREM NoneForgotten == Spec => []ResolvedIsWoken
<1>1. Inv => ResolvedIsWoken
  BY DEF Inv
<1> QED BY <1>1, Invariant, PTL

(* When abort_run returns, nothing of the runs it cancelled waits for an    *)
(* answer or is shown as if it did (_reject_pending_user_gates).            *)
THEOREM AbortLeavesNone == Spec => []AbortClosesGates
<1>1. Inv => AbortClosesGates
  BY RunsAssumption DEF Inv, TypeOK, Sweeps, WaitsInRun, Active, AbortClosesGates
<1> QED BY <1>1, Invariant, PTL
-----------------------------------------------------------------------------
(* Credentials: the theorems of CredentialsProofs, for the component here.      *)

CredsP == INSTANCE CredentialsProofs WITH
  Users <- Requesters, Tasks <- Handlers, status <- shown, request <- asked, task <- handler

(* One module, reached twice.                                                  *)
LEMMA SameCredentials ==
  /\ Creds!Init <=> CredsP!Init
  /\ [Creds!Next]_(Creds!vars) <=> [CredsP!Next]_(CredsP!vars)
BY Zenon DEF
  Creds!row, CredsP!row, Creds!runner, CredsP!runner, Creds!vars, CredsP!vars, Creds!Clean,
  CredsP!Clean, Creds!Idle, CredsP!Idle, Creds!Free, CredsP!Free, Creds!Init, CredsP!Init,
  Creds!Usable, CredsP!Usable, Creds!Sent, CredsP!Sent, Creds!Ask, CredsP!Ask, Creds!AskAttach,
  CredsP!AskAttach, Creds!AskStop, CredsP!AskStop, Creds!AskResume, CredsP!AskResume,
  Creds!Attach, CredsP!Attach, Creds!InjectAndWait, CredsP!InjectAndWait, Creds!GiveUp,
  CredsP!GiveUp, Creds!Resolve, CredsP!Resolve, Creds!Dispatch, CredsP!Dispatch,
  Creds!RequestStep, CredsP!RequestStep, Creds!SyncResolve, CredsP!SyncResolve, Creds!SyncCheck,
  CredsP!SyncCheck, Creds!SyncSend, CredsP!SyncSend, Creds!SyncStep, CredsP!SyncStep,
  Creds!Under, CredsP!Under, Creds!Overlaps, CredsP!Overlaps, Creds!Goes, CredsP!Goes,
  Creds!Starts, CredsP!Starts, Creds!Removes, CredsP!Removes, Creds!Stages, CredsP!Stages,
  Creds!Installs, CredsP!Installs, Creds!Halts, CredsP!Halts, Creds!Told, CredsP!Told,
  Creds!Message, CredsP!Message, Creds!Tells, CredsP!Tells, Creds!Reports, CredsP!Reports,
  Creds!Breaks, CredsP!Breaks, Creds!CannotGoOn, CredsP!CannotGoOn, Creds!RunnerStep,
  CredsP!RunnerStep, Creds!Fails, CredsP!Fails, Creds!PowerOff, CredsP!PowerOff, Creds!Fault,
  CredsP!Fault, Creds!Beat, CredsP!Beat, Creds!Receives, CredsP!Receives, Creds!Injected,
  CredsP!Injected, Creds!Answered, CredsP!Answered, Creds!Stopped, CredsP!Stopped, Creds!Resumed,
  CredsP!Resumed, Creds!Errored, CredsP!Errored, Creds!Beaten, CredsP!Beaten, Creds!Handle,
  CredsP!Handle, Creds!Input, CredsP!Input, Creds!Next, CredsP!Next

LEMMA CredentialsMove == SumSpec => CredsP!Spec
<1>1. SumInit => CredsP!Init
  BY SameCredentials DEF SumInit
<1>2. [SumNext]_<<moves, vars, credVars>> => [CredsP!Next]_(CredsP!vars)
  <2>1. [SumNext]_<<moves, vars, credVars>> => [Creds!Next]_(Creds!vars)
    BY DEF SumNext, credVars, Creds!vars, Creds!row, Creds!runner
  <2> QED BY <2>1, SameCredentials
<1> QED BY <1>1, <1>2, PTL DEF SumSpec, CredsP!Spec

(* With nothing under way, the flag tells of credential material on the disk,   *)
(* and the variables of that component keep their types.                        *)
THEOREM FlagToldOfDisk == SumSpec => []FlagCovers
<1>0. CredsP!CredentialsAssumption
  BY AttachingAssumption DEF Creds!CredentialsAssumption, CredsP!CredentialsAssumption
<1>1. CredsP!Spec => []CredsP!FlagCovers
  BY <1>0, CredsP!FlagTold
<1>2. CredsP!Spec => []CredsP!Types
  BY <1>0, CredsP!TypeCorrect
<1>3. CredsP!Types => Creds!TypeOK
  BY DEF CredsP!Types, CredsP!TypeOK, Creds!TypeOK
<1>4. CredsP!FlagCovers => Creds!FlagCovers
  BY DEF CredsP!FlagCovers, Creds!FlagCovers, CredsP!Quiet, Creds!Quiet, CredsP!Clean, Creds!Clean,
     CredsP!Free, Creds!Free, CredsP!Idle, Creds!Idle
<1> QED BY <1>1, <1>2, <1>3, <1>4, CredentialsMove, PTL DEF FlagCovers
===============================================================================
