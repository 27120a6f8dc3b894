--------------------------- MODULE CredentialsProofs ---------------------------
(* Theorems about Credentials, for every set of secrets, requests and handlers *)
(* and without the bounds of the runs: the variables keep their types, and the *)
(* flag covers what is on the disk.                                            *)
EXTENDS Credentials, SequenceLemmas

Sets == Secrets \cup {None}
Ids == Tasks \cup {None}
AskingStages == {"none", "attach", "inject", "wait", "resolve", "stop", "resume"}
Asked == [stage : AskingStages, secret : Sets, changed : BOOLEAN, sync : BOOLEAN, task : Ids]
Phases == {"free", "sent", "started", "removed", "staged", "done"}
Handler == [kind : {"inject", "stop", "resume"}, secret : Sets, waited : BOOLEAN, stage : Phases]
Words == {"injected", "answer", "stopped", "resumed", "error", "beat"}
Messages == [kind : Words, task : Ids, ok : BOOLEAN, present : BOOLEAN]

Types == TypeOK /\ uplink \in Seq(Messages)

(* The parts of the state the handlers of the backend and the runner share.    *)
RowOK == /\ attached \in Sets /\ present \in BOOLEAN /\ status \in {"running", "stopped"}
         /\ op \in {"none", "stop", "resume"} /\ pending \in BOOLEAN
RequestOK == request \in [Users -> Asked]
SyncOK == sync \in [stage : {"none", "due", "check", "send"}, secret : Sets]
TaskOK == task \in [Tasks -> Handler]
DiskOK == /\ up \in BOOLEAN /\ disk \in [staged : Sets, installed : Sets]
          /\ mixed \in BOOLEAN /\ partial \in BOOLEAN
CountOK == inputs \in 0..MaxInputs /\ faults \in 0..MaxFaults
UplinkOK == uplink \in Seq(Messages)

LEMMA TypesParts ==
  Types <=> RowOK /\ RequestOK /\ SyncOK /\ TaskOK /\ DiskOK /\ CountOK /\ UplinkOK
BY DEF Types, TypeOK, RowOK, RequestOK, SyncOK, TaskOK, DiskOK, CountOK, UplinkOK, Sets, Ids,
       Asked, AskingStages, Handler, Phases

LEMMA TypesPartsNext ==
  Types' <=> RowOK' /\ RequestOK' /\ SyncOK' /\ TaskOK' /\ DiskOK' /\ CountOK' /\ UplinkOK'
BY TypesParts, PTL

(* What a handler that ends tells the backend.                                 *)
LEMMA TellsAppends ==
  ASSUME Types, NEW t \in Tasks, NEW kind \in Words, NEW ok \in BOOLEAN, Tells(t, kind, ok)
  PROVE  /\ UplinkOK'
         /\ \A i \in DOMAIN uplink : i \in DOMAIN uplink' /\ uplink'[i] = uplink[i]
         /\ Len(uplink) + 1 \in DOMAIN uplink' /\ uplink'[Len(uplink) + 1] = Message(t, kind, ok)
         /\ \A i \in DOMAIN uplink' : \/ i \in DOMAIN uplink
                                      \/ i = Len(uplink) + 1
                                      \/ uplink'[i] = Message(t, "answer", ok)
<1> DEFINE m == Message(t, kind, ok)
           a == Message(t, "answer", ok)
           q == Append(uplink, m)
<1>1. uplink \in Seq(Messages) /\ m \in Messages /\ a \in Messages
  BY DEF Types, Message, Messages, Words, Ids
<1> HIDE DEF m, a
<1>2. /\ q \in Seq(Messages) /\ Len(uplink) \in Nat /\ Len(q) = Len(uplink) + 1
      /\ DOMAIN uplink = 1..Len(uplink) /\ DOMAIN q = 1..Len(q)
      /\ q[Len(uplink) + 1] = m
      /\ \A i \in DOMAIN uplink : i \in DOMAIN q /\ q[i] = uplink[i]
  BY <1>1, AppendProperties, Elements
<1>3. uplink \o <<m>> = q /\ q \o <<a>> = Append(q, a) /\ q \o <<>> = q
  BY <1>1, <1>2, JoinedOne, ConcatEmptySeq
<1>4. uplink' = IF task[t].waited THEN Append(q, a) ELSE q
  BY <1>3 DEF Tells, m, a
<1> HIDE DEF q
<1>5. /\ Append(q, a) \in Seq(Messages) /\ Len(Append(q, a)) = Len(q) + 1
      /\ DOMAIN Append(q, a) = 1..Len(q) + 1 /\ Append(q, a)[Len(q) + 1] = a
      /\ \A i \in DOMAIN q : i \in DOMAIN Append(q, a) /\ Append(q, a)[i] = q[i]
  BY <1>1, <1>2, AppendProperties, Elements
<1>6. CASE task[t].waited
  BY <1>2, <1>4, <1>5, <1>6 DEF UplinkOK, m, a
<1>7. CASE ~task[t].waited
  BY <1>2, <1>4, <1>7 DEF UplinkOK, m
<1> QED BY <1>6, <1>7

LEMMA TypesOfSent ==
  ASSUME Types, NEW t \in Tasks, NEW kind \in {"inject", "stop", "resume"}, NEW secret \in Sets,
         NEW waited \in BOOLEAN, Sent(t, kind, secret, waited)
  PROVE  TaskOK'
BY TypesParts DEF Sent, TaskOK, Handler, Phases

LEMMA TypesOfGoes ==
  ASSUME Types, NEW t \in Tasks, NEW stage \in Phases, Goes(t, stage)
  PROVE  /\ TaskOK' /\ task'[t].stage = stage
         /\ task'[t].kind = task[t].kind /\ task'[t].secret = task[t].secret
         /\ \A s \in Tasks \ {t} : task'[s] = task[s]
BY TypesParts DEF Goes, TaskOK, Handler

LEMMA TypesOfRequests ==
  ASSUME Types, NEW u \in Users, NEW v \in Asked, request' = [request EXCEPT ![u] = v]
  PROVE  RequestOK'
BY TypesParts DEF RequestOK

LEMMA TypesByRequest ==
  ASSUME CredentialsAssumption, Types, Input \/ RequestStep \/ \E u \in Users : GiveUp(u)
  PROVE  Types'
<1> USE DEF row, runner
<1>0. Idle \in Asked /\ None \in Sets /\ \A t \in Tasks : t \in Ids
  BY DEF Idle, Asked, AskingStages, Sets, Ids
<1>1. ASSUME NEW u \in Users, NEW v \in Asked, Ask(u, v) PROVE Types'
  <2>1. inputs' \in 0..MaxInputs
    BY <1>1, TypesParts DEF Ask, CountOK, CredentialsAssumption
  <2>2. RequestOK'
    BY <1>1, TypesOfRequests DEF Ask
  <2> QED BY <1>1, <2>1, <2>2, TypesParts, TypesPartsNext
          DEF Ask, RowOK, SyncOK, TaskOK, DiskOK, CountOK, UplinkOK
<1>2. CASE Input
  <2>1. ASSUME NEW u \in Users, NEW secret \in Sets, AskAttach(u, secret) PROVE Types'
    <3> DEFINE v == [Idle EXCEPT !.stage = "attach", !.secret = secret, !.changed = secret # attached,
                       !.sync = /\ status = "running"
                                /\ (secret # attached \/ present # (secret # None))]
    <3>1. v \in Asked
      BY <1>0 DEF Idle, Asked, AskingStages, Sets, Ids
    <3> HIDE DEF v
    <3> QED BY <1>1, <2>1, <3>1 DEF AskAttach, v
  <2>2. ASSUME NEW u \in Users, AskStop(u) \/ AskResume(u) PROVE Types'
    <3>1. [Idle EXCEPT !.stage = "stop"] \in Asked /\ [Idle EXCEPT !.stage = "resolve"] \in Asked
      BY <1>0 DEF Idle, Asked, AskingStages, Sets, Ids
    <3> QED BY <1>1, <2>2, <3>1 DEF AskStop, AskResume
  <2> QED BY <1>2, <2>1, <2>2 DEF Input, Sets
<1>3. ASSUME NEW u \in Users, Attach(u) PROVE Types'
  <2>1. request[u] \in Asked
    BY TypesParts DEF RequestOK
  <2>2. [request[u] EXCEPT !.stage = "inject"] \in Asked
    BY <2>1 DEF Asked, AskingStages
  <2>3. RequestOK'
    BY <1>0, <1>3, <2>2, TypesOfRequests DEF Attach
  <2>4. RowOK'
    BY <1>3, <2>1, TypesParts DEF Attach, RowOK, Asked
  <2> QED BY <1>3, <2>3, <2>4, TypesParts, TypesPartsNext
          DEF Attach, SyncOK, TaskOK, DiskOK, CountOK, UplinkOK
<1>4. ASSUME NEW u \in Users, NEW t \in Tasks, InjectAndWait(u, t) PROVE Types'
  <2>1. request[u] \in Asked
    BY TypesParts DEF RequestOK
  <2>2. TaskOK'
    BY <1>4, <2>1, TypesOfSent DEF InjectAndWait, Asked
  <2>3. RequestOK'
    BY <1>0, <1>4, TypesParts DEF InjectAndWait, RequestOK, Asked, AskingStages
  <2> QED BY <1>4, <2>2, <2>3, TypesParts, TypesPartsNext
          DEF InjectAndWait, RowOK, SyncOK, DiskOK, CountOK, UplinkOK
<1>5. ASSUME NEW u \in Users, GiveUp(u) PROVE Types'
  <2>1. faults' \in 0..MaxFaults
    BY <1>5, TypesParts DEF GiveUp, CountOK, CredentialsAssumption
  <2>2. RequestOK'
    BY <1>0, <1>5, TypesOfRequests DEF GiveUp
  <2> QED BY <1>5, <2>1, <2>2, TypesParts, TypesPartsNext
          DEF GiveUp, RowOK, SyncOK, TaskOK, DiskOK, CountOK, UplinkOK
<1>6. ASSUME NEW u \in Users, Resolve(u) PROVE Types'
  <2>1. attached \in Sets
    BY TypesParts DEF RowOK
  <2>2. RequestOK'
    BY <1>6, <2>1, TypesParts DEF Resolve, RequestOK, Asked, AskingStages
  <2> QED BY <1>6, <2>2, TypesParts, TypesPartsNext
          DEF Resolve, RowOK, SyncOK, TaskOK, DiskOK, CountOK, UplinkOK
<1>7. ASSUME NEW u \in Users, NEW t \in Tasks, Dispatch(u, t) PROVE Types'
  <2>1. request[u] \in Asked /\ request[u].stage \in {"stop", "resume"}
    BY <1>7, TypesParts DEF RequestOK, Dispatch
  <2>2. TaskOK'
    BY <1>7, <2>1, TypesOfSent DEF Dispatch, Asked
  <2>3. RequestOK'
    BY <1>0, <1>7, TypesOfRequests DEF Dispatch
  <2>4. RowOK'
    BY <1>7, <2>1, TypesParts DEF Dispatch, RowOK
  <2> QED BY <1>7, <2>2, <2>3, <2>4, TypesParts, TypesPartsNext
          DEF Dispatch, SyncOK, DiskOK, CountOK, UplinkOK
<1> QED BY <1>2, <1>3, <1>4, <1>5, <1>6, <1>7 DEF RequestStep

LEMMA TypesBySync == ASSUME CredentialsAssumption, Types, SyncStep PROVE Types'
<1> USE DEF row, runner
<1>0. None \in Sets /\ attached \in Sets /\ sync.secret \in Sets
  BY TypesParts DEF Sets, RowOK, SyncOK
<1>1. CASE SyncResolve \/ SyncCheck
  <2>1. SyncOK'
    BY <1>0, <1>1, TypesParts DEF SyncResolve, SyncCheck, SyncOK
  <2> QED BY <1>1, <2>1, TypesParts, TypesPartsNext
          DEF SyncResolve, SyncCheck, RowOK, RequestOK, TaskOK, DiskOK, CountOK, UplinkOK
<1>2. ASSUME NEW t \in Tasks, SyncSend(t) PROVE Types'
  <2>1. TaskOK'
    BY <1>0, <1>2, TypesOfSent DEF SyncSend
  <2>2. SyncOK' /\ RowOK'
    BY <1>0, <1>2, TypesParts DEF SyncSend, SyncOK, RowOK
  <2> QED BY <1>2, <2>1, <2>2, TypesParts, TypesPartsNext
          DEF SyncSend, RequestOK, DiskOK, CountOK, UplinkOK
<1> QED BY <1>1, <1>2 DEF SyncStep

LEMMA TypesByRunner ==
  ASSUME CredentialsAssumption, Types, (\E t \in Tasks : RunnerStep(t)) \/ Fault \/ Beat
  PROVE  Types'
<1> USE DEF row, runner
<1>0. None \in Sets /\ Clean \in [staged : Sets, installed : Sets] /\ disk.staged \in Sets
  BY TypesParts DEF Sets, Clean, DiskOK
<1>1. ASSUME NEW t \in Tasks, NEW kind \in Words, NEW ok \in BOOLEAN, Tells(t, kind, ok)
      PROVE  TaskOK' /\ UplinkOK'
  <2>1. Goes(t, "free")
    BY <1>1 DEF Tells
  <2>2. TaskOK'
    BY <2>1, TypesOfGoes DEF Phases
  <2> QED BY <1>1, <2>2, TellsAppends
<1>2. ASSUME NEW t \in Tasks, RunnerStep(t) PROVE Types'
  <2>1. RowOK' /\ RequestOK' /\ SyncOK' /\ CountOK'
    BY <1>2, TypesParts DEF RunnerStep, RowOK, RequestOK, SyncOK, CountOK
  <2>2. task[t] \in Handler
    BY TypesParts DEF TaskOK
  <2>3. CASE (Starts(t) \/ Removes(t) \/ Stages(t) \/ Installs(t) \/ Halts(t)) /\ UNCHANGED uplink
    <3>1. \E stage \in Phases : Goes(t, stage)
      BY <2>3 DEF Starts, Removes, Stages, Installs, Halts, Phases
    <3>2. TaskOK' /\ UplinkOK'
      BY <2>3, <3>1, TypesOfGoes, TypesParts DEF UplinkOK
    <3>3. DiskOK'
      <4>1. CASE Starts(t)
        BY <4>1, TypesParts DEF Starts, DiskOK
      <4>2. CASE Removes(t)
        BY <1>0, <4>2, TypesParts DEF Removes, DiskOK, Overlaps
      <4>3. CASE Stages(t)
        BY <2>2, <4>3, TypesParts DEF Stages, DiskOK, Handler, Overlaps
      <4>4. CASE Installs(t)
        BY <1>0, <4>4, TypesParts DEF Installs, DiskOK, Overlaps
      <4>5. CASE Halts(t)
        BY <4>5, TypesParts DEF Halts, DiskOK, Overlaps
      <4> QED BY <2>3, <4>1, <4>2, <4>3, <4>4, <4>5
    <3> QED BY <2>1, <3>2, <3>3, TypesPartsNext
  <2>4. CASE Reports(t) /\ UNCHANGED runner
    <3>1. Told[task[t].kind] \in Words
      BY <2>2 DEF Told, Handler, Words
    <3>2. TaskOK' /\ UplinkOK'
      BY <1>1, <2>4, <3>1 DEF Reports
    <3> QED BY <2>1, <2>4, <3>2, TypesParts, TypesPartsNext DEF DiskOK
  <2>5. CASE Breaks(t) /\ UNCHANGED <<up, disk, mixed>>
    <3>1. TaskOK' /\ UplinkOK'
      BY <1>1, <2>5 DEF Breaks, Words
    <3>2. DiskOK'
      BY <2>5, TypesParts DEF Breaks, DiskOK
    <3> QED BY <2>1, <3>1, <3>2, TypesPartsNext
  <2> QED BY <1>2, <2>3, <2>4, <2>5 DEF RunnerStep
<1>3. CASE Fault
  <2>1. RowOK' /\ RequestOK' /\ SyncOK' /\ CountOK'
    BY <1>3, TypesParts DEF Fault, RowOK, RequestOK, SyncOK, CountOK, CredentialsAssumption
  <2>2. CASE PowerOff
    BY <2>1, <2>2, TypesParts, TypesPartsNext DEF PowerOff, TaskOK, DiskOK, UplinkOK
  <2>3. ASSUME NEW t \in Tasks, Fails(t) PROVE Types'
    <3>1. TaskOK' /\ UplinkOK'
      BY <1>1, <2>3 DEF Fails, Breaks, Words
    <3>2. DiskOK'
      BY <2>3, TypesParts DEF Fails, Breaks, DiskOK
    <3> QED BY <2>1, <3>1, <3>2, TypesPartsNext
  <2> QED BY <1>3, <2>2, <2>3 DEF Fault
<1>4. CASE Beat
  <2> DEFINE m == [kind |-> "beat", task |-> None, ok |-> up, present |-> FALSE]
  <2>1. m \in Messages
    BY TypesParts DEF Messages, Words, Ids, DiskOK
  <2> HIDE DEF m
  <2>2. UplinkOK'
    BY <1>4, <2>1, Appended, TypesParts DEF Beat, UplinkOK, m
  <2> QED BY <1>4, <2>2, TypesParts, TypesPartsNext
          DEF Beat, RowOK, RequestOK, SyncOK, TaskOK, DiskOK, CountOK
<1> QED BY <1>2, <1>3, <1>4

LEMMA TypesByHandler == ASSUME CredentialsAssumption, Types, Handle PROVE Types'
<1> USE DEF row, runner, Receives
<1>1. uplink # <<>> /\ uplink' = Tail(uplink)
  BY DEF Handle, Injected, Answered, Stopped, Resumed, Errored, Beaten
<1>2. UplinkOK' /\ Head(uplink) \in Messages
  BY <1>1, Taken, TypesParts DEF UplinkOK
<1>3. TaskOK' /\ DiskOK' /\ CountOK'
  BY TypesParts DEF Handle, TaskOK, DiskOK, CountOK
<1>4. Head(uplink).present \in BOOLEAN /\ Idle \in Asked /\ None \in Sets
  BY <1>2 DEF Messages, Idle, Asked, AskingStages, Sets, Ids
<1>5. CASE Answered
  <2> DEFINE waiting == {u \in Users : request[u].task = Head(uplink).task}
  <2>1. /\ request' = [u \in Users |-> IF u \in waiting THEN Idle ELSE request[u]]
        /\ pending' = (pending /\ waiting = {})
        /\ present' = IF waiting # {} /\ Head(uplink).ok THEN Head(uplink).present ELSE present
        /\ UNCHANGED <<attached, status, op, sync>>
    BY <1>5 DEF Answered
  <2> HIDE DEF waiting
  <2>2. RowOK'
    BY <1>4, <2>1, TypesParts DEF RowOK
  <2>3. RequestOK' /\ SyncOK'
    BY <1>4, <2>1, TypesParts DEF RequestOK, SyncOK
  <2> QED BY <1>2, <1>3, <2>2, <2>3, TypesPartsNext
<1>6. CASE Injected \/ Stopped \/ Resumed \/ Errored
  <2>1. RowOK' /\ RequestOK' /\ SyncOK'
    BY <1>4, <1>6, TypesParts DEF Injected, Stopped, Resumed, Errored, RowOK, RequestOK, SyncOK
  <2> QED BY <1>2, <1>3, <2>1, TypesPartsNext
<1>7. CASE Beaten
  <2>1. RowOK' /\ RequestOK' /\ SyncOK'
    BY <1>4, <1>7, TypesParts DEF Beaten, RowOK, RequestOK, SyncOK
  <2> QED BY <1>2, <1>3, <2>1, TypesPartsNext
<1> QED BY <1>5, <1>6, <1>7 DEF Handle

LEMMA TypesStep == ASSUME CredentialsAssumption, Types, [Next]_vars PROVE Types'
<1>1. CASE UNCHANGED vars
  BY <1>1, TypesParts, TypesPartsNext
     DEF vars, row, runner, RowOK, RequestOK, SyncOK, TaskOK, DiskOK, CountOK, UplinkOK
<1> QED BY <1>1, TypesByRequest, TypesBySync, TypesByRunner, TypesByHandler DEF Next

LEMMA TypesInit == ASSUME CredentialsAssumption, Init PROVE Types
<1>1. Idle \in Asked /\ Free \in Handler /\ None \in Sets
  BY DEF Idle, Asked, AskingStages, Free, Handler, Phases, Sets, Ids
<1>2. RowOK /\ SyncOK /\ CountOK
  <2>1. present \in BOOLEAN /\ pending \in BOOLEAN
    BY DEF Init
  <2>2. status \in {"running", "stopped"} /\ attached \in Sets /\ op = "none"
    BY DEF Init, Sets
  <2>3. SyncOK
    BY <1>1 DEF Init, SyncOK
  <2>4. CountOK
    BY DEF Init, CountOK, CredentialsAssumption
  <2> QED BY <2>1, <2>2, <2>3, <2>4 DEF RowOK
<1>3. DiskOK
  <2>1. /\ attached \in Sets /\ up \in BOOLEAN
        /\ disk = IF up THEN [staged |-> attached, installed |-> attached] ELSE Clean
        /\ mixed = FALSE /\ partial = FALSE
    BY DEF Init, Sets
  <2> QED BY <1>1, <2>1 DEF DiskOK, Clean
<1>4. RequestOK /\ TaskOK /\ UplinkOK
  BY <1>1, EmptySeq DEF Init, RequestOK, TaskOK, UplinkOK
<1> QED BY <1>2, <1>3, <1>4, TypesParts

(* Every variable keeps its type.                                              *)
THEOREM TypeCorrect == ASSUME CredentialsAssumption PROVE Spec => []Types
<1>1. Init => Types
  BY TypesInit
<1>2. Types /\ [Next]_vars => Types'
  BY TypesStep
<1> QED BY <1>1, <1>2, PTL DEF Spec
--------------------------------------------------------------------------------
(* Why the flag covers the disk. The answers on the uplink set the flag one    *)
(* after the other: each that clears it is followed by one that sets it.       *)
Definite(m) == m.kind \in {"injected", "stopped", "resumed"}
Speaks(m) == Definite(m) \/ (m.kind = "answer" /\ m.ok)
SetLater(i) == \E k \in DOMAIN uplink : i < k /\ Definite(uplink[k]) /\ uplink[k].present
WillBeSet == /\ ~present => SetLater(0)
             /\ \A i \in DOMAIN uplink : Speaks(uplink[i]) /\ ~uplink[i].present => SetLater(i)

(* While no two handlers have touched the disk together, one of them at most   *)
(* has removed and not reported; what it leaves is as it will tell.            *)
Busy(t) == task[t].stage \in {"removed", "staged", "done"}
Bears(t) == task[t].kind # "stop" /\ task[t].secret # None
Stocked == \A t \in Tasks :
  \/ task[t].stage = "staged"
  \/ task[t].stage = "removed" /\ task[t].kind # "stop"
  => Bears(t)
Alone == ~mixed => \A s, t \in Tasks : Busy(s) /\ Busy(t) => s = t
Cleaned == ~mixed => \A t \in Tasks :
  task[t].stage = "removed" \/ (task[t].stage = "done" /\ ~Bears(t)) => disk = Clean
(* Material on the disk is that of a handler still to report, or reported.     *)
Owned == ~mixed /\ ~partial /\ disk # Clean =>
  WillBeSet \/ \E t \in Tasks : task[t].stage \in {"staged", "done"} /\ Bears(t)

(* A stop tells that the disk is clean.                                        *)
StopTold == \A i \in DOMAIN uplink : uplink[i].kind = "stopped" => ~uplink[i].present

Inv == Types /\ Stocked /\ Alone /\ Cleaned /\ Owned /\ StopTold

(* The backend's side of a step sees neither the handlers nor the disk.        *)
LEMMA BackendKeeps ==
  ASSUME Inv, UNCHANGED <<runner, uplink, present>>,
         \A t \in Tasks : task'[t] = task[t] \/ (task[t].stage = "free" /\ task'[t].stage = "sent")
  PROVE  Stocked' /\ Alone' /\ Cleaned' /\ Owned' /\ StopTold'
<1>1. \A t \in Tasks : (Busy(t)' => Busy(t)) /\ (task[t].stage # "free" => task'[t] = task[t])
  BY DEF Busy
<1>2. Stocked' /\ Alone' /\ Cleaned'
  BY <1>1 DEF Inv, runner, Stocked, Alone, Cleaned, Busy, Bears
<1>3. WillBeSet' <=> WillBeSet
  BY DEF WillBeSet, SetLater
<1>4. Owned'
  BY <1>1, <1>3 DEF Inv, runner, Owned, Bears
<1>5. StopTold'
  BY DEF Inv, StopTold
<1> QED BY <1>2, <1>4, <1>5

LEMMA SentIsNew ==
  ASSUME Types, NEW t \in Tasks, NEW kind, NEW secret, NEW waited, Sent(t, kind, secret, waited)
  PROVE  \A s \in Tasks : task'[s] = task[s] \/ (task[s].stage = "free" /\ task'[s].stage = "sent")
BY TypesParts DEF Sent, Usable, TaskOK

(* An answer that arrives sets the flag, and one behind it sets it again.      *)
LEMMA HandlerKeeps ==
  ASSUME Inv, Handle
  PROVE  Stocked' /\ Alone' /\ Cleaned' /\ Owned' /\ StopTold'
<1> DEFINE m == Head(uplink)
<1>1. uplink # <<>> /\ uplink' = Tail(uplink) /\ UNCHANGED <<task, runner>>
  BY DEF Handle, Injected, Answered, Stopped, Resumed, Errored, Beaten, Receives
<1>2. /\ m = uplink[1] /\ 1 \in DOMAIN uplink /\ m \in Messages
      /\ \A i \in DOMAIN uplink' : i \in Nat /\ i # 0 /\ i + 1 \in DOMAIN uplink
                                   /\ uplink'[i] = uplink[i + 1]
  BY <1>1, Taken, TypesParts DEF Inv, UplinkOK
<1>3. \A k \in DOMAIN uplink : k \in Nat /\ (1 < k => k - 1 \in DOMAIN uplink' /\ uplink'[k - 1] = uplink[k])
  <2>1. /\ Len(uplink) \in Nat \ {0} /\ DOMAIN uplink = 1..Len(uplink)
        /\ DOMAIN uplink' = 1..Len(uplink) - 1
    BY <1>1, EmptySeq, HeadTailProperties, Elements, TypesParts DEF Inv, UplinkOK
  <2> QED BY <1>2, <2>1
<1>4. /\ Definite(m) => present' = m.present
      /\ ~Definite(m) => present' = present \/ (Speaks(m) /\ present' = m.present)
  <2>1. CASE Injected \/ Resumed
    BY <2>1 DEF Injected, Resumed, Receives, Definite
  <2>2. CASE Stopped
    <3>1. m.kind = "stopped" /\ present' = FALSE
      BY <2>2 DEF Stopped, Receives
    <3>2. ~m.present
      BY <1>2, <3>1 DEF Inv, StopTold
    <3>3. m.present = FALSE
      BY <1>2, <3>2 DEF Messages
    <3> QED BY <3>1, <3>3 DEF Definite
  <2>3. CASE Answered \/ Errored \/ Beaten
    BY <2>3 DEF Answered, Errored, Beaten, Receives, Definite, Speaks
  <2> QED BY <2>1, <2>2, <2>3 DEF Handle
<1> HIDE DEF m
<1>5. WillBeSet => WillBeSet'
  <2>0. SUFFICES ASSUME WillBeSet PROVE WillBeSet'
    OBVIOUS
  <2>1. ASSUME NEW i \in Nat, SetLater(i + 1) PROVE SetLater(i)'
    <3>1. PICK k \in DOMAIN uplink : i + 1 < k /\ Definite(uplink[k]) /\ uplink[k].present
      BY <2>1 DEF SetLater
    <3>2. k - 1 \in DOMAIN uplink' /\ uplink'[k - 1] = uplink[k] /\ i < k - 1
      BY <1>3, <3>1
    <3> QED BY <3>1, <3>2 DEF SetLater
  <2>2. ~present' => SetLater(0)'
    <3>1. ASSUME ~present' PROVE SetLater(1)
      <4>1. CASE ~Speaks(m)
        <5>1. ~present
          BY <1>4, <3>1, <4>1 DEF Speaks
        <5>2. PICK k \in DOMAIN uplink : 0 < k /\ Definite(uplink[k]) /\ uplink[k].present
          BY <2>0, <5>1 DEF WillBeSet, SetLater
        <5>3. 1 < k
          BY <1>2, <1>3, <4>1, <5>2 DEF Speaks
        <5> QED BY <5>2, <5>3 DEF SetLater
      <4>2. CASE ~m.present /\ Speaks(m)
        <5>1. 1 \in DOMAIN uplink /\ Speaks(uplink[1]) /\ ~uplink[1].present
          BY <1>2, <4>2
        <5> QED BY <2>0, <5>1 DEF WillBeSet
      <4>3. CASE m.present /\ Speaks(m)
        <5>1. present' # m.present
          BY <3>1, <4>3
        <5>2. ~Definite(m) /\ present' = present
          BY <1>4, <5>1
        <5>3. ~present
          BY <3>1, <5>2
        <5>4. PICK k \in DOMAIN uplink : 0 < k /\ Definite(uplink[k]) /\ uplink[k].present
          BY <2>0, <5>3 DEF WillBeSet, SetLater
        <5>5. 1 < k
          BY <1>2, <1>3, <5>2, <5>4
        <5> QED BY <5>4, <5>5 DEF SetLater
      <4> QED BY <4>1, <4>2, <4>3
    <3> QED BY <2>1, <3>1
  <2>3. ASSUME NEW i \in DOMAIN uplink', Speaks(uplink'[i]), ~uplink'[i].present PROVE SetLater(i)'
    <3>1. i \in Nat /\ SetLater(i + 1)
      BY <1>2, <2>0, <2>3 DEF WillBeSet
    <3> QED BY <2>1, <3>1
  <2> QED BY <2>2, <2>3 DEF WillBeSet
<1>6. Stocked' /\ Alone' /\ Cleaned' /\ Owned'
  BY <1>1, <1>5 DEF Inv, runner, Stocked, Alone, Cleaned, Owned, Busy, Bears
<1>7. StopTold'
  BY <1>2 DEF Inv, StopTold
<1> QED BY <1>6, <1>7

(* The runner. Whoever touches the disk is alone, or says so.                  *)
LEMMA DiskKeeps ==
  ASSUME Inv, NEW t \in Tasks, UNCHANGED <<uplink, present>>,
         Starts(t) \/ Removes(t) \/ Stages(t) \/ Installs(t) \/ Halts(t)
  PROVE  Stocked' /\ Alone' /\ Cleaned' /\ Owned' /\ StopTold'
<1>0. StopTold' /\ (WillBeSet' <=> WillBeSet)
  BY DEF Inv, StopTold, WillBeSet, SetLater
<1>1. /\ task[t] \in Handler /\ disk.staged \in Sets
      /\ Stocked /\ Alone /\ Cleaned /\ Owned
  BY TypesParts DEF Inv, TaskOK, DiskOK
<1>2. ASSUME NEW stage \in Phases, Goes(t, stage)
      PROVE  /\ task'[t].stage = stage
             /\ task'[t].kind = task[t].kind /\ task'[t].secret = task[t].secret
             /\ (Bears(t)' <=> Bears(t))
             /\ \A s \in Tasks \ {t} : task'[s] = task[s] /\ (Bears(s)' <=> Bears(s))
                                       /\ (Busy(s)' <=> Busy(s))
  BY <1>2, TypesOfGoes DEF Inv, Bears, Busy
<1>3. CASE Starts(t)
  <2>1. Goes(t, "started") /\ UNCHANGED <<disk, mixed, partial>> /\ task[t].stage = "sent"
    BY <1>3 DEF Starts
  <2>2. Stocked' /\ Alone' /\ Cleaned'
    BY <1>1, <1>2, <2>1 DEF Stocked, Alone, Cleaned, Busy, Phases
  <2>3. Owned'
    BY <1>0, <1>1, <1>2, <2>1 DEF Owned, Phases
  <2> QED BY <1>0, <2>2, <2>3
<1>4. CASE Removes(t)
  <2> DEFINE stage == IF task[t].kind # "stop" /\ task[t].secret = None THEN "done" ELSE "removed"
  <2>1. /\ stage \in Phases /\ Goes(t, stage) /\ disk' = Clean /\ mixed' = Overlaps(t)
        /\ stage = "done" => ~Bears(t)
        /\ stage = "removed" => task[t].kind = "stop" \/ Bears(t)
        /\ stage # "staged"
    BY <1>4 DEF Removes, Phases, Bears
  <2> HIDE DEF stage
  <2>2. ~mixed' => \A s \in Tasks \ {t} : ~Busy(s)
    BY <2>1 DEF Overlaps, Under, Busy
  <2>3. Stocked'
    BY <1>1, <1>2, <2>1 DEF Stocked
  <2>4. Alone' /\ Cleaned' /\ Owned'
    BY <1>2, <2>1, <2>2 DEF Alone, Cleaned, Owned
  <2> QED BY <1>0, <2>3, <2>4
<1>5. CASE Stages(t)
  <2>1. /\ Goes(t, "staged") /\ mixed' = (mixed \/ Overlaps(t)) /\ Bears(t) /\ Busy(t)
        /\ UNCHANGED partial
    BY <1>1, <1>5 DEF Stages, Stocked, Busy
  <2>2. ~mixed' => ~mixed /\ \A s \in Tasks \ {t} : ~Busy(s)
    BY <2>1 DEF Overlaps, Under, Busy
  <2>3. Stocked' /\ Alone'
    BY <1>1, <1>2, <2>1, <2>2 DEF Stocked, Alone, Phases
  <2>4. Cleaned' /\ Owned'
    BY <1>2, <2>1, <2>2 DEF Cleaned, Owned, Phases, Busy
  <2> QED BY <1>0, <2>3, <2>4
<1>6. CASE Installs(t)
  <2>1. /\ Goes(t, "done") /\ mixed' = (mixed \/ Overlaps(t)) /\ Bears(t) /\ Busy(t)
        /\ UNCHANGED partial
    BY <1>1, <1>6 DEF Installs, Stocked, Busy
  <2>2. ~mixed' => ~mixed /\ \A s \in Tasks \ {t} : ~Busy(s)
    BY <2>1 DEF Overlaps, Under, Busy
  <2>3. Stocked' /\ Alone'
    BY <1>1, <1>2, <2>1, <2>2 DEF Stocked, Alone, Phases
  <2>4. Cleaned' /\ Owned'
    BY <1>2, <2>1, <2>2 DEF Cleaned, Owned, Phases, Busy
  <2> QED BY <1>0, <2>3, <2>4
<1>7. CASE Halts(t)
  <2>1. /\ Goes(t, "done") /\ mixed' = (mixed \/ Overlaps(t)) /\ ~Bears(t) /\ Busy(t)
        /\ UNCHANGED <<disk, partial>> /\ task[t].stage = "removed"
    BY <1>7 DEF Halts, Bears, Busy
  <2>2. ~mixed' => ~mixed /\ disk = Clean /\ \A s \in Tasks \ {t} : ~Busy(s)
    BY <1>1, <2>1 DEF Overlaps, Under, Busy, Cleaned
  <2>3. Stocked' /\ Alone'
    BY <1>1, <1>2, <2>1, <2>2 DEF Stocked, Alone, Phases
  <2>4. Cleaned' /\ Owned'
    BY <1>2, <2>1, <2>2 DEF Cleaned, Owned, Phases
  <2> QED BY <1>0, <2>3, <2>4
<1> QED BY <1>3, <1>4, <1>5, <1>6, <1>7

(* A handler that ends tells what it left on the disk, or that it failed.      *)
LEMMA TellingKeeps ==
  ASSUME Inv, NEW t \in Tasks, UNCHANGED <<disk, mixed, present>>,
         NEW ok \in BOOLEAN, NEW kind \in Words, Tells(t, kind, ok),
         ok => /\ partial' = partial /\ task[t].stage = "done"
               /\ kind \in {"injected", "stopped", "resumed"}
               /\ (kind = "stopped" => task[t].kind = "stop"),
         ~ok => /\ partial' = (partial \/ task[t].stage = "staged") /\ task[t].stage # "done"
                /\ kind = "error"
  PROVE  Stocked' /\ Alone' /\ Cleaned' /\ Owned' /\ StopTold'
<1> DEFINE m == Message(t, kind, ok)
           n == Len(uplink) + 1
<1>1. task[t] \in Handler /\ Types /\ Stocked /\ Alone /\ Cleaned /\ Owned /\ StopTold
  BY TypesParts DEF Inv, TaskOK
<1>2. /\ m.kind = kind /\ m.ok = ok /\ (m.present <=> Bears(t))
      /\ Message(t, "answer", ok).kind = "answer" /\ Message(t, "answer", ok).ok = ok
      /\ (Message(t, "answer", ok).present <=> Bears(t))
  BY DEF Message, Bears
<1>3. /\ \A i \in DOMAIN uplink : i \in DOMAIN uplink' /\ uplink'[i] = uplink[i]
      /\ n \in DOMAIN uplink' /\ uplink'[n] = m
      /\ \A i \in DOMAIN uplink' : i \in DOMAIN uplink \/ i = n \/ uplink'[i] = Message(t, "answer", ok)
  BY <1>1, TellsAppends
<1>4. n \in Nat /\ 0 < n /\ \A i \in DOMAIN uplink : i \in Nat /\ i < n
  BY <1>1, Elements DEF Types
<1>5. StopTold'
  BY <1>1, <1>2, <1>3 DEF StopTold, Bears
<1> HIDE DEF m, n
<1>6. /\ task'[t].stage = "free" /\ task'[t].kind = task[t].kind /\ task'[t].secret = task[t].secret
      /\ \A s \in Tasks \ {t} : task'[s] = task[s]
  BY <1>1, TypesOfGoes DEF Tells, Phases
<1>7. Stocked' /\ Alone' /\ Cleaned'
  BY <1>1, <1>6 DEF Stocked, Alone, Cleaned, Busy, Bears
<1>8. CASE ok /\ Bears(t)
  <2>1. SetLater(0)' /\ \A i \in DOMAIN uplink : SetLater(i)'
    BY <1>2, <1>3, <1>4, <1>8 DEF SetLater, Definite
  <2>2. \A i \in DOMAIN uplink' : i \in DOMAIN uplink \/ uplink'[i].present
    BY <1>2, <1>3, <1>8
  <2>3. WillBeSet'
    BY <2>1, <2>2 DEF WillBeSet
  <2> QED BY <1>5, <1>7, <2>3 DEF Owned
<1>9. CASE ok /\ ~Bears(t)
  <2>1. ~mixed' => disk' = Clean
    BY <1>1, <1>9 DEF Cleaned
  <2> QED BY <1>5, <1>7, <2>1 DEF Owned
<1>10. CASE ~ok
  <2>1. WillBeSet => WillBeSet'
    <3>1. ASSUME NEW i, SetLater(i) PROVE SetLater(i)'
      BY <1>3, <3>1 DEF SetLater
    <3>2. \A i \in DOMAIN uplink' : i \in DOMAIN uplink \/ ~Speaks(uplink'[i])
      BY <1>2, <1>3, <1>10 DEF Speaks, Definite
    <3> QED BY <1>3, <3>1, <3>2 DEF WillBeSet
  <2>2. ASSUME ~mixed', ~partial', disk' # Clean PROVE Owned'
    <3>1. task[t].stage \notin {"staged", "done"}
      BY <1>10, <2>2
    <3>2. CASE WillBeSet
      BY <2>1, <3>2 DEF Owned
    <3>3. CASE \E s \in Tasks : task[s].stage \in {"staged", "done"} /\ Bears(s)
      BY <1>6, <3>1, <3>3 DEF Owned, Bears
    <3> QED BY <1>1, <1>10, <2>2, <3>2, <3>3 DEF Owned
  <2>3. Owned'
    BY <2>2 DEF Owned
  <2> QED BY <1>5, <1>7, <2>3
<1> QED BY <1>8, <1>9, <1>10

LEMMA RunnerKeeps ==
  ASSUME CredentialsAssumption, Inv, (\E t \in Tasks : RunnerStep(t)) \/ Fault \/ Beat
  PROVE  Stocked' /\ Alone' /\ Cleaned' /\ Owned' /\ StopTold'
<1> USE DEF row, runner
<1>1. ASSUME NEW t \in Tasks, Breaks(t), task[t].stage # "done", UNCHANGED <<disk, mixed, present>>
      PROVE  Stocked' /\ Alone' /\ Cleaned' /\ Owned' /\ StopTold'
  <2>1. "error" \in Words /\ FALSE \in BOOLEAN
    BY DEF Words
  <2> QED BY <1>1, <2>1, TellingKeeps DEF Breaks
<1>2. ASSUME NEW t \in Tasks, RunnerStep(t)
      PROVE  Stocked' /\ Alone' /\ Cleaned' /\ Owned' /\ StopTold'
  <2>1. present' = present
    BY <1>2 DEF RunnerStep
  <2>2. CASE (Starts(t) \/ Removes(t) \/ Stages(t) \/ Installs(t) \/ Halts(t)) /\ UNCHANGED uplink
    BY <2>1, <2>2, DiskKeeps
  <2>3. CASE Reports(t) /\ UNCHANGED runner
    <3> DEFINE kind == Told[task[t].kind]
    <3>1. /\ Tells(t, kind, TRUE) /\ task[t].stage = "done"
          /\ UNCHANGED <<disk, mixed, present, partial>>
      BY <2>1, <2>3 DEF Reports
    <3>2. task[t] \in Handler
      BY TypesParts DEF Inv, TaskOK
    <3>3. /\ kind \in Words /\ kind \in {"injected", "stopped", "resumed"}
          /\ (kind = "stopped" => task[t].kind = "stop")
      BY <3>2 DEF Told, Words, Handler
    <3> HIDE DEF kind
    <3>4. TRUE \in BOOLEAN
      OBVIOUS
    <3> QED BY <3>1, <3>3, <3>4, TellingKeeps
  <2>4. CASE CannotGoOn(t) /\ Breaks(t) /\ UNCHANGED <<up, disk, mixed>>
    <3>1. task[t].stage # "done"
      BY <2>4 DEF CannotGoOn, Under
    <3> QED BY <1>1, <2>1, <2>4, <3>1
  <2> QED BY <1>2, <2>2, <2>3, <2>4 DEF RunnerStep
<1>3. CASE Fault
  <2>1. present' = present
    BY <1>3 DEF Fault
  <2>2. CASE PowerOff
    <3>1. UNCHANGED <<task, uplink, present, disk, mixed, partial>>
      BY <2>1, <2>2 DEF PowerOff
    <3> QED BY <3>1 DEF Inv, Stocked, Alone, Cleaned, Owned, StopTold, Busy, Bears, WillBeSet, SetLater
  <2>3. ASSUME NEW t \in Tasks, Fails(t)
        PROVE  Stocked' /\ Alone' /\ Cleaned' /\ Owned' /\ StopTold'
    <3>1. task[t].stage # "done" /\ Breaks(t) /\ UNCHANGED <<disk, mixed>>
      BY <1>3, <2>3 DEF Fails, Under
    <3> QED BY <1>1, <2>1, <3>1
  <2> QED BY <1>3, <2>2, <2>3 DEF Fault
<1>4. CASE Beat
  <2> DEFINE m == [kind |-> "beat", task |-> None, ok |-> up, present |-> FALSE]
  <2>1. uplink \in Seq(Messages) /\ m \in Messages
    BY TypesParts DEF Inv, Messages, Words, Ids, DiskOK, UplinkOK
  <2>2. m.kind = "beat" /\ ~Speaks(m)
    BY DEF Speaks, Definite
  <2>3. uplink' = Append(uplink, m) /\ UNCHANGED <<task, present, disk, mixed, partial>>
    BY <1>4 DEF Beat
  <2> HIDE DEF m
  <2>4. /\ \A i \in DOMAIN uplink : i \in DOMAIN uplink' /\ uplink'[i] = uplink[i]
        /\ \A i \in DOMAIN uplink' : i \in DOMAIN uplink \/ uplink'[i] = m
    BY <2>1, <2>3, AppendProperties, Elements
  <2>5. StopTold'
    BY <2>2, <2>4 DEF Inv, StopTold
  <2>6. WillBeSet => WillBeSet'
    <3>1. ASSUME NEW i, SetLater(i) PROVE SetLater(i)'
      BY <2>4, <3>1 DEF SetLater
    <3> QED BY <2>2, <2>3, <2>4, <3>1 DEF WillBeSet
  <2>7. Stocked' /\ Alone' /\ Cleaned' /\ Owned'
    BY <2>3, <2>6 DEF Inv, Stocked, Alone, Cleaned, Owned, Busy, Bears
  <2> QED BY <2>5, <2>7
<1> QED BY <1>2, <1>3, <1>4

LEMMA InvStep == ASSUME CredentialsAssumption, Inv, [Next]_vars PROVE Inv'
<1> USE DEF row, runner
<1>1. Types'
  BY TypesStep DEF Inv
<1> SUFFICES Stocked' /\ Alone' /\ Cleaned' /\ Owned' /\ StopTold'
  BY <1>1 DEF Inv
<1>2. ASSUME NEW u \in Users, GiveUp(u) PROVE Stocked' /\ Alone' /\ Cleaned' /\ Owned' /\ StopTold'
  BY <1>2, BackendKeeps DEF GiveUp
<1>3. CASE Input
  <2>1. UNCHANGED <<runner, uplink, present, task>>
    BY <1>3 DEF Input, AskStop, AskResume, AskAttach, Ask
  <2> QED BY <2>1, BackendKeeps
<1>4. CASE RequestStep
  <2>1. UNCHANGED <<runner, uplink, present>>
    BY <1>4 DEF RequestStep, Attach, Resolve, InjectAndWait, Dispatch
  <2>2. \/ task' = task
        \/ \E t \in Tasks : \E kind, secret, waited : Sent(t, kind, secret, waited)
    <3>1. ASSUME NEW u \in Users, Attach(u) \/ Resolve(u) PROVE task' = task
      BY <3>1 DEF Attach, Resolve
    <3>2. ASSUME NEW u \in Users, NEW t \in Tasks, InjectAndWait(u, t) \/ Dispatch(u, t)
          PROVE  \E kind, secret, waited : Sent(t, kind, secret, waited)
      BY <3>2 DEF InjectAndWait, Dispatch
    <3> QED BY <1>4, <3>1, <3>2 DEF RequestStep
  <2> QED BY <2>1, <2>2, SentIsNew, BackendKeeps DEF Inv
<1>5. CASE SyncStep
  <2>1. UNCHANGED <<runner, uplink, present>>
    BY <1>5 DEF SyncStep, SyncResolve, SyncCheck, SyncSend
  <2>2. \/ task' = task
        \/ \E t \in Tasks : \E kind, secret, waited : Sent(t, kind, secret, waited)
    BY <1>5 DEF SyncStep, SyncResolve, SyncCheck, SyncSend
  <2> QED BY <2>1, <2>2, SentIsNew, BackendKeeps DEF Inv
<1>6. CASE UNCHANGED vars
  <2>1. UNCHANGED <<runner, uplink, present, task>>
    BY <1>6 DEF vars
  <2> QED BY <2>1, BackendKeeps
<1> QED BY <1>2, <1>3, <1>4, <1>5, <1>6, HandlerKeeps, RunnerKeeps DEF Next

LEMMA InvInit == ASSUME CredentialsAssumption, Init PROVE Inv
<1>1. /\ \A t \in Tasks : task[t].stage = "free"
      /\ uplink = <<>> /\ (disk # Clean => present)
  BY DEF Init, Free, Clean
<1>2. Stocked /\ Alone /\ Cleaned
  BY <1>1 DEF Stocked, Alone, Cleaned, Busy
<1>3. Owned /\ StopTold
  BY <1>1, EmptySeq DEF Owned, WillBeSet, StopTold
<1> QED BY <1>2, <1>3, TypesInit DEF Inv

(* With nothing under way, credential material on the disk is told by the flag *)
(* credentials_present, unless handlers overlapped on the disk or an injection *)
(* failed half-way since it was last removed: for any number of concurrent     *)
(* requests, reconciliations, late answers, time-outs and failed commands.     *)
THEOREM FlagTold == ASSUME CredentialsAssumption PROVE Spec => []FlagCovers
<1>1. Init => Inv
  BY InvInit
<1>2. Inv /\ [Next]_vars => Inv'
  BY InvStep
<1>3. Inv => FlagCovers
  <2> SUFFICES ASSUME Inv, Quiet, disk # Clean, ~mixed, ~partial PROVE present
    BY DEF FlagCovers
  <2>1. ~SetLater(0)
    BY DEF Quiet, SetLater, Definite
  <2>2. WillBeSet
    BY DEF Inv, Owned, Quiet
  <2> QED BY <2>1, <2>2 DEF WillBeSet
<1> QED BY <1>1, <1>2, <1>3, PTL DEF Spec
================================================================================
