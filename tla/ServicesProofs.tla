--------------------------- MODULE ServicesProofs ---------------------------
(****************************************************************************)
(* Theorems about RunnerRpc, for every set of requests of every kind and    *)
(* without the bounds of the runs: a call is answered at most once and only *)
(* with what the runner did (it implements RemoteCall), its registration    *)
(* ends with it, and a stream that ends has yielded all of its output.      *)
(****************************************************************************)
EXTENDS MCServices, SequenceLemmas, FiniteSetTheorems, FunctionTheorems

Unsent(r) == call[r] \in {"idle", "lookup", "sending"}
IsStart(m) == m.what = "start"

(* A request is sent once, and the runner does nothing for it before.       *)
NothingBefore == \A r \in Requests : Unsent(r) => remote[r] = "none"
SentWhileNothing ==
  \A i \in DOMAIN toRunner : IsStart(toRunner[i]) =>
    ~Unsent(toRunner[i].req) /\ remote[toRunner[i].req] = "none"
SentOnce ==
  \A i, j \in DOMAIN toRunner :
    IsStart(toRunner[i]) /\ IsStart(toRunner[j]) /\ toRunner[i].req = toRunner[j].req => i = j

(* Every answer, wherever it is on its way, is the end of the work.         *)
True(m) == m.what # "chunk" => remote[m.req] = m.what
WireTrue == \A i \in DOMAIN toBackend : True(toBackend[i])
PostedTrue == \A i \in DOMAIN posted : True(posted[i])
InboxTrue == \A r \in Requests : \A i \in DOMAIN inbox[r] :
               inbox[r][i].what # "chunk" => remote[r] = inbox[r][i].what

(* A call that waits has neither ended nor, before it was sent, yielded.    *)
NotEnded == \A r \in Requests : Unsent(r) \/ call[r] = "waiting" => outcome[r] = "none"
NotYielded == \A r \in Requests : Unsent(r) => got[r] = 0

Sends == NothingBefore /\ SentWhileNothing /\ SentOnce
Answered == WireTrue /\ PostedTrue /\ InboxTrue
Inv == TypeOK /\ Sends /\ Answered /\ NotEnded /\ NotYielded /\ RegistrationEnds
-----------------------------------------------------------------------------
(* Every variable keeps its type.                                           *)
LEMMA TypeStep == TypeOK /\ [Next]_vars => TypeOK'
<1> SUFFICES ASSUME TypeOK, [Next]_vars PROVE TypeOK'
  OBVIOUS
<1> USE DEF TypeOK
<1>0. \A m \in Items : m.req \in Requests /\ m.what \in {"chunk", "ok", "error"}
  BY DEF Items
<1>1. ASSUME NEW r \in Requests, Issue(r) PROVE TypeOK'
  BY <1>1 DEF Issue, At, linkVars, runVars
<1>2. ASSUME NEW r \in Requests, NEW why \in {"timeout", "cancelled", "failed", "error"},
             Abandon(r, why)
      PROVE  /\ call' \in [Requests -> {"idle", "lookup", "sending", "waiting", "closing", "done"}]
             /\ outcome' \in [Requests -> {"none", "ok", "error", "timeout", "cancelled", "failed"}]
             /\ registry' \in SUBSET Requests
             /\ notice' \in [Requests -> {"none", "lookup", "sending", "sent", "lost"}]
  BY <1>2 DEF Abandon
<1>3. ASSUME NEW r \in Requests, NEW sid, NEW what \in {"start", "cancel"},
             Delivered(sid, [req |-> r, what |-> what])
      PROVE  toRunner' \in Seq([req : Requests, what : {"start", "cancel"}])
  BY <1>3, Appended DEF Delivered
<1>4. ASSUME NEW r \in Requests, CallRuns(r) PROVE TypeOK'
  <2> USE DEF linkVars, runVars
  <2>1. CASE LookUp(r)
    BY <2>1 DEF LookUp, At
  <2>2. CASE RunnerOffline(r)
    BY <2>2, <1>2 DEF RunnerOffline
  <2>3. CASE Send(r)
    BY <2>3, <1>3 DEF Send, At
  <2>4. CASE TakeChunk(r)
    <3>1. inbox' \in [Requests -> Seq(Items)] /\ got' \in [Requests -> Nat]
      BY <2>4, Taken DEF TakeChunk
    <3>2. UNCHANGED <<call, target, outcome, registry, notice, posted, linkVars, toRunner,
                      toBackend, runVars>>
      BY <2>4 DEF TakeChunk
    <3> QED BY <3>1, <3>2
  <2>5. CASE TakeAnswer(r)
    <3>1. Head(inbox[r]) \in Items /\ inbox' \in [Requests -> Seq(Items)]
      BY <2>5, Taken DEF TakeAnswer
    <3>2. Head(inbox[r]).what \in {"ok", "error"}
      BY <2>5, <3>1, <1>0 DEF TakeAnswer
    <3>3. CASE Kind[r] = "stream" /\ Head(inbox[r]).what = "error"
      <4>1. /\ Abandon(r, "error")
            /\ UNCHANGED <<target, got, posted, linkVars, toRunner, toBackend, runVars>>
        <5> HIDE DEF TypeOK
        <5> QED BY <2>5, <3>3 DEF TakeAnswer
      <4> QED BY <3>1, <4>1, <1>2
    <3>4. CASE ~(Kind[r] = "stream" /\ Head(inbox[r]).what = "error")
      <4>1. /\ outcome' = [outcome EXCEPT ![r] = Head(inbox[r]).what]
            /\ call' = [call EXCEPT ![r] = "done"] /\ registry' = registry \ {r}
            /\ UNCHANGED <<notice, target, got, posted, linkVars, toRunner, toBackend, runVars>>
        <5> HIDE DEF TypeOK
        <5> QED BY <2>5, <3>4 DEF TakeAnswer
      <4> QED BY <3>1, <3>2, <4>1
    <3> QED BY <3>3, <3>4
  <2>6. CASE Return(r)
    BY <2>6 DEF Return, At
  <2> QED BY <1>4, <2>1, <2>2, <2>3, <2>4, <2>5, <2>6 DEF CallRuns
<1>5. ASSUME NEW r \in Requests, TimeOut(r) \/ Cancelled(r) PROVE TypeOK'
  <2> USE DEF linkVars, runVars
  <2>1. CASE TimeOut(r)
    BY <2>1, <1>2 DEF TimeOut
  <2>2. CASE Cancelled(r)
    <3>1. toRunner' \in Seq([req : Requests, what : {"start", "cancel"}])
      BY <2>2, <1>3 DEF Cancelled
    <3> QED BY <2>2, <3>1, <1>2 DEF Cancelled
  <2> QED BY <1>5, <2>1, <2>2
<1>6. ASSUME NEW r \in Requests, CancelledAgain(r) \/ NoticeRuns(r) PROVE TypeOK'
  <2> USE DEF linkVars, runVars, callVars
  <2>1. CASE CancelledAgain(r)
    BY <2>1 DEF CancelledAgain, At
  <2>2. CASE NoticeLooksUp(r)
    BY <2>2 DEF NoticeLooksUp
  <2>3. CASE NoticeSent(r)
    BY <2>3, <1>3 DEF NoticeSent
  <2> QED BY <1>6, <2>1, <2>2, <2>3 DEF NoticeRuns
<1>7. ASSUME NEW r \in Requests, Works(r) PROVE TypeOK'
  <2> USE DEF linkVars, callVars
  <2>1. ASSUME NEW what \in {"chunk", "ok", "error"}
        PROVE  Append(toBackend, [req |-> r, what |-> what]) \in Seq(Items)
    BY Appended DEF Items
  <2>2. CASE Prints(r)
    <3>1. /\ toBackend' \in Seq(Items)
          /\ printed' \in [Requests -> Nat]
          /\ remote' \in [Requests -> {"none", "running", "ok", "error", "silent", "cancelled", "lost"}]
      <4>1. CASE up
        <5>1. /\ toBackend' = Append(toBackend, [req |-> r, what |-> "chunk"])
              /\ printed' = [printed EXCEPT ![r] = @ + 1]
              /\ remote' = remote
          BY <2>2, <4>1 DEF Prints
        <5>2. toBackend' \in Seq(Items)
          BY <2>1, <5>1
        <5> QED BY <5>1, <5>2
      <4>2. CASE ~up
        BY <2>2, <4>2 DEF Prints
      <4> QED BY <4>1, <4>2
    <3> QED BY <2>2, <3>1 DEF Prints
  <2>3. CASE EndsSilently(r)
    BY <2>3 DEF EndsSilently
  <2>4. ASSUME NEW how \in {"ok", "error"}, Ends(r, how) PROVE TypeOK'
    BY <2>1, <2>4 DEF Ends
  <2> QED BY <1>7, <2>2, <2>3, <2>4 DEF Works
<1>8. CASE Route
  <2>1. toBackend' \in Seq(Items) /\ posted' \in Seq(Items)
    BY <1>8, Taken, Appended DEF Route
  <2> QED BY <1>8, <2>1 DEF Route, callVars, linkVars, runVars
<1>9. CASE RunPosted
  <2>1. posted' \in Seq(Items) /\ Head(posted) \in Items
    BY <1>9, Taken DEF RunPosted
  <2>2. inbox' \in [Requests -> Seq(Items)]
    BY <1>9, <2>1, <1>0, Appended DEF RunPosted
  <2> QED BY <1>9, <2>1, <2>2 DEF RunPosted, callVars, linkVars, runVars
<1>10. CASE Accept
  <2>1. /\ toRunner' \in Seq([req : Requests, what : {"start", "cancel"}])
        /\ Head(toRunner) \in [req : Requests, what : {"start", "cancel"}]
    BY <1>10, Taken DEF Accept
  <2> QED BY <1>10, <2>1 DEF Accept, callVars, linkVars
<1>11. ASSUME NEW restart \in BOOLEAN, Lose(restart) PROVE TypeOK'
  <2>1. PICK n \in 0..Len(toBackend) :
          /\ toBackend' = SubSeq(toBackend, 1, n)
          /\ cut' = cut \cup {toBackend[i].req : i \in (n + 1)..Len(toBackend)}
    BY <1>11 DEF Lose
  <2>2. toBackend' \in Seq(Items)
    BY <2>1, Cutoff
  <2>3. \A i \in (n + 1)..Len(toBackend) : toBackend[i] \in Items
    BY ElementOfSeq
  <2>4. cut' \in SUBSET Requests
    BY <2>1, <2>3, <1>0
  <2>5. toRunner' \in Seq([req : Requests, what : {"start", "cancel"}])
    BY <1>11, EmptySeq DEF Lose
  <2>6. /\ notice' \in [Requests -> {"none", "lookup", "sending", "sent", "lost"}]
        /\ remote' \in [Requests -> {"none", "running", "ok", "error", "silent", "cancelled", "lost"}]
    BY <1>11 DEF Lose
  <2> QED BY <1>11, <2>2, <2>4, <2>5, <2>6 DEF Lose, callVars
<1>12. CASE Unregister \/ Reconnect \/ Register
  <2> USE DEF callVars, runVars
  <2>1. UNCHANGED <<callVars, inbox, registry, notice, posted, toRunner, toBackend, runVars>>
    <3> HIDE DEF TypeOK
    <3> QED BY <1>12 DEF Unregister, Reconnect, Register
  <2>2. row' \in Nat /\ conn' \in Nat /\ up' \in BOOLEAN
    <3>1. row \in Nat /\ conn \in Nat /\ up \in BOOLEAN
      OBVIOUS
    <3> HIDE DEF TypeOK
    <3>2. row' \in {0, row, conn} /\ conn' \in {conn, conn + 1}
      BY <1>12 DEF Unregister, Reconnect, Register
    <3>3. up' = up \/ up' = TRUE
      BY <1>12 DEF Unregister, Reconnect, Register
    <3>4. up' \in BOOLEAN
      BY <3>1, <3>3
    <3> HIDE DEF callVars, runVars
    <3>5. row' \in Nat /\ conn' \in Nat
      BY <3>1, <3>2
    <3> QED BY <3>4, <3>5
  <2> QED BY <2>1, <2>2
<1>13. CASE UNCHANGED vars
  BY <1>13 DEF vars, callVars, linkVars, runVars
<1> QED
  BY <1>1, <1>4, <1>5, <1>6, <1>7, <1>8, <1>9, <1>10, <1>11, <1>12, <1>13 DEF Next
-----------------------------------------------------------------------------
(* A request stays sent, and work that has begun or ended stays so.         *)
StaysSent == \A q \in Requests : Unsent(q)' => Unsent(q)
StaysBegun == \A q \in Requests : remote[q] = "none" => remote'[q] = "none"
StaysEnded == \A q \in Requests : remote[q] \in {"ok", "error"} => remote'[q] = remote[q]

ToRunner == [req : Requests, what : {"start", "cancel"}]

LEMMA ToRunnerType ==
  ASSUME TypeOK
  PROVE  /\ toRunner \in Seq(ToRunner)
         /\ \A r \in Requests : [req |-> r, what |-> "start"] \in ToRunner
                             /\ [req |-> r, what |-> "cancel"] \in ToRunner
         /\ \A m \in ToRunner : m.req \in Requests
BY DEF TypeOK, ToRunner

LEMMA CallSteps ==
  ASSUME TypeOK, NEW r \in Requests,
         Issue(r) \/ CallRuns(r) \/ TimeOut(r) \/ Cancelled(r) \/ CancelledAgain(r)
  PROVE  /\ StaysSent /\ remote' = remote
         /\ \A q \in Requests \ {r} : call'[q] = call[q]
<1> USE DEF TypeOK, StaysSent, Unsent
<1>1. ASSUME NEW why, Abandon(r, why), call[r] \notin {"idle", "closing", "done"}
      PROVE  StaysSent /\ \A q \in Requests \ {r} : call'[q] = call[q]
  <2>1. PICK to \in {"closing", "done"} : call' = [call EXCEPT ![r] = to]
    BY <1>1 DEF Abandon
  <2> QED BY <2>1
<1>2. CASE Issue(r)
  BY <1>2 DEF Issue, At, runVars
<1>3. CASE LookUp(r)
  BY <1>3 DEF LookUp, At, runVars
<1>4. CASE RunnerOffline(r)
  BY <1>1, <1>4 DEF RunnerOffline, runVars
<1>5. CASE Send(r)
  BY <1>5 DEF Send, At, runVars
<1>6. CASE TakeChunk(r)
  BY <1>6 DEF TakeChunk, runVars
<1>7. CASE TakeAnswer(r)
  <2>1. CASE Kind[r] = "stream" /\ Head(inbox[r]).what = "error"
    BY <1>1, <1>7, <2>1 DEF TakeAnswer, runVars
  <2>2. CASE ~(Kind[r] = "stream" /\ Head(inbox[r]).what = "error")
    BY <1>7, <2>2 DEF TakeAnswer, runVars
  <2> QED BY <2>1, <2>2
<1>8. CASE Return(r)
  BY <1>8 DEF Return, At, runVars
<1>9. CASE TimeOut(r)
  BY <1>1, <1>9 DEF TimeOut, runVars
<1>10. CASE Cancelled(r)
  BY <1>1, <1>10 DEF Cancelled, runVars
<1>11. CASE CancelledAgain(r)
  BY <1>11 DEF CancelledAgain, At, runVars
<1> QED
  BY <1>2, <1>3, <1>4, <1>5, <1>6, <1>7, <1>8, <1>9, <1>10, <1>11 DEF CallRuns

(* The runner's work goes on from "running" only.                           *)
LEMMA WorkSteps ==
  ASSUME TypeOK, NEW r \in Requests, Works(r)
  PROVE  /\ remote[r] = "running" /\ remote'[r] # "none"
         /\ \A q \in Requests \ {r} : remote'[q] = remote[q]
         /\ UNCHANGED <<callVars, inbox, registry, notice, posted, linkVars, toRunner, cut>>
<1> USE DEF TypeOK
<1>1. CASE Prints(r)
  <2>1. CASE up
    BY <1>1, <2>1 DEF Prints
  <2>2. CASE ~up
    BY <1>1, <2>2 DEF Prints
  <2> QED BY <2>1, <2>2
<1>2. CASE EndsSilently(r)
  BY <1>2 DEF EndsSilently
<1>3. ASSUME NEW how \in {"ok", "error"}, Ends(r, how)
      PROVE  /\ remote[r] = "running" /\ remote'[r] # "none"
             /\ \A q \in Requests \ {r} : remote'[q] = remote[q]
             /\ UNCHANGED <<callVars, inbox, registry, notice, posted, linkVars, toRunner, cut>>
  BY <1>3 DEF Ends
<1> QED BY <1>1, <1>2, <1>3 DEF Works
-----------------------------------------------------------------------------
(* A request is sent once, and the runner does nothing for it before.       *)
LEMMA SendsUndisturbed ==
  ASSUME TypeOK, Sends, StaysSent, remote' = remote, toRunner' = toRunner
  PROVE  Sends'
<1>1. \A i \in DOMAIN toRunner : toRunner[i] \in ToRunner
  BY Elements, ToRunnerType
<1> QED
  BY <1>1 DEF Sends, NothingBefore, SentWhileNothing, SentOnce, StaysSent, IsStart, ToRunner, Unsent

LEMMA SendsCancel ==
  ASSUME TypeOK, Sends, NEW r \in Requests, NEW sid, call' = call, remote' = remote,
         Delivered(sid, [req |-> r, what |-> "cancel"])
  PROVE  Sends'
<1> DEFINE c == [req |-> r, what |-> "cancel"]
<1>1. CASE toRunner' = toRunner
  BY <1>1, SendsUndisturbed DEF StaysSent, Unsent
<1>2. CASE toRunner' = Append(toRunner, c)
  <2>1. \A i \in DOMAIN toRunner' : ~IsStart(toRunner'[i]) \/ (i \in DOMAIN toRunner /\ toRunner'[i] = toRunner[i])
    BY <1>2, ToRunnerType, Appended DEF IsStart
  <2> QED BY <2>1 DEF Sends, NothingBefore, SentWhileNothing, SentOnce, Unsent, IsStart
<1> QED BY <1>1, <1>2 DEF Delivered

LEMMA SendsStart ==
  ASSUME TypeOK, Sends, NEW r \in Requests, NEW sid, call[r] = "sending",
         StaysSent, ~Unsent(r)', remote' = remote,
         Delivered(sid, [req |-> r, what |-> "start"])
  PROVE  Sends'
<1> DEFINE c == [req |-> r, what |-> "start"]
<1>0. remote[r] = "none" /\ Unsent(r)
  BY DEF Sends, NothingBefore, Unsent
<1>1. CASE toRunner' = toRunner
  BY <1>1, SendsUndisturbed
<1>2. CASE toRunner' = Append(toRunner, c)
  <2>1. \A i \in DOMAIN toRunner' :
          \/ i \in DOMAIN toRunner /\ toRunner'[i] = toRunner[i]
          \/ i = Len(toRunner) + 1 /\ toRunner'[i] = c
    BY <1>2, ToRunnerType, Appended
  <2>2. \A i \in DOMAIN toRunner : toRunner[i].req \in Requests
    BY Elements, ToRunnerType
  <2>3. \A i \in DOMAIN toRunner : IsStart(toRunner[i]) => toRunner[i].req # r
    BY <1>0 DEF Sends, SentWhileNothing
  <2>4. SentWhileNothing'
    BY <1>0, <2>1, <2>2 DEF Sends, SentWhileNothing, StaysSent, IsStart
  <2>5. SentOnce'
    BY <2>1, <2>3 DEF Sends, SentOnce, IsStart
  <2> QED BY <2>4, <2>5 DEF Sends, NothingBefore, StaysSent
<1> QED BY <1>1, <1>2 DEF Delivered

LEMMA SendsAccept == ASSUME TypeOK, Sends, Accept PROVE Sends' /\ StaysEnded
<1> DEFINE m == Head(toRunner)
<1>1. /\ m = toRunner[1] /\ 1 \in DOMAIN toRunner /\ m \in ToRunner
      /\ \A i \in DOMAIN toRunner' : i \in Nat /\ i + 1 \in DOMAIN toRunner /\ i # 0
                                     /\ toRunner'[i] = toRunner[i + 1]
  BY Taken, ToRunnerType DEF Accept
<1>2. /\ call' = call
      /\ \A q \in Requests : q # m.req => remote'[q] = remote[q]
      /\ IsStart(m) => ~Unsent(m.req) /\ remote[m.req] = "none"
      /\ ~IsStart(m) => remote'[m.req] = remote[m.req]
                          \/ (remote[m.req] = "running" /\ remote'[m.req] = "cancelled")
      /\ m.req \in Requests
  BY <1>1 DEF Accept, TypeOK, callVars, Sends, SentWhileNothing, IsStart, ToRunner
<1>3. NothingBefore'
  BY <1>2 DEF Sends, NothingBefore, Unsent
<1>4. \A i \in DOMAIN toRunner' : IsStart(toRunner'[i]) => ~IsStart(m) \/ toRunner'[i].req # m.req
  BY <1>1 DEF Sends, SentOnce
<1>5. \A i \in DOMAIN toRunner : toRunner[i].req \in Requests
  BY Elements, ToRunnerType
<1>6. SentWhileNothing'
  <2> SUFFICES ASSUME NEW i \in DOMAIN toRunner', IsStart(toRunner'[i]),
                      NEW q, q = toRunner'[i].req
               PROVE  ~Unsent(q)' /\ remote'[q] = "none"
    BY DEF SentWhileNothing, IsStart, Unsent
  <2>1. q \in Requests /\ ~Unsent(q) /\ remote[q] = "none"
    BY <1>1, <1>5 DEF Sends, SentWhileNothing, IsStart
  <2>2. remote'[q] = "none"
    BY <1>2, <1>4, <2>1
  <2> QED BY <1>2, <2>1, <2>2 DEF Unsent
<1>7. SentOnce'
  <2> SUFFICES ASSUME NEW i \in DOMAIN toRunner', NEW j \in DOMAIN toRunner',
                      IsStart(toRunner'[i]), IsStart(toRunner'[j]), toRunner'[i].req = toRunner'[j].req
               PROVE  i = j
    BY DEF SentOnce, IsStart
  <2>1. i + 1 = j + 1
    BY <1>1 DEF Sends, SentOnce
  <2> QED BY <1>1, <2>1
<1>8. StaysEnded
  BY <1>2 DEF StaysEnded
<1> QED BY <1>3, <1>6, <1>7, <1>8 DEF Sends

LEMMA SendsLose ==
  ASSUME TypeOK, Sends, NEW restart \in BOOLEAN, Lose(restart)
  PROVE  Sends' /\ StaysEnded
<1>1. /\ toRunner' = <<>> /\ call' = call
      /\ \A q \in Requests : remote'[q] = remote[q]
                           \/ (remote[q] = "running" /\ remote'[q] = "lost")
  BY DEF Lose, TypeOK, callVars
<1>2. DOMAIN toRunner' = {}
  BY <1>1, EmptySeq
<1> QED
  BY <1>1, <1>2 DEF Sends, NothingBefore, SentWhileNothing, SentOnce, StaysEnded, Unsent

LEMMA SendsStep == TypeOK /\ Sends /\ [Next]_vars => Sends' /\ StaysEnded
<1> SUFFICES ASSUME TypeOK, Sends, [Next]_vars PROVE Sends' /\ StaysEnded
  OBVIOUS
<1>0. ASSUME remote' = remote PROVE StaysEnded
  BY <1>0 DEF StaysEnded
<1>1. ASSUME call' = call, remote' = remote, toRunner' = toRunner PROVE Sends' /\ StaysEnded
  BY <1>0, <1>1, SendsUndisturbed DEF StaysSent, Unsent
<1>2. ASSUME NEW r \in Requests,
             Issue(r) \/ CallRuns(r) \/ TimeOut(r) \/ Cancelled(r) \/ CancelledAgain(r)
      PROVE  Sends' /\ StaysEnded
  <2>1. StaysSent /\ remote' = remote
    BY <1>2, CallSteps
  <2>2. CASE toRunner' = toRunner
    BY <1>0, <2>1, <2>2, SendsUndisturbed
  <2>3. CASE Send(r)
    <3>1. call[r] = "sending" /\ ~Unsent(r)' /\ Delivered(target[r], [req |-> r, what |-> "start"])
      BY <2>3 DEF Send, At, Unsent, TypeOK
    <3> QED BY <1>0, <2>1, <3>1, SendsStart
  <2>4. CASE Cancelled(r) /\ toRunner' # toRunner
    <3>1. call[r] = "sending" /\ ~Unsent(r)' /\ Delivered(target[r], [req |-> r, what |-> "start"])
      BY <2>4 DEF Cancelled, Abandon, Unsent, TypeOK
    <3> QED BY <1>0, <2>1, <3>1, SendsStart
  <2>5. Send(r) \/ Cancelled(r) \/ toRunner' = toRunner
    BY <1>2 DEF Issue, CallRuns, LookUp, RunnerOffline, TakeChunk, TakeAnswer, Return, TimeOut,
                CancelledAgain
  <2> QED BY <2>2, <2>3, <2>4, <2>5
<1>3. ASSUME NEW r \in Requests, NoticeRuns(r) PROVE Sends' /\ StaysEnded
  <2>1. CASE NoticeLooksUp(r)
    BY <1>1, <2>1 DEF NoticeLooksUp, runVars
  <2>2. CASE NoticeSent(r)
    <3>1. /\ call' = call /\ remote' = remote
          /\ Delivered(target[r], [req |-> r, what |-> "cancel"])
      BY <2>2 DEF NoticeSent, callVars, runVars
    <3> QED BY <1>0, <3>1, SendsCancel
  <2> QED BY <1>3, <2>1, <2>2 DEF NoticeRuns
<1>4. ASSUME NEW r \in Requests, Works(r) PROVE Sends' /\ StaysEnded
  <2>1. /\ remote[r] = "running" /\ remote'[r] # "none"
        /\ \A q \in Requests \ {r} : remote'[q] = remote[q]
        /\ call' = call /\ toRunner' = toRunner
    BY <1>4, WorkSteps DEF callVars
  <2>2. \A i \in DOMAIN toRunner : toRunner[i].req \in Requests
    BY Elements, ToRunnerType
  <2>3. SentWhileNothing'
    BY <2>1, <2>2 DEF Sends, SentWhileNothing, Unsent, IsStart
  <2>4. NothingBefore' /\ SentOnce'
    BY <2>1 DEF Sends, NothingBefore, SentOnce, Unsent, IsStart
  <2> QED BY <2>1, <2>3, <2>4 DEF Sends, StaysEnded
<1>5. CASE Accept
  BY <1>5, SendsAccept
<1>6. ASSUME NEW restart \in BOOLEAN, Lose(restart) PROVE Sends' /\ StaysEnded
  BY <1>6, SendsLose
<1>7. CASE Route \/ RunPosted
  BY <1>1, <1>7 DEF Route, RunPosted, callVars, runVars
<1>8. CASE Unregister \/ Reconnect \/ Register
  BY <1>1, <1>8 DEF Unregister, Reconnect, Register, callVars, runVars
<1>9. CASE UNCHANGED vars
  BY <1>1, <1>9 DEF vars, callVars, runVars
<1> QED BY <1>2, <1>3, <1>4, <1>5, <1>6, <1>7, <1>8, <1>9 DEF Next
-----------------------------------------------------------------------------
(* Every answer, wherever it is on its way, is the end of the work.         *)
LEMMA ItemTypes ==
  ASSUME TypeOK
  PROVE  /\ \A i \in DOMAIN toBackend : toBackend[i] \in Items
         /\ \A i \in DOMAIN posted : posted[i] \in Items
         /\ \A r \in Requests : \A i \in DOMAIN inbox[r] : inbox[r][i] \in Items
         /\ \A m \in Items : m.req \in Requests /\ m.what \in {"chunk", "ok", "error"}
         /\ \A r \in Requests : \A what \in {"chunk", "ok", "error"} : [req |-> r, what |-> what] \in Items
<1>1. \A m \in Items : m.req \in Requests /\ m.what \in {"chunk", "ok", "error"}
  BY DEF Items
<1>2. \A r \in Requests : \A what \in {"chunk", "ok", "error"} : [req |-> r, what |-> what] \in Items
  BY DEF Items
<1>3. /\ \A i \in DOMAIN toBackend : toBackend[i] \in Items
      /\ \A i \in DOMAIN posted : posted[i] \in Items
      /\ \A r \in Requests : \A i \in DOMAIN inbox[r] : inbox[r][i] \in Items
  BY Elements DEF TypeOK
<1> QED BY <1>1, <1>2, <1>3

LEMMA WireKept ==
  ASSUME TypeOK, WireTrue, StaysEnded,
         \A i \in DOMAIN toBackend' : \E j \in DOMAIN toBackend : toBackend'[i] = toBackend[j]
  PROVE  WireTrue'
<1> SUFFICES ASSUME NEW i \in DOMAIN toBackend', NEW m, m = toBackend'[i], m.what # "chunk"
             PROVE  remote'[m.req] = m.what
  BY DEF WireTrue, True
<1>1. m \in Items /\ remote[m.req] = m.what
  BY ItemTypes DEF WireTrue, True
<1> QED BY <1>1, ItemTypes DEF StaysEnded

LEMMA PostedKept ==
  ASSUME TypeOK, Answered, StaysEnded,
         \A i \in DOMAIN posted' :
           \/ \E j \in DOMAIN posted : posted'[i] = posted[j]
           \/ \E j \in DOMAIN toBackend : posted'[i] = toBackend[j]
  PROVE  PostedTrue'
<1> SUFFICES ASSUME NEW i \in DOMAIN posted', NEW m, m = posted'[i], m.what # "chunk"
             PROVE  remote'[m.req] = m.what
  BY DEF PostedTrue, True
<1>1. m \in Items /\ remote[m.req] = m.what
  BY ItemTypes DEF Answered, WireTrue, PostedTrue, True
<1> QED BY <1>1, ItemTypes DEF StaysEnded

LEMMA InboxKept ==
  ASSUME TypeOK, Answered, StaysEnded,
         \A r \in Requests : \A i \in DOMAIN inbox'[r] :
           \/ \E j \in DOMAIN inbox[r] : inbox'[r][i] = inbox[r][j]
           \/ \E j \in DOMAIN posted : inbox'[r][i] = posted[j] /\ posted[j].req = r
  PROVE  InboxTrue'
<1> SUFFICES ASSUME NEW r \in Requests, NEW i \in DOMAIN inbox'[r], NEW m, m = inbox'[r][i],
                    m.what # "chunk"
             PROVE  remote'[r] = m.what
  BY DEF InboxTrue
<1>1. m \in Items /\ remote[r] = m.what
  BY ItemTypes DEF Answered, PostedTrue, InboxTrue, True
<1> QED BY <1>1, ItemTypes DEF StaysEnded
LEMMA WireWorks ==
  ASSUME TypeOK, WireTrue, StaysEnded, NEW r \in Requests, Works(r)
  PROVE  WireTrue'
<1>1. CASE toBackend' = toBackend
  BY <1>1, WireKept
<1>2. ASSUME NEW what \in {"chunk", "ok", "error"}, what # "chunk" => remote'[r] = what,
             toBackend' = Append(toBackend, [req |-> r, what |-> what])
      PROVE  WireTrue'
  <2> DEFINE e == [req |-> r, what |-> what]
  <2>1. toBackend \in Seq(Items) /\ e \in Items
    BY ItemTypes DEF TypeOK
  <2>2. \A i \in DOMAIN toBackend' :
          \/ i \in DOMAIN toBackend /\ toBackend'[i] = toBackend[i]
          \/ toBackend'[i] = e
    BY <1>2, <2>1, Appended
  <2> SUFFICES ASSUME NEW i \in DOMAIN toBackend', NEW m, m = toBackend'[i], m.what # "chunk"
               PROVE  remote'[m.req] = m.what
    BY DEF WireTrue, True
  <2>3. CASE m = e
    BY <1>2, <2>3
  <2>4. CASE i \in DOMAIN toBackend /\ m = toBackend[i]
    <3>1. m \in Items /\ remote[m.req] = m.what
      BY <2>4, ItemTypes DEF WireTrue, True
    <3> QED BY <3>1, ItemTypes DEF StaysEnded
  <2> QED BY <2>2, <2>3, <2>4
<1>3. CASE Prints(r)
  BY <1>1, <1>2, <1>3 DEF Prints
<1>4. CASE EndsSilently(r)
  BY <1>1, <1>4 DEF EndsSilently
<1>5. ASSUME NEW how \in {"ok", "error"}, Ends(r, how) PROVE WireTrue'
  <2>1. remote'[r] = how
    BY <1>5 DEF Ends, TypeOK
  <2> QED BY <1>1, <1>2, <1>5, <2>1 DEF Ends
<1> QED BY <1>3, <1>4, <1>5 DEF Works

LEMMA AnsweredStep ==
  ASSUME TypeOK, Answered, StaysEnded, [Next]_vars
  PROVE  Answered'
<1> USE DEF Answered
<1>1. ASSUME toBackend' = toBackend PROVE WireTrue'
  BY <1>1, WireKept
<1>2. ASSUME posted' = posted PROVE PostedTrue'
  BY <1>2, PostedKept
<1>3. ASSUME inbox' = inbox PROVE InboxTrue'
  BY <1>3, InboxKept
<1>4. ASSUME NEW r \in Requests, TakeChunk(r) \/ TakeAnswer(r) PROVE Answered'
  <2>1. /\ toBackend' = toBackend /\ posted' = posted
        /\ inbox[r] # <<>> /\ inbox' = [inbox EXCEPT ![r] = Tail(@)]
    BY <1>4 DEF TakeChunk, TakeAnswer
  <2>2. \A i \in DOMAIN Tail(inbox[r]) : i + 1 \in DOMAIN inbox[r] /\ Tail(inbox[r])[i] = inbox[r][i + 1]
    BY <2>1, Taken DEF TypeOK
  <2>3. \A q \in Requests : \A i \in DOMAIN inbox'[q] :
          \E j \in DOMAIN inbox[q] : inbox'[q][i] = inbox[q][j]
    BY <2>1, <2>2 DEF TypeOK
  <2>4. InboxTrue'
    BY <2>3, InboxKept
  <2> QED BY <1>1, <1>2, <2>1, <2>4
<1>5. ASSUME NEW r \in Requests,
             \/ Issue(r) \/ LookUp(r) \/ RunnerOffline(r) \/ Send(r) \/ Return(r)
             \/ TimeOut(r) \/ Cancelled(r) \/ CancelledAgain(r) \/ NoticeRuns(r)
      PROVE  Answered'
  <2>1. toBackend' = toBackend /\ posted' = posted /\ inbox' = inbox
    BY <1>5 DEF Issue, LookUp, RunnerOffline, Send, Return, TimeOut, Cancelled, CancelledAgain,
                NoticeRuns, NoticeLooksUp, NoticeSent
  <2> QED BY <1>1, <1>2, <1>3, <2>1
<1>6. ASSUME NEW r \in Requests, Works(r) PROVE Answered'
  <2>1. posted' = posted /\ inbox' = inbox
    BY <1>6, WorkSteps
  <2> QED BY <1>2, <1>3, <1>6, <2>1, WireWorks
<1>7. CASE Route
  <2>1. /\ toBackend # <<>> /\ toBackend' = Tail(toBackend) /\ inbox' = inbox
        /\ posted' = posted \/ posted' = Append(posted, Head(toBackend))
    BY <1>7 DEF Route
  <2>2. /\ Head(toBackend) \in Items /\ Head(toBackend) = toBackend[1] /\ 1 \in DOMAIN toBackend
        /\ \A i \in DOMAIN toBackend' : i + 1 \in DOMAIN toBackend /\ toBackend'[i] = toBackend[i + 1]
    BY <2>1, Taken DEF TypeOK
  <2>3. WireTrue'
    BY <2>2, WireKept
  <2>4. CASE posted' = Append(posted, Head(toBackend))
    <3>1. \A i \in DOMAIN posted' :
            (i \in DOMAIN posted /\ posted'[i] = posted[i]) \/ posted'[i] = toBackend[1]
      BY <2>2, <2>4, Appended DEF TypeOK
    <3> QED BY <1>3, <2>1, <2>2, <2>3, <3>1, PostedKept
  <2> QED BY <1>2, <1>3, <2>1, <2>3, <2>4
<1>8. CASE RunPosted
  <2> DEFINE m == Head(posted)
  <2>1. /\ posted # <<>> /\ posted' = Tail(posted) /\ toBackend' = toBackend
        /\ inbox' = inbox \/ inbox' = [inbox EXCEPT ![m.req] = Append(@, m)]
    BY <1>8 DEF RunPosted
  <2>2. /\ m \in Items /\ m = posted[1] /\ 1 \in DOMAIN posted
        /\ \A i \in DOMAIN posted' : i + 1 \in DOMAIN posted /\ posted'[i] = posted[i + 1]
    BY <2>1, Taken DEF TypeOK
  <2>3. PostedTrue'
    BY <2>2, PostedKept
  <2>4. CASE inbox' = [inbox EXCEPT ![m.req] = Append(@, m)]
    <3>1. m.req \in Requests
      BY <2>2, ItemTypes
    <3>2. \A i \in DOMAIN Append(inbox[m.req], m) :
            \/ i \in DOMAIN inbox[m.req] /\ Append(inbox[m.req], m)[i] = inbox[m.req][i]
            \/ Append(inbox[m.req], m)[i] = m
      BY <2>2, <3>1, Appended DEF TypeOK
    <3>3. \A q \in Requests : \A i \in DOMAIN inbox'[q] :
            \/ \E j \in DOMAIN inbox[q] : inbox'[q][i] = inbox[q][j]
            \/ inbox'[q][i] = m /\ m.req = q
      BY <2>4, <3>1, <3>2 DEF TypeOK
    <3>4. InboxTrue'
      BY <2>2, <3>3, InboxKept
    <3> QED BY <1>1, <2>1, <2>3, <3>4
  <2> QED BY <1>1, <1>3, <2>1, <2>3, <2>4
<1>9. ASSUME NEW restart \in BOOLEAN, Lose(restart) PROVE Answered'
  <2>1. PICK n \in 0..Len(toBackend) : toBackend' = SubSeq(toBackend, 1, n)
    BY <1>9 DEF Lose
  <2>2. \A i \in DOMAIN toBackend' : i \in DOMAIN toBackend /\ toBackend'[i] = toBackend[i]
    BY <2>1, Cutoff DEF TypeOK
  <2>3. posted' = posted /\ inbox' = inbox
    BY <1>9 DEF Lose
  <2> QED BY <1>2, <1>3, <2>2, <2>3, WireKept
<1>10. CASE Accept \/ Unregister \/ Reconnect \/ Register \/ UNCHANGED vars
  <2>1. toBackend' = toBackend /\ posted' = posted /\ inbox' = inbox
    BY <1>10 DEF Accept, Unregister, Reconnect, Register, vars
  <2> QED BY <1>1, <1>2, <1>3, <2>1
<1> QED
  BY <1>4, <1>5, <1>6, <1>7, <1>8, <1>9, <1>10 DEF Next, CallRuns
-----------------------------------------------------------------------------
(* A call that waits has neither ended nor, before it was sent, yielded;    *)
(* its registration ends with it.                                           *)
Waits == NotEnded /\ NotYielded /\ RegistrationEnds

LEMMA WaitsAbandon ==
  ASSUME TypeOK, Waits, NEW r \in Requests, NEW why, Abandon(r, why), got' = got,
         call[r] = "waiting" \/ (call[r] \in {"lookup", "sending"} /\ why \in {"failed", "cancelled"})
  PROVE  Waits'
<1> USE DEF TypeOK, Waits, NotEnded, NotYielded, RegistrationEnds, Unsent
<1>1. CASE Kind[r] = "stream" /\ call[r] # "waiting"
  BY <1>1 DEF Abandon
<1>2. CASE ~(Kind[r] = "stream" /\ call[r] # "waiting")
  BY <1>2 DEF Abandon
<1> QED BY <1>1, <1>2

LEMMA WaitsStep == ASSUME TypeOK, Waits, [Next]_vars PROVE Waits'
<1> USE DEF TypeOK, Waits, NotEnded, NotYielded, RegistrationEnds, Unsent
<1>1. ASSUME UNCHANGED <<callVars, registry>> PROVE Waits'
  BY <1>1 DEF callVars
<1>2. ASSUME NEW r \in Requests, Issue(r) PROVE Waits'
  BY <1>2 DEF Issue, At
<1>3. ASSUME NEW r \in Requests, CallRuns(r) PROVE Waits'
  <2>1. CASE LookUp(r) \/ Send(r)
    <3>1. PICK to \in {"sending", "waiting"} :
            /\ call[r] \in {"lookup", "sending"} /\ call' = [call EXCEPT ![r] = to]
            /\ UNCHANGED <<outcome, got, registry>>
      <4> HIDE DEF TypeOK
      <4> QED BY <2>1 DEF LookUp, Send, At
    <3> QED BY <3>1
  <2>2. CASE RunnerOffline(r)
    BY <2>2, WaitsAbandon DEF RunnerOffline
  <2>3. CASE TakeChunk(r)
    BY <2>3 DEF TakeChunk
  <2>4. CASE TakeAnswer(r)
    <3>1. CASE Kind[r] = "stream" /\ Head(inbox[r]).what = "error"
      BY <2>4, <3>1, WaitsAbandon DEF TakeAnswer
    <3>2. CASE ~(Kind[r] = "stream" /\ Head(inbox[r]).what = "error")
      <4> DEFINE how == Head(inbox[r]).what
      <4>1. /\ outcome' = [outcome EXCEPT ![r] = how] /\ call' = [call EXCEPT ![r] = "done"]
            /\ registry' = registry \ {r} /\ got' = got
        BY <2>4, <3>2 DEF TakeAnswer
      <4> HIDE DEF how
      <4>2. NotEnded' /\ NotYielded'
        BY <4>1
      <4>3. RegistrationEnds'
        BY <4>1
      <4> QED BY <4>2, <4>3
    <3> QED BY <3>1, <3>2
  <2>5. CASE Return(r)
    BY <2>5 DEF Return, At
  <2> QED BY <1>3, <2>1, <2>2, <2>3, <2>4, <2>5 DEF CallRuns
<1>4. ASSUME NEW r \in Requests, TimeOut(r) \/ Cancelled(r) PROVE Waits'
  BY <1>4, WaitsAbandon DEF TimeOut, Cancelled
<1>5. ASSUME NEW r \in Requests, CancelledAgain(r) PROVE Waits'
  BY <1>5 DEF CancelledAgain, At
<1>6. ASSUME NEW r \in Requests, NoticeRuns(r) PROVE Waits'
  <2>1. CASE NoticeLooksUp(r)
    BY <2>1 DEF NoticeLooksUp
  <2>2. CASE NoticeSent(r)
    BY <1>1, <2>2 DEF NoticeSent
  <2> QED BY <1>6, <2>1, <2>2 DEF NoticeRuns
<1>7. ASSUME NEW r \in Requests, Works(r) PROVE Waits'
  BY <1>1, <1>7, WorkSteps
<1>8. ASSUME NEW restart \in BOOLEAN, Lose(restart) PROVE Waits'
  BY <1>1, <1>8 DEF Lose
<1>9. CASE Route \/ RunPosted \/ Accept \/ Unregister \/ Reconnect \/ Register \/ UNCHANGED vars
  BY <1>1, <1>9 DEF Route, RunPosted, Accept, Unregister, Reconnect, Register, vars
<1> QED
  BY <1>2, <1>3, <1>4, <1>5, <1>6, <1>7, <1>8, <1>9 DEF Next
-----------------------------------------------------------------------------
LEMMA InvHolds == Spec => []Inv
<1>1. Init => Inv
  <2> SUFFICES ASSUME Init PROVE Inv
    OBVIOUS
  <2>1. TypeOK
    BY EmptySeq DEF Init, TypeOK
  <2>2. /\ DOMAIN toRunner = {} /\ DOMAIN toBackend = {} /\ DOMAIN posted = {}
        /\ \A r \in Requests : DOMAIN inbox[r] = {}
    BY DEF Init
  <2> QED
    BY <2>1, <2>2 DEF Init, Inv, Sends, NothingBefore, SentWhileNothing, SentOnce, Answered, WireTrue,
       PostedTrue, InboxTrue, NotEnded, NotYielded, RegistrationEnds
<1>2. Inv /\ [Next]_vars => Inv'
  BY TypeStep, SendsStep, AnsweredStep, WaitsStep DEF Inv, Waits
<1> QED BY <1>1, <1>2, PTL DEF Spec

(* The variables of RunnerRpc have their types.                             *)
THEOREM RpcTypeCorrect == Spec => []TypeOK
<1>1. Inv => TypeOK
  BY DEF Inv
<1> QED BY <1>1, InvHolds, PTL

(* However a call ends, its registration ends with it, save the stream that *)
(* was abandoned before it was sent.                                        *)
THEOREM RegistrationsEnd == Spec => []RegistrationEnds
<1>1. Inv => RegistrationEnds
  BY DEF Inv
<1> QED BY <1>1, InvHolds, PTL
-----------------------------------------------------------------------------
(* RunnerRpc implements RemoteCall: how a step looks through the mapping.   *)
Looks == [r \in Requests |-> StatusOf(r)]
Labours == [r \in Requests |-> WorkOf(r)]

LEMMA LookSame ==
  ASSUME TypeOK, outcome' = outcome,
         \A r \in Requests : (call'[r] = "idle") <=> (call[r] = "idle")
  PROVE  Looks' = Looks
BY DEF Looks, StatusOf

LEMMA LabourSame == ASSUME remote' = remote PROVE Labours' = Labours
BY DEF Labours, WorkOf

LEMMA LabourEnds ==
  ASSUME TypeOK, Looks' = Looks,
         \A r \in Requests : \/ WorkOf(r)' = WorkOf(r)
                             \/ WorkOf(r) = "running" /\ WorkOf(r)' \in {"ok", "error", "stopped"}
  PROVE  Promise!Finish
<1> DEFINE how == [r \in Requests |->
                     IF WorkOf(r)' \in {"ok", "error", "stopped"} THEN WorkOf(r)' ELSE "stopped"]
           ended == {r \in Requests : WorkOf(r) = "running" /\ WorkOf(r)' # "running"}
<1>1. how \in [Requests -> {"ok", "error"} \cup {"stopped"}] /\ ended \in SUBSET Requests
  OBVIOUS
<1>2. \A r \in ended : Labours[r] = "running"
  BY DEF Labours
<1>3. Labours' = [r \in Requests |-> IF r \in ended THEN how[r] ELSE Labours[r]]
  BY DEF Labours
<1> QED BY <1>1, <1>2, <1>3 DEF Promise!Finish, Promise!Answers, Looks, Labours

LEMMA LookGivesUp ==
  ASSUME TypeOK, NotEnded, Labours' = Labours, NEW r \in Requests,
         NEW why \in {"timeout", "cancelled", "failed"}, Abandon(r, why),
         call[r] \in {"lookup", "sending", "waiting"}
  PROVE  Promise!GiveUp(r)
<1>1. Looks[r] = "pending"
  BY DEF Looks, StatusOf, NotEnded, Unsent
<1>2. Looks' = [Looks EXCEPT ![r] = why]
  <2>1. \A q \in Requests : StatusOf(q)' = IF q = r THEN why ELSE StatusOf(q)
    BY DEF Abandon, StatusOf, TypeOK
  <2> QED BY <2>1 DEF Looks
<1> QED BY <1>1, <1>2 DEF Promise!GiveUp, Promise!Reasons, Looks, Labours
LEMMA LookAnswers ==
  ASSUME Inv, NEW r \in Requests, TakeAnswer(r)
  PROVE  Promise!Answer(r)
<1> DEFINE how == Head(inbox[r]).what
<1>1. /\ Head(inbox[r]) = inbox[r][1] /\ 1 \in DOMAIN inbox[r] /\ Head(inbox[r]) \in Items
      /\ how # "chunk" /\ call[r] = "waiting" /\ remote' = remote
  BY Taken DEF TakeAnswer, Inv, TypeOK, runVars
<1>2. how \in {"ok", "error"} /\ remote[r] = how
  BY <1>1, ItemTypes DEF Inv, Answered, InboxTrue
<1>3. outcome' = [outcome EXCEPT ![r] = how] /\ call'[r] # "idle"
      /\ \A q \in Requests \ {r} : call'[q] = call[q]
  BY DEF TakeAnswer, Abandon, Inv, TypeOK
<1>4. Looks[r] = "pending" /\ Labours[r] = how
  BY <1>1, <1>2 DEF Looks, Labours, StatusOf, WorkOf, Inv, NotEnded, Unsent
<1>5. Looks' = [Looks EXCEPT ![r] = Labours[r]]
  <2>1. \A q \in Requests : StatusOf(q)' = IF q = r THEN how ELSE StatusOf(q)
    BY <1>2, <1>3 DEF StatusOf, Inv, TypeOK
  <2> QED BY <1>4, <2>1 DEF Looks
<1> QED
  BY <1>1, <1>2, <1>4, <1>5, LabourSame DEF Promise!Answer, Promise!Answers, Looks, Labours

LEMMA LookAccepts == ASSUME Inv, Accept PROVE Promise!Next \/ UNCHANGED Promise!vars
<1> DEFINE m == Head(toRunner)
<1>1. m = toRunner[1] /\ 1 \in DOMAIN toRunner /\ m \in ToRunner
  BY Taken, ToRunnerType DEF Accept, Inv
<1>2. m.req \in Requests /\ m.what \in {"start", "cancel"}
  BY <1>1 DEF ToRunner
<1>3. Looks' = Looks
  BY LookSame DEF Accept, callVars, Inv
<1>4. CASE m.what = "start"
  <2>1. call[m.req] # "idle" /\ outcome[m.req] = outcome[m.req] /\ remote[m.req] = "none"
    BY <1>1, <1>2, <1>4 DEF Inv, Sends, SentWhileNothing, IsStart, Unsent
  <2>2. remote' = [remote EXCEPT ![m.req] = "running"]
    BY <1>4 DEF Accept
  <2>3. Looks[m.req] # "idle" /\ Labours[m.req] = "none"
    BY <1>2, <2>1 DEF Looks, Labours, StatusOf, WorkOf, Inv, TypeOK
  <2>4. Labours' = [Labours EXCEPT ![m.req] = "running"]
    <3>1. \A q \in Requests : WorkOf(q)' = IF q = m.req THEN "running" ELSE WorkOf(q)
      BY <1>2, <2>2 DEF WorkOf, Inv, TypeOK
    <3> QED BY <3>1 DEF Labours
  <2>5. Promise!Begin(m.req)
    BY <1>3, <2>3, <2>4 DEF Promise!Begin, Looks, Labours
  <2> QED BY <1>2, <2>5 DEF Promise!Next
<1>5. CASE m.what = "cancel"
  <2>1. \A q \in Requests : \/ remote'[q] = remote[q]
                            \/ remote[q] = "running" /\ remote'[q] = "cancelled"
    <3>1. remote' = [remote EXCEPT ![m.req] =
                       IF @ = "running" /\ Kind[m.req] # "file" THEN "cancelled" ELSE @]
      BY <1>5 DEF Accept
    <3>2. remote \in [Requests -> {"none", "running", "ok", "error", "silent", "cancelled", "lost"}]
      BY DEF Inv, TypeOK
    <3> QED BY <1>2, <3>1, <3>2
  <2>2. Promise!Finish
    BY <1>3, <2>1, LabourEnds DEF WorkOf, Inv
  <2> QED BY <2>2 DEF Promise!Next
<1> QED BY <1>2, <1>4, <1>5

LEMMA LookWorks ==
  ASSUME Inv, NEW r \in Requests, Works(r)
  PROVE  Promise!Finish
<1>1. Looks' = Looks
  BY WorkSteps, LookSame DEF callVars, Inv
<1>2. /\ remote[r] = "running" /\ \A q \in Requests \ {r} : remote'[q] = remote[q]
      /\ remote'[r] \in {"running", "ok", "error", "silent"}
  <2>1. /\ remote[r] = "running" /\ \A q \in Requests \ {r} : remote'[q] = remote[q]
    BY WorkSteps DEF Inv
  <2>2. remote'[r] \in {"running", "ok", "error", "silent"}
    <3>1. CASE Prints(r)
      BY <2>1, <3>1 DEF Prints, Inv, TypeOK
    <3>2. CASE EndsSilently(r)
      BY <3>2 DEF EndsSilently, Inv, TypeOK
    <3>3. ASSUME NEW how \in {"ok", "error"}, Ends(r, how)
          PROVE  remote'[r] \in {"running", "ok", "error", "silent"}
      BY <3>3 DEF Ends, Inv, TypeOK
    <3> QED BY <3>1, <3>2, <3>3 DEF Works
  <2> QED BY <2>1, <2>2
<1>3. \A q \in Requests : \/ WorkOf(q)' = WorkOf(q)
                          \/ WorkOf(q) = "running" /\ WorkOf(q)' \in {"ok", "error", "stopped"}
  <2> TAKE q \in Requests
  <2>1. CASE q = r
    <3>1. WorkOf(q) = "running"
      BY <1>2, <2>1 DEF WorkOf
    <3>2. WorkOf(q)' \in {"running", "ok", "error", "stopped"}
      BY <1>2, <2>1 DEF WorkOf
    <3> QED BY <3>1, <3>2
  <2>2. CASE q # r
    BY <1>2, <2>2 DEF WorkOf
  <2> QED BY <2>1, <2>2
<1> QED BY <1>1, <1>3, LabourEnds DEF Inv
LEMMA RefinesStep == Inv /\ [Next]_vars => [Promise!Next]_Promise!vars
<1> SUFFICES ASSUME Inv, [Next]_vars PROVE Promise!Next \/ UNCHANGED Promise!vars
  OBVIOUS
<1>1. ASSUME Looks' = Looks, Labours' = Labours PROVE UNCHANGED Promise!vars
  BY <1>1 DEF Promise!vars, Looks, Labours
<1>2. ASSUME UNCHANGED <<call, outcome, remote>> PROVE UNCHANGED Promise!vars
  BY <1>1, <1>2, LookSame, LabourSame DEF Inv
<1>3. ASSUME NEW r \in Requests, Issue(r) PROVE Promise!Next
  <2>1. /\ call[r] = "idle" /\ call' = [call EXCEPT ![r] = "lookup"] /\ outcome' = outcome
        /\ remote' = remote /\ outcome[r] = "none"
    BY <1>3 DEF Issue, At, runVars, Inv, NotEnded, Unsent
  <2>2. \A q \in Requests : StatusOf(q)' = IF q = r THEN "pending" ELSE StatusOf(q)
    BY <2>1 DEF StatusOf, Inv, TypeOK
  <2>3. Looks[r] = "idle" /\ Looks' = [Looks EXCEPT ![r] = "pending"]
    BY <2>1, <2>2 DEF Looks, StatusOf
  <2>4. Promise!Ask(r)
    BY <2>1, <2>3, LabourSame DEF Promise!Ask, Looks, Labours
  <2> QED BY <2>4 DEF Promise!Next
<1>4. ASSUME NEW r \in Requests, LookUp(r) \/ Send(r) \/ TakeChunk(r) \/ Return(r) \/ CancelledAgain(r)
      PROVE  UNCHANGED Promise!vars
  <2>1. /\ outcome' = outcome /\ remote' = remote
        /\ \A q \in Requests : (call'[q] = "idle") <=> (call[q] = "idle")
    BY <1>4 DEF LookUp, Send, TakeChunk, Return, CancelledAgain, At, runVars, Inv, TypeOK
  <2> QED BY <1>1, <2>1, LookSame, LabourSame DEF Inv
<1>5. ASSUME NEW r \in Requests, RunnerOffline(r) \/ TimeOut(r) \/ Cancelled(r) PROVE Promise!Next
  <2>1. /\ Labours' = Labours /\ call[r] \in {"lookup", "sending", "waiting"}
        /\ Abandon(r, "failed") \/ Abandon(r, "timeout") \/ Abandon(r, "cancelled")
    BY <1>5, LabourSame DEF RunnerOffline, TimeOut, Cancelled, runVars
  <2>2. Promise!GiveUp(r)
    BY <2>1, LookGivesUp DEF Inv
  <2> QED BY <2>2 DEF Promise!Next
<1>6. ASSUME NEW r \in Requests, TakeAnswer(r) PROVE Promise!Next
  BY <1>6, LookAnswers DEF Promise!Next
<1>7. ASSUME NEW r \in Requests, NoticeRuns(r) PROVE UNCHANGED Promise!vars
  BY <1>2, <1>7 DEF NoticeRuns, NoticeLooksUp, NoticeSent, callVars, runVars
<1>8. ASSUME NEW r \in Requests, Works(r) PROVE Promise!Next
  BY <1>8, LookWorks DEF Promise!Next
<1>9. ASSUME NEW restart \in BOOLEAN, Lose(restart) PROVE Promise!Next
  <2>1. Looks' = Looks
    BY <1>9, LookSame DEF Lose, callVars, Inv
  <2>2. \A q \in Requests : remote'[q] = remote[q] \/ (remote[q] = "running" /\ remote'[q] = "lost")
    BY <1>9 DEF Lose
  <2>3. Promise!Finish
    BY <2>1, <2>2, LabourEnds DEF WorkOf, Inv
  <2> QED BY <2>3 DEF Promise!Next
<1>10. CASE Accept
  BY <1>10, LookAccepts
<1>11. CASE Route \/ RunPosted \/ Unregister \/ Reconnect \/ Register \/ UNCHANGED vars
  BY <1>2, <1>11 DEF Route, RunPosted, Unregister, Reconnect, Register, vars, callVars, runVars
<1> QED
  BY <1>3, <1>4, <1>5, <1>6, <1>7, <1>8, <1>9, <1>10, <1>11 DEF Next, CallRuns

(* A call is answered at most once and only with what the runner did, and   *)
(* one that gave up is never answered: RunnerRpc implements RemoteCall.     *)
THEOREM PromiseKept == Spec => KeepsPromise
<1>1. Init => Promise!Init
  BY DEF Init, Promise!Init, StatusOf, WorkOf
<1> QED BY <1>1, RefinesStep, InvHolds, PTL DEF Spec, KeepsPromise, Promise!Spec
-----------------------------------------------------------------------------
(* The output of a stream is complete. What a queue holds of a request: any *)
(* item, an answer, so many chunks; and nothing follows an answer.          *)
Of(q, r) == \E i \in DOMAIN q : q[i].req = r
Answers(q, r) == \E i \in DOMAIN q : q[i].req = r /\ q[i].what # "chunk"
ChunksAt(q, r) == {i \in DOMAIN q : q[i].req = r /\ q[i].what = "chunk"}
Chunks(q, r) == Cardinality(ChunksAt(q, r))
IsChunk(m, r) == m.req = r /\ m.what = "chunk"
EndsLast(q, r) ==
  \A i, k \in DOMAIN q : i < k /\ q[i].req = r /\ q[i].what # "chunk" => q[k].req # r

LEMMA ChunksCount ==
  ASSUME NEW q \in Seq(Items), NEW r
  PROVE  /\ IsFiniteSet(ChunksAt(q, r)) /\ Chunks(q, r) \in Nat
         /\ ~Of(q, r) => Chunks(q, r) = 0
<1>1. IsFiniteSet(DOMAIN q) /\ ChunksAt(q, r) \in SUBSET DOMAIN q
  BY Elements, FS_Interval DEF ChunksAt
<1>2. IsFiniteSet(ChunksAt(q, r))
  BY <1>1, FS_Subset
<1>3. ~Of(q, r) => ChunksAt(q, r) = {}
  BY DEF Of, ChunksAt
<1> QED BY <1>2, <1>3, FS_CardinalityType, FS_EmptySet DEF Chunks

LEMMA QueueAppended ==
  ASSUME NEW q \in Seq(Items), NEW e \in Items, NEW r
  PROVE  /\ Append(q, e) \in Seq(Items)
         /\ Of(Append(q, e), r) <=> Of(q, r) \/ e.req = r
         /\ Answers(Append(q, e), r) <=> Answers(q, r) \/ (e.req = r /\ e.what # "chunk")
         /\ EndsLast(q, r) /\ (e.req = r => ~Answers(q, r)) => EndsLast(Append(q, e), r)
         /\ Chunks(Append(q, e), r) = Chunks(q, r) + (IF IsChunk(e, r) THEN 1 ELSE 0)
<1> DEFINE p == Append(q, e)
           n == Len(q) + 1
<1>1. /\ n \in Nat /\ DOMAIN q = 1..Len(q) /\ DOMAIN p = (DOMAIN q) \cup {n} /\ n \notin DOMAIN q
      /\ p[n] = e /\ p \in Seq(Items)
      /\ \A i \in DOMAIN q : p[i] = q[i] /\ i < n /\ i \in Nat
  BY AppendProperties, Elements
<1> HIDE DEF p, n
<1>2. Of(p, r) <=> Of(q, r) \/ e.req = r
  BY <1>1 DEF Of
<1>3. Answers(p, r) <=> Answers(q, r) \/ (e.req = r /\ e.what # "chunk")
  BY <1>1 DEF Answers
<1>4. EndsLast(q, r) /\ (e.req = r => ~Answers(q, r)) => EndsLast(p, r)
  <2> SUFFICES ASSUME EndsLast(q, r), e.req = r => ~Answers(q, r),
                      NEW i \in DOMAIN p, NEW k \in DOMAIN p,
                      i < k, p[i].req = r, p[i].what # "chunk"
               PROVE  p[k].req # r
    BY DEF EndsLast
  <2>1. i \in DOMAIN q /\ p[i] = q[i]
    BY <1>1
  <2>2. CASE k = n
    BY <1>1, <2>1, <2>2 DEF Answers
  <2>3. CASE k \in DOMAIN q
    BY <1>1, <2>1, <2>3 DEF EndsLast
  <2> QED BY <1>1, <2>2, <2>3
<1>5. Chunks(p, r) = Chunks(q, r) + (IF IsChunk(e, r) THEN 1 ELSE 0)
  <2>1. CASE IsChunk(e, r)
    <3>1. ChunksAt(p, r) = ChunksAt(q, r) \cup {n} /\ n \notin ChunksAt(q, r)
      BY <1>1, <2>1 DEF ChunksAt, IsChunk
    <3> QED BY <2>1, <3>1, ChunksCount, FS_AddElement DEF Chunks
  <2>2. CASE ~IsChunk(e, r)
    <3>1. ChunksAt(p, r) = ChunksAt(q, r)
      BY <1>1, <2>2 DEF ChunksAt, IsChunk
    <3> QED BY <2>2, <3>1, ChunksCount DEF Chunks
  <2> QED BY <2>1, <2>2
<1> QED BY <1>1, <1>2, <1>3, <1>4, <1>5 DEF p

LEMMA QueueTaken ==
  ASSUME NEW q \in Seq(Items), q # <<>>, NEW r
  PROVE  /\ Tail(q) \in Seq(Items) /\ Head(q) \in Items
         /\ Of(Tail(q), r) => Of(q, r)
         /\ Answers(Tail(q), r) => Answers(q, r)
         /\ EndsLast(q, r) => EndsLast(Tail(q), r)
         /\ Head(q).req = r => Of(q, r)
         /\ Head(q).req = r /\ Head(q).what # "chunk" =>
              Answers(q, r) /\ (EndsLast(q, r) => ~Of(Tail(q), r))
         /\ Chunks(q, r) = Chunks(Tail(q), r) + (IF IsChunk(Head(q), r) THEN 1 ELSE 0)
<1> DEFINE p == Tail(q)
           h == Head(q)
<1>1. /\ p \in Seq(Items) /\ h = q[1] /\ 1 \in DOMAIN q /\ h \in Items
      /\ \A i \in DOMAIN p : i \in Nat /\ i # 0 /\ i + 1 \in DOMAIN q /\ p[i] = q[i + 1]
  BY Taken
<1>2. \A i \in DOMAIN q : i = 1 \/ (i - 1 \in DOMAIN p /\ p[i - 1] = q[i] /\ i \in Nat)
  <2>1. Len(q) \in Nat \ {0} /\ DOMAIN q = 1..Len(q)
    BY EmptySeq, Elements
  <2>2. DOMAIN p = 1..Len(q) - 1
    BY <2>1, HeadTailProperties
  <2> QED BY <1>1, <2>1, <2>2
<1> HIDE DEF p, h
<1>3. Of(p, r) => Of(q, r)
  BY <1>1 DEF Of
<1>4. Answers(p, r) => Answers(q, r)
  BY <1>1 DEF Answers
<1>5. EndsLast(q, r) => EndsLast(p, r)
  <2> SUFFICES ASSUME EndsLast(q, r), NEW i \in DOMAIN p, NEW k \in DOMAIN p,
                      i < k, p[i].req = r, p[i].what # "chunk"
               PROVE  p[k].req # r
    BY DEF EndsLast
  <2>1. /\ i + 1 \in DOMAIN q /\ k + 1 \in DOMAIN q /\ i + 1 < k + 1
        /\ p[i] = q[i + 1] /\ p[k] = q[k + 1]
    BY <1>1
  <2> QED BY <2>1 DEF EndsLast
<1>6. h.req = r => Of(q, r) /\ (h.what # "chunk" => Answers(q, r))
  BY <1>1 DEF Of, Answers
<1>7. h.req = r /\ h.what # "chunk" /\ EndsLast(q, r) => ~Of(p, r)
  <2> SUFFICES ASSUME EndsLast(q, r), h.req = r, h.what # "chunk", NEW i \in DOMAIN p
               PROVE  p[i].req # r
    BY DEF Of
  <2>1. i + 1 \in DOMAIN q /\ p[i] = q[i + 1] /\ 1 < i + 1
    BY <1>1
  <2> QED BY <1>1, <2>1 DEF EndsLast
<1>8. Chunks(q, r) = Chunks(p, r) + (IF IsChunk(h, r) THEN 1 ELSE 0)
  <2> DEFINE S == ChunksAt(p, r)
             T == ChunksAt(q, r) \ {1}
             f == [i \in S |-> i + 1]
  <2>1. f \in [S -> T]
    BY <1>1 DEF ChunksAt
  <2>2. \A a, b \in S : f[a] = f[b] => a = b
    BY <1>1 DEF ChunksAt
  <2>3. \A t \in T : \E s \in S : f[s] = t
    <3> SUFFICES ASSUME NEW t \in T PROVE t - 1 \in S /\ f[t - 1] = t
      OBVIOUS
    <3>1. t \in Nat /\ t - 1 \in S
      BY <1>2 DEF ChunksAt
    <3> QED BY <3>1
  <2> HIDE DEF f, S, T
  <2>4. ExistsBijection(S, T)
    BY <2>1, <2>2, <2>3, Fun_IsBij, Fun_ExistsBij
  <2>5. Cardinality(T) = Cardinality(S)
    BY <1>1, <2>4, ChunksCount, FS_Bijection DEF S
  <2>6. Cardinality(T) = IF 1 \in ChunksAt(q, r) THEN Chunks(q, r) - 1 ELSE Chunks(q, r)
    BY ChunksCount, FS_RemoveElement DEF T, Chunks
  <2>7. 1 \in ChunksAt(q, r) <=> IsChunk(h, r)
    BY <1>1 DEF ChunksAt, IsChunk
  <2>8. Chunks(q, r) \in Nat /\ Chunks(p, r) \in Nat
    BY <1>1, ChunksCount
  <2> QED BY <2>5, <2>6, <2>7, <2>8 DEF S, Chunks
<1> QED BY <1>1, <1>3, <1>4, <1>5, <1>6, <1>7, <1>8 DEF p, h

LEMMA QueueCut ==
  ASSUME NEW q \in Seq(Items), NEW n \in 0..Len(q), NEW p, p = SubSeq(q, 1, n), NEW r
  PROVE  /\ Of(p, r) => Of(q, r)
         /\ Answers(p, r) => Answers(q, r)
         /\ EndsLast(q, r) => EndsLast(p, r)
         /\ (\A i \in (n + 1)..Len(q) : q[i].req # r) => Chunks(p, r) = Chunks(q, r)
<1>1. p \in Seq(Items) /\ \A i \in DOMAIN p : i \in DOMAIN q /\ p[i] = q[i]
  BY Cutoff
<1>2. Of(p, r) => Of(q, r)
  BY <1>1 DEF Of
<1>3. Answers(p, r) => Answers(q, r)
  BY <1>1 DEF Answers
<1>4. EndsLast(q, r) => EndsLast(p, r)
  BY <1>1 DEF EndsLast
<1>5. ASSUME \A i \in (n + 1)..Len(q) : q[i].req # r PROVE ChunksAt(p, r) = ChunksAt(q, r)
  <2>1. DOMAIN q = 1..Len(q) /\ Len(q) \in Nat
    BY Elements
  <2>2. DOMAIN p = 1..n
    BY <2>1, SubSeqProperties, Elements, <1>1
  <2> QED BY <1>1, <1>5, <2>1, <2>2 DEF ChunksAt
<1> QED BY <1>2, <1>3, <1>4, <1>5 DEF Chunks

LEMMA QueueEmpty ==
  ASSUME NEW r
  PROVE  ~Of(<<>>, r) /\ ~Answers(<<>>, r) /\ EndsLast(<<>>, r) /\ Chunks(<<>>, r) = 0
<1>1. <<>> \in Seq(Items) /\ DOMAIN <<>> = {}
  BY Elements, EmptySeq
<1>2. ~Of(<<>>, r) /\ ~Answers(<<>>, r) /\ EndsLast(<<>>, r)
  BY <1>1 DEF Of, Answers, EndsLast
<1> QED BY <1>1, <1>2, ChunksCount

(* The flow of one call's output: its queue holds its own items only,       *)
(* nothing comes behind its answer, nothing comes before the runner has     *)
(* started it, it is registered while it runs; what it has yielded and what *)
(* is on the way are what the runner has sent, if no connection took any.   *)
Asks(r) == call[r] \in {"lookup", "sending", "waiting"}
Own(r) == \A i \in DOMAIN inbox[r] : inbox[r][i].req = r
AnswerLast(r) ==
  /\ EndsLast(toBackend, r) /\ EndsLast(posted, r) /\ EndsLast(inbox[r], r)
  /\ Answers(posted, r) => ~Of(toBackend, r)
  /\ Answers(inbox[r], r) => ~Of(posted, r) /\ ~Of(toBackend, r)
Unheard(r) ==
  remote[r] = "none" =>
    printed[r] = 0 /\ ~Of(inbox[r], r) /\ ~Of(posted, r) /\ ~Of(toBackend, r)
Whole(r) ==
  Asks(r) /\ r \notin cut =>
    got[r] + Chunks(inbox[r], r) + Chunks(posted, r) + Chunks(toBackend, r) = printed[r]
Complete(r) ==
  outcome[r] = "ok" /\ Kind[r] = "stream" =>
    remote[r] = "ok" /\ (got[r] = printed[r] \/ r \in cut)

Flow(r) == /\ Own(r) /\ AnswerLast(r) /\ Unheard(r) /\ Whole(r) /\ Complete(r)
           /\ Asks(r) => r \in registry

LEMMA Queues ==
  ASSUME TypeOK, NEW r \in Requests
  PROVE  /\ inbox[r] \in Seq(Items) /\ posted \in Seq(Items) /\ toBackend \in Seq(Items)
         /\ got[r] \in Nat /\ printed[r] \in Nat
         /\ Chunks(inbox[r], r) \in Nat /\ Chunks(posted, r) \in Nat /\ Chunks(toBackend, r) \in Nat
<1>1. /\ inbox[r] \in Seq(Items) /\ posted \in Seq(Items) /\ toBackend \in Seq(Items)
      /\ got[r] \in Nat /\ printed[r] \in Nat
  BY DEF TypeOK
<1> QED BY <1>1, ChunksCount

(* A step that moves no output of the call, and neither answers nor starts  *)
(* it, keeps its flow.                                                      *)
LEMMA FlowKept ==
  ASSUME NEW r \in Requests, Flow(r), inbox'[r] = inbox[r], posted' = posted, toBackend' = toBackend,
         got'[r] = got[r], printed'[r] = printed[r], cut' = cut,
         remote'[r] = "none" => remote[r] = "none", remote[r] = "ok" => remote'[r] = "ok",
         Asks(r)' => Asks(r) /\ (r \in registry => r \in registry'),
         outcome'[r] = "ok" => outcome[r] = "ok"
  PROVE  Flow(r)'
<1>1. Own(r)' /\ AnswerLast(r)' /\ Unheard(r)' /\ Complete(r)'
  BY DEF Flow, Own, AnswerLast, Unheard, Complete
<1>2. Whole(r)' /\ (Asks(r)' => r \in registry')
  BY DEF Flow, Whole
<1> QED BY <1>1, <1>2 DEF Flow

LEMMA FlowBegins ==
  ASSUME Inv, NEW r \in Requests, NEW q \in Requests, Flow(q), Issue(r)
  PROVE  Flow(q)'
<1> USE DEF Issue, At, linkVars, runVars
<1>1. CASE q # r
  <2>1. Asks(q)' <=> Asks(q)
    BY <1>1 DEF Asks, Inv, TypeOK
  <2> QED BY <2>1, FlowKept
<1>2. CASE q = r
  <2>1. remote[r] = "none" /\ got[r] = 0 /\ outcome[r] = "none"
    BY DEF Inv, Sends, NothingBefore, NotYielded, NotEnded, Unsent
  <2>2. /\ printed[r] = 0 /\ ~Of(inbox[r], r) /\ ~Of(posted, r) /\ ~Of(toBackend, r)
    BY <1>2, <2>1 DEF Flow, Unheard
  <2>3. Chunks(inbox[r], r) = 0 /\ Chunks(posted, r) = 0 /\ Chunks(toBackend, r) = 0
    BY <2>2, Queues, ChunksCount DEF Inv
  <2>4. Own(r)' /\ AnswerLast(r)' /\ Unheard(r)' /\ Complete(r)'
    BY <1>2, <2>1 DEF Flow, Own, AnswerLast, Unheard, Complete
  <2>5. Whole(r)' /\ r \in registry'
    BY <2>1, <2>2, <2>3 DEF Whole
  <2> QED BY <1>2, <2>4, <2>5 DEF Flow
<1> QED BY <1>1, <1>2

(* A call that gives up asks no more and is not answered.                   *)
LEMMA GivesUp ==
  ASSUME TypeOK, NEW r \in Requests, NEW q \in Requests, NEW why, why # "ok", Abandon(r, why)
  PROVE  /\ Asks(q)' => Asks(q) /\ (q \in registry => q \in registry')
         /\ outcome'[q] = "ok" => outcome[q] = "ok"
BY DEF Abandon, Asks, TypeOK

LEMMA FlowOfCall ==
  ASSUME Inv, NEW r \in Requests, NEW q \in Requests, Flow(q),
         LookUp(r) \/ RunnerOffline(r) \/ Send(r) \/ Return(r) \/ TimeOut(r) \/ Cancelled(r)
           \/ CancelledAgain(r) \/ NoticeRuns(r)
  PROVE  Flow(q)'
<1>1. UNCHANGED <<inbox, posted, toBackend, got, runVars>>
  BY DEF LookUp, RunnerOffline, Send, Return, TimeOut, Cancelled, CancelledAgain, NoticeRuns,
         NoticeLooksUp, NoticeSent, callVars
<1>2. CASE RunnerOffline(r) \/ TimeOut(r) \/ Cancelled(r)
  <2>1. PICK why \in {"failed", "timeout", "cancelled"} : Abandon(r, why)
    BY <1>2 DEF RunnerOffline, TimeOut, Cancelled
  <2> QED BY <1>1, <2>1, GivesUp, FlowKept DEF runVars, Inv
<1>3. CASE LookUp(r) \/ Send(r) \/ Return(r) \/ CancelledAgain(r) \/ NoticeRuns(r)
  <2>1. outcome' = outcome /\ registry' = registry /\ (Asks(q)' => Asks(q))
    BY <1>3 DEF LookUp, Send, Return, CancelledAgain, NoticeRuns, NoticeLooksUp, NoticeSent, At,
                callVars, Asks, Inv, TypeOK
  <2> QED BY <1>1, <2>1, FlowKept DEF runVars
<1> QED BY <1>2, <1>3

LEMMA FlowYields ==
  ASSUME Inv, NEW r \in Requests, NEW q \in Requests, Flow(q), TakeChunk(r)
  PROVE  Flow(q)'
<1> USE DEF TakeChunk, linkVars, runVars
<1>1. CASE q # r
  <2>1. inbox'[q] = inbox[q] /\ got'[q] = got[q] /\ (Asks(q)' <=> Asks(q))
    BY <1>1 DEF Asks, Inv, TypeOK
  <2> QED BY <2>1, FlowKept
<1>2. CASE q = r
  <2>1. /\ inbox'[r] = Tail(inbox[r]) /\ got'[r] = got[r] + 1 /\ call[r] = "waiting"
        /\ inbox[r] # <<>> /\ inbox[r] \in Seq(Items)
    BY DEF Inv, TypeOK
  <2>2. Own(r)' /\ IsChunk(Head(inbox[r]), r)
    BY <1>2, <2>1, Taken DEF Flow, Own, IsChunk
  <2>3. AnswerLast(r)' /\ Unheard(r)'
    BY <1>2, <2>1, QueueTaken DEF Flow, AnswerLast, Unheard
  <2>4. Complete(r)'
    BY <2>1 DEF Complete, Inv, NotEnded
  <2>5. Chunks(inbox[r], r) = Chunks(inbox'[r], r) + 1 /\ Chunks(inbox'[r], r) \in Nat
    BY <2>1, <2>2, QueueTaken, ChunksCount
  <2>6. /\ Asks(r) /\ r \in registry'
        /\ UNCHANGED <<posted, toBackend, printed, cut>>
        /\ Whole(r)
    BY <1>2, <2>1 DEF Flow, Asks
  <2>7. /\ got[r] \in Nat /\ printed[r] \in Nat /\ Chunks(posted, r) \in Nat
        /\ Chunks(toBackend, r) \in Nat
    BY Queues DEF Inv
  <2>8. Whole(r)'
    <3>1. UNCHANGED <<posted, toBackend, printed, cut>>
      BY <2>6
    <3>2. r \notin cut =>
            got[r] + Chunks(inbox[r], r) + Chunks(posted, r) + Chunks(toBackend, r) = printed[r]
      BY <2>6 DEF Whole
    <3>3. r \notin cut =>
            got'[r] + Chunks(inbox'[r], r) + Chunks(posted, r) + Chunks(toBackend, r) = printed[r]
      <4>1. got'[r] = got[r] + 1 /\ Chunks(inbox'[r], r) \in Nat
        BY <2>1, <2>5
      <4>2. got'[r] + Chunks(inbox'[r], r) = got[r] + Chunks(inbox[r], r)
        <5> DEFINE here == Chunks(inbox[r], r)
                   left == Chunks(inbox'[r], r)
                   had == got[r]
                   has == got'[r]
        <5>1. here = left + 1 /\ left \in Nat /\ had \in Nat /\ has = had + 1
          BY <2>5, <2>7, <4>1
        <5> HIDE DEF here, left, had, has, TakeChunk
        <5>2. has + left = had + here
          BY <5>1
        <5> QED BY <5>2 DEF here, left, had, has
      <4> QED BY <3>2, <4>2
    <3> QED BY <3>1, <3>3 DEF Whole
  <2> QED BY <1>2, <2>2, <2>3, <2>4, <2>6, <2>8 DEF Flow
<1> QED BY <1>1, <1>2

(* What a stream has yielded when it takes its answer is all there is.      *)
LEMMA FlowEnds ==
  ASSUME Inv, NEW r \in Requests, NEW q \in Requests, Flow(q), TakeAnswer(r)
  PROVE  Flow(q)'
<1>1. UNCHANGED <<posted, toBackend, got, runVars>>
  BY DEF TakeAnswer
<1>2. \/ Abandon(r, "error")
      \/ /\ outcome' = [outcome EXCEPT ![r] = Head(inbox[r]).what]
         /\ call' = [call EXCEPT ![r] = "done"] /\ registry' = registry \ {r}
  BY DEF TakeAnswer
<1>3. call[r] = "waiting" /\ inbox' = [inbox EXCEPT ![r] = Tail(@)] /\ inbox[r] # <<>>
      /\ Head(inbox[r]).what # "chunk"
  BY DEF TakeAnswer
<1>4. CASE q # r
  <2>1. inbox'[q] = inbox[q] /\ outcome'[q] = outcome[q]
    BY <1>2, <1>3, <1>4 DEF Abandon, Inv, TypeOK
  <2>2. Asks(q)' => Asks(q) /\ (q \in registry => q \in registry')
    BY <1>2, <1>4 DEF Abandon, Asks, Inv, TypeOK
  <2> QED BY <1>1, <2>1, <2>2, FlowKept DEF runVars
<1>5. CASE q = r
  <2>1. inbox'[r] = Tail(inbox[r]) /\ inbox[r] \in Seq(Items) /\ Asks(r) /\ outcome[r] = "none"
        /\ ~Asks(r)'
    BY <1>2, <1>3 DEF Inv, TypeOK, NotEnded, Asks, Abandon
  <2>2. Own(r)' /\ Head(inbox[r]).req = r /\ Head(inbox[r]).what = inbox[r][1].what
        /\ 1 \in DOMAIN inbox[r]
    BY <1>3, <1>5, <2>1, Taken DEF Flow, Own
  <2>3. AnswerLast(r)' /\ Unheard(r)'
    BY <1>1, <1>3, <1>5, <2>1, QueueTaken DEF Flow, AnswerLast, Unheard, runVars
  <2>4. ~Of(posted, r) /\ ~Of(toBackend, r) /\ Chunks(inbox[r], r) = 0
    <3>1. EndsLast(inbox[r], r) /\ (Answers(inbox[r], r) => ~Of(posted, r) /\ ~Of(toBackend, r))
      BY <1>5 DEF Flow, AnswerLast
    <3>2. ~IsChunk(Head(inbox[r]), r)
      BY <1>3 DEF IsChunk
    <3>3. /\ Answers(inbox[r], r) /\ ~Of(Tail(inbox[r]), r) /\ Tail(inbox[r]) \in Seq(Items)
          /\ Chunks(inbox[r], r) = Chunks(Tail(inbox[r]), r) + 0
      BY <1>3, <2>1, <2>2, <3>1, <3>2, QueueTaken
    <3>4. Chunks(Tail(inbox[r]), r) = 0
      BY <3>3, ChunksCount
    <3> QED BY <3>1, <3>3, <3>4
  <2>5. Chunks(posted, r) = 0 /\ Chunks(toBackend, r) = 0
    BY <2>4, ChunksCount, Queues DEF Inv
  <2>6. r \in cut \/ got[r] = printed[r]
    BY <1>5, <2>1, <2>4, <2>5, Queues DEF Flow, Whole, Inv
  <2>7. outcome'[r] = "ok" => remote[r] = "ok"
    BY <1>2, <2>1, <2>2, <1>3 DEF Inv, Answered, InboxTrue, Abandon, TypeOK
  <2>8. Complete(r)' /\ Whole(r)'
    BY <1>1, <2>1, <2>6, <2>7 DEF Complete, Whole, runVars
  <2> QED BY <1>5, <2>1, <2>2, <2>3, <2>8 DEF Flow
<1> QED BY <1>4, <1>5

LEMMA FlowOfWork ==
  ASSUME Inv, NEW r \in Requests, NEW q \in Requests, Flow(q), Works(r)
  PROVE  Flow(q)'
<1>1. /\ remote[r] = "running" /\ UNCHANGED <<callVars, inbox, registry, posted, cut>>
      /\ remote'[r] # "none"
      /\ \A s \in Requests \ {r} : remote'[s] = remote[s]
  BY WorkSteps DEF Inv
<1>2. (remote'[q] = "none" => remote[q] = "none") /\ (remote[q] = "ok" => remote'[q] = "ok")
  BY <1>1
<1>3. ASSUME UNCHANGED <<toBackend, printed>> PROVE Flow(q)'
  <2>1. Asks(q)' <=> Asks(q)
    BY <1>1 DEF Asks, callVars
  <2> QED BY <1>1, <1>2, <1>3, <2>1, FlowKept DEF callVars
<1>4. ASSUME NEW what \in {"chunk", "ok", "error"},
             toBackend' = Append(toBackend, [req |-> r, what |-> what]),
             \/ what = "chunk" /\ printed' = [printed EXCEPT ![r] = @ + 1]
             \/ what # "chunk" /\ printed' = printed
      PROVE  Flow(q)'
  <2> DEFINE m == [req |-> r, what |-> what]
  <2>1. m \in Items /\ m.req = r /\ (m.what = "chunk" <=> what = "chunk")
    BY DEF Items
  <2>2. \A i \in DOMAIN toBackend : ~(toBackend[i].req = r /\ toBackend[i].what # "chunk")
    <3>1. \A i \in DOMAIN toBackend : toBackend[i] \in Items
      BY Elements, Queues DEF Inv
    <3> QED BY <1>1, <3>1 DEF Inv, Answered, WireTrue, True, Items
  <2>3. \A i \in DOMAIN posted : ~(posted[i].req = r /\ posted[i].what # "chunk")
    <3>1. \A i \in DOMAIN posted : posted[i] \in Items
      BY Elements, Queues DEF Inv
    <3> QED BY <1>1, <3>1 DEF Inv, Answered, PostedTrue, True, Items
  <2>4. \A i \in DOMAIN inbox[r] : ~(inbox[r][i].what # "chunk")
    <3>1. \A i \in DOMAIN inbox[r] : inbox[r][i] \in Items
      BY Elements, Queues DEF Inv
    <3> QED BY <1>1, <3>1 DEF Inv, Answered, InboxTrue, Items
  <2>5. ~Answers(toBackend, r) /\ ~Answers(posted, r) /\ ~Answers(inbox[r], r)
    BY <2>2, <2>3, <2>4 DEF Answers
  <2> HIDE DEF m
  <2>6. /\ Of(toBackend', q) <=> Of(toBackend, q) \/ q = r
        /\ EndsLast(toBackend, q) => EndsLast(toBackend', q)
        /\ Chunks(toBackend', q) = Chunks(toBackend, q) + (IF IsChunk(m, q) THEN 1 ELSE 0)
    BY <1>4, <2>1, <2>5, QueueAppended, Queues DEF Inv, m
  <2>7. Own(q)' /\ AnswerLast(q)'
    BY <1>1, <2>5, <2>6 DEF Flow, Own, AnswerLast
  <2>8. Unheard(q)' /\ Complete(q)'
    <3>1. CASE q = r
      BY <1>1, <3>1 DEF Flow, Unheard, Complete, callVars
    <3>2. CASE q # r
      <4>1. printed'[q] = printed[q]
        BY <1>4, <3>2 DEF Inv, TypeOK
      <4> QED BY <1>1, <2>6, <3>2, <4>1 DEF Flow, Unheard, Complete, callVars
    <3> QED BY <3>1, <3>2
  <2>9. printed'[q] = printed[q] + (IF IsChunk(m, q) THEN 1 ELSE 0)
    <3>1. printed \in [Requests -> Nat]
      BY DEF Inv, TypeOK
    <3> QED BY <1>4, <2>1, <3>1 DEF IsChunk
  <2>10. Whole(q)' /\ (Asks(q)' => q \in registry')
    <3>1. /\ got'[q] = got[q] /\ inbox' = inbox /\ posted' = posted /\ cut' = cut
          /\ Asks(q)' = Asks(q) /\ registry' = registry /\ Whole(q) /\ (Asks(q) => q \in registry)
      BY <1>1 DEF callVars, Asks, Flow
    <3>2. /\ got[q] \in Nat /\ printed[q] \in Nat /\ Chunks(inbox[q], q) \in Nat
          /\ Chunks(posted, q) \in Nat /\ Chunks(toBackend, q) \in Nat
      BY Queues DEF Inv
    <3>3. CASE IsChunk(m, q)
      BY <2>6, <2>9, <3>1, <3>2, <3>3 DEF Whole
    <3>4. CASE ~IsChunk(m, q)
      BY <2>6, <2>9, <3>1, <3>2, <3>4 DEF Whole
    <3> QED BY <3>3, <3>4
  <2> QED BY <2>7, <2>8, <2>10 DEF Flow
<1>5. CASE Prints(r)
  <2>1. CASE up
    BY <1>4, <1>5, <2>1 DEF Prints
  <2>2. CASE ~up
    BY <1>3, <1>5, <2>2 DEF Prints
  <2> QED BY <2>1, <2>2
<1>6. CASE EndsSilently(r)
  BY <1>3, <1>6 DEF EndsSilently
<1>7. ASSUME NEW how \in {"ok", "error"}, Ends(r, how) PROVE Flow(q)'
  <2>1. CASE up
    BY <1>4, <1>7, <2>1 DEF Ends
  <2>2. CASE ~up
    BY <1>3, <1>7, <2>2 DEF Ends
  <2> QED BY <2>1, <2>2
<1> QED BY <1>5, <1>6, <1>7 DEF Works

LEMMA FlowOfRunner ==
  ASSUME Inv, NEW q \in Requests, Flow(q), Accept
  PROVE  Flow(q)'
<1>1. /\ UNCHANGED <<callVars, inbox, registry, posted, toBackend, printed, cut>>
      /\ remote'[q] = remote[q] \/ remote'[q] = "running"
           \/ (remote[q] = "running" /\ remote'[q] = "cancelled")
  BY DEF Accept, Inv, TypeOK
<1>2. remote[q] = "ok" => remote'[q] = "ok"
  BY SendsAccept DEF Inv, StaysEnded
<1>3. Asks(q)' <=> Asks(q)
  BY <1>1 DEF Asks, callVars
<1> QED BY <1>1, <1>2, <1>3, FlowKept DEF callVars

(* What moves from one queue to the next is still on its way.               *)
LEMMA WholeKept ==
  ASSUME NEW r \in Requests, TypeOK, TypeOK', Whole(r), Asks(r)' => Asks(r),
         got'[r] = got[r], printed'[r] = printed[r], cut' = cut,
         Chunks(inbox'[r], r) + Chunks(posted', r) + Chunks(toBackend', r) =
           Chunks(inbox[r], r) + Chunks(posted, r) + Chunks(toBackend, r)
  PROVE  Whole(r)'
<1>1. /\ got[r] \in Nat /\ printed[r] \in Nat /\ Chunks(inbox[r], r) \in Nat
      /\ Chunks(posted, r) \in Nat /\ Chunks(toBackend, r) \in Nat
  BY Queues
<1>2. inbox'[r] \in Seq(Items) /\ posted' \in Seq(Items) /\ toBackend' \in Seq(Items)
  BY DEF TypeOK
<1>3. /\ Chunks(inbox'[r], r) \in Nat /\ Chunks(posted', r) \in Nat
      /\ Chunks(toBackend', r) \in Nat
  BY <1>2, ChunksCount
<1> QED BY <1>1, <1>3 DEF Whole

(* From the wire to the event loop, and from there to the call: the head of *)
(* the one queue becomes the last of the other.                             *)
LEMMA FlowOfRoute ==
  ASSUME Inv, NEW q \in Requests, Flow(q), Route
  PROVE  Flow(q)'
<1> DEFINE m == Head(toBackend)
<1>0. TypeOK /\ TypeOK'
  BY TypeStep DEF Inv, Next
<1>1. /\ UNCHANGED <<callVars, inbox, registry, runVars>>
      /\ toBackend # <<>> /\ toBackend' = Tail(toBackend)
      /\ posted' = IF m.req \in registry THEN Append(posted, m) ELSE posted
  BY DEF Route
<1>2. m \in Items /\ (Asks(q)' <=> Asks(q))
  BY <1>1, QueueTaken, Queues DEF Asks, callVars, Inv
<1> HIDE DEF m
<1>3. /\ Of(toBackend', q) => Of(toBackend, q)
      /\ EndsLast(toBackend, q) => EndsLast(toBackend', q)
      /\ m.req = q => Of(toBackend, q)
      /\ m.req = q /\ m.what # "chunk" =>
           Answers(toBackend, q) /\ (EndsLast(toBackend, q) => ~Of(toBackend', q))
      /\ Chunks(toBackend, q) = Chunks(toBackend', q) + (IF IsChunk(m, q) THEN 1 ELSE 0)
  BY <1>1, QueueTaken, Queues DEF Inv, m
<1>4. /\ got[q] \in Nat /\ printed[q] \in Nat /\ Chunks(inbox[q], q) \in Nat
      /\ Chunks(posted, q) \in Nat /\ Chunks(toBackend, q) \in Nat
      /\ toBackend' \in Seq(Items) /\ Chunks(toBackend', q) \in Nat
  BY <1>1, Queues, QueueTaken, ChunksCount DEF Inv
<1>5. CASE m.req \in registry
  <2>1. /\ Of(posted', q) <=> Of(posted, q) \/ m.req = q
        /\ Answers(posted', q) <=> Answers(posted, q) \/ (m.req = q /\ m.what # "chunk")
        /\ EndsLast(posted, q) /\ (m.req = q => ~Answers(posted, q)) => EndsLast(posted', q)
        /\ Chunks(posted', q) = Chunks(posted, q) + (IF IsChunk(m, q) THEN 1 ELSE 0)
    BY <1>1, <1>2, <1>5, QueueAppended, Queues DEF Inv
  <2>2. Own(q)' /\ Unheard(q)' /\ Complete(q)'
    BY <1>1, <1>3, <2>1 DEF Flow, Own, Unheard, Complete, callVars, runVars
  <2>3. AnswerLast(q)'
    BY <1>1, <1>3, <2>1 DEF Flow, AnswerLast
  <2>4. Whole(q)'
    <3>1. Chunks(inbox'[q], q) + Chunks(posted', q) + Chunks(toBackend', q) =
            Chunks(inbox[q], q) + Chunks(posted, q) + Chunks(toBackend, q)
      BY <1>1, <1>3, <1>4, <2>1
    <3> QED BY <1>1, <1>2, <3>1, <1>0, WholeKept DEF Flow, callVars, runVars
  <2>5. Asks(q)' => q \in registry'
    BY <1>1, <1>2 DEF Flow
  <2> QED BY <2>2, <2>3, <2>4, <2>5 DEF Flow
<1>6. CASE m.req \notin registry
  <2>1. posted' = posted
    BY <1>1, <1>6
  <2>2. Own(q)' /\ Unheard(q)' /\ Complete(q)'
    BY <1>1, <1>3, <2>1 DEF Flow, Own, Unheard, Complete, callVars, runVars
  <2>3. AnswerLast(q)'
    BY <1>1, <1>3, <2>1 DEF Flow, AnswerLast
  <2>4. Asks(q) => ~IsChunk(m, q)
    BY <1>6 DEF Flow, IsChunk
  <2>5. Whole(q)' /\ (Asks(q)' => q \in registry')
    BY <1>1, <1>2, <1>3, <1>4, <2>1, <2>4 DEF Flow, Whole, callVars, runVars
  <2> QED BY <2>2, <2>3, <2>5 DEF Flow
<1> QED BY <1>5, <1>6

LEMMA FlowOfPosted ==
  ASSUME Inv, NEW q \in Requests, Flow(q), RunPosted
  PROVE  Flow(q)'
<1> DEFINE m == Head(posted)
           Over == call[m.req] \in {"closing", "done"}
<1>0. TypeOK /\ TypeOK'
  BY TypeStep DEF Inv, Next
<1>1. /\ UNCHANGED <<callVars, registry, toBackend, runVars>>
      /\ posted # <<>> /\ posted' = Tail(posted)
      /\ inbox' = IF Over THEN inbox ELSE [inbox EXCEPT ![m.req] = Append(@, m)]
  BY DEF RunPosted
<1>2. m \in Items /\ m.req \in Requests /\ (Asks(q)' <=> Asks(q))
  BY <1>1, QueueTaken, Queues DEF Asks, callVars, Inv, Items
<1> HIDE DEF m
<1>3. /\ Of(posted', q) => Of(posted, q)
      /\ Answers(posted', q) => Answers(posted, q)
      /\ EndsLast(posted, q) => EndsLast(posted', q)
      /\ m.req = q => Of(posted, q)
      /\ m.req = q /\ m.what # "chunk" =>
           Answers(posted, q) /\ (EndsLast(posted, q) => ~Of(posted', q))
      /\ Chunks(posted, q) = Chunks(posted', q) + (IF IsChunk(m, q) THEN 1 ELSE 0)
  BY <1>1, QueueTaken, Queues DEF Inv, m
<1>4. /\ got[q] \in Nat /\ printed[q] \in Nat /\ Chunks(inbox[q], q) \in Nat
      /\ Chunks(posted, q) \in Nat /\ Chunks(toBackend, q) \in Nat
      /\ posted' \in Seq(Items) /\ Chunks(posted', q) \in Nat
  BY <1>1, Queues, QueueTaken, ChunksCount DEF Inv
<1>5. CASE m.req = q /\ ~Over
  <2>1. inbox'[q] = Append(inbox[q], m) /\ inbox[q] \in Seq(Items)
    BY <1>1, <1>5, Queues DEF Inv, TypeOK
  <2>2. /\ Of(inbox'[q], q)
        /\ Answers(inbox'[q], q) <=> Answers(inbox[q], q) \/ m.what # "chunk"
        /\ EndsLast(inbox[q], q) /\ ~Answers(inbox[q], q) => EndsLast(inbox'[q], q)
        /\ Chunks(inbox'[q], q) = Chunks(inbox[q], q) + (IF IsChunk(m, q) THEN 1 ELSE 0)
    BY <1>2, <1>5, <2>1, QueueAppended
  <2>3. Own(q)'
    <3>1. \A i \in DOMAIN inbox'[q] :
            inbox'[q][i] = m \/ (i \in DOMAIN inbox[q] /\ inbox'[q][i] = inbox[q][i])
      BY <1>2, <2>1, Appended
    <3> QED BY <1>5, <3>1 DEF Flow, Own
  <2>4. Unheard(q)' /\ Complete(q)'
    BY <1>1, <1>3, <1>5 DEF Flow, Unheard, Complete, callVars, runVars
  <2>5. AnswerLast(q)'
    BY <1>1, <1>3, <1>5, <2>2 DEF Flow, AnswerLast
  <2>6. Whole(q)'
    <3>1. Chunks(inbox'[q], q) + Chunks(posted', q) + Chunks(toBackend', q) =
            Chunks(inbox[q], q) + Chunks(posted, q) + Chunks(toBackend, q)
      BY <1>1, <1>3, <1>4, <2>2
    <3> QED BY <1>1, <1>2, <3>1, <1>0, WholeKept DEF Flow, callVars, runVars
  <2>7. Asks(q)' => q \in registry'
    BY <1>1, <1>2 DEF Flow
  <2> QED BY <2>3, <2>4, <2>5, <2>6, <2>7 DEF Flow
<1>6. CASE m.req # q \/ Over
  <2>1. inbox'[q] = inbox[q]
    BY <1>1, <1>2, <1>6 DEF Inv, TypeOK
  <2>2. Own(q)' /\ Unheard(q)' /\ Complete(q)'
    BY <1>1, <1>3, <2>1 DEF Flow, Own, Unheard, Complete, callVars, runVars
  <2>3. AnswerLast(q)'
    BY <1>1, <1>3, <2>1 DEF Flow, AnswerLast
  <2>4. Asks(q) => ~IsChunk(m, q)
    BY <1>6 DEF Asks, IsChunk
  <2>5. Whole(q)' /\ (Asks(q)' => q \in registry')
    BY <1>1, <1>2, <1>3, <1>4, <2>1, <2>4 DEF Flow, Whole, callVars, runVars
  <2> QED BY <2>2, <2>3, <2>5 DEF Flow
<1> QED BY <1>5, <1>6

(* A connection that breaks takes the last items of the wire.               *)
LEMMA FlowOfLoss ==
  ASSUME Inv, NEW q \in Requests, Flow(q), NEW restart, Lose(restart)
  PROVE  Flow(q)'
<1>1. PICK n \in 0..Len(toBackend) :
        /\ toBackend' = SubSeq(toBackend, 1, n)
        /\ cut' = cut \cup {toBackend[i].req : i \in (n + 1)..Len(toBackend)}
  BY DEF Lose
<1>2. /\ UNCHANGED <<callVars, inbox, registry, posted, printed>> /\ (Asks(q)' <=> Asks(q))
      /\ remote'[q] = remote[q] \/ (remote[q] = "running" /\ remote'[q] = "lost")
  BY DEF Lose, callVars, Asks
<1>3. /\ Of(toBackend', q) => Of(toBackend, q)
      /\ Answers(toBackend', q) => Answers(toBackend, q)
      /\ EndsLast(toBackend, q) => EndsLast(toBackend', q)
      /\ q \notin cut' => Chunks(toBackend', q) = Chunks(toBackend, q)
  <2>1. q \notin cut' => \A i \in (n + 1)..Len(toBackend) : toBackend[i].req # q
    BY <1>1
  <2>2. toBackend \in Seq(Items)
    BY Queues DEF Inv
  <2>3. /\ Of(toBackend', q) => Of(toBackend, q)
        /\ Answers(toBackend', q) => Answers(toBackend, q)
        /\ EndsLast(toBackend, q) => EndsLast(toBackend', q)
        /\ (\A i \in (n + 1)..Len(toBackend) : toBackend[i].req # q) =>
             Chunks(toBackend', q) = Chunks(toBackend, q)
    BY <1>1, <2>2, QueueCut
  <2> QED BY <2>1, <2>3
<1>4. Own(q)' /\ AnswerLast(q)' /\ Unheard(q)'
  BY <1>2, <1>3 DEF Flow, Own, AnswerLast, Unheard
<1>5. Whole(q)' /\ Complete(q)' /\ (Asks(q)' => q \in registry')
  BY <1>1, <1>2, <1>3 DEF Flow, Whole, Complete, callVars
<1> QED BY <1>4, <1>5 DEF Flow

LEMMA FlowStep == Inv /\ (\A q \in Requests : Flow(q)) /\ [Next]_vars => \A q \in Requests : Flow(q)'
<1> SUFFICES ASSUME Inv, NEW q \in Requests, Flow(q), [Next]_vars PROVE Flow(q)'
  OBVIOUS
<1>1. ASSUME NEW r \in Requests, Issue(r) \/ CallRuns(r) \/ TimeOut(r) \/ Cancelled(r)
             \/ CancelledAgain(r) \/ NoticeRuns(r) \/ Works(r)
      PROVE  Flow(q)'
  BY <1>1, FlowBegins, FlowOfCall, FlowYields, FlowEnds, FlowOfWork DEF CallRuns
<1>2. CASE Route \/ RunPosted \/ Accept \/ \E restart \in BOOLEAN : Lose(restart)
  BY <1>2, FlowOfRoute, FlowOfPosted, FlowOfRunner, FlowOfLoss
<1>3. CASE Unregister \/ Reconnect \/ Register \/ UNCHANGED vars
  <2>1. UNCHANGED <<callVars, inbox, registry, posted, toBackend, runVars>>
    BY <1>3 DEF Unregister, Reconnect, Register, vars
  <2> QED BY <2>1, FlowKept DEF callVars, runVars, Asks
<1> QED BY <1>1, <1>2, <1>3 DEF Next

(* A stream that reports an exit code has yielded every chunk the runner    *)
(* printed, unless a connection broke and took some: the answer overtakes   *)
(* no output between the runner, the Socket.IO thread and the event loop.   *)
THEOREM StreamsAreComplete == Spec => []StreamComplete
<1> DEFINE Flows == \A q \in Requests : Flow(q)
<1>1. Init => Flows
  <2> SUFFICES ASSUME Init, NEW q \in Requests PROVE Flow(q)
    OBVIOUS
  <2> USE DEF Init
  <2>1. Own(q) /\ AnswerLast(q) /\ Unheard(q)
    BY QueueEmpty, EmptySeq DEF Own, AnswerLast, Unheard
  <2>2. Whole(q) /\ Complete(q) /\ (Asks(q) => q \in registry)
    BY DEF Whole, Complete, Asks
  <2> QED BY <2>1, <2>2 DEF Flow
<1>2. Inv /\ Flows /\ [Next]_vars => Flows'
  BY FlowStep
<1>3. Flows => StreamComplete
  BY DEF StreamComplete, Flow, Complete
<1> QED BY <1>1, <1>2, <1>3, InvHolds, PTL DEF Spec
-----------------------------------------------------------------------------
(* The other parts: the theorems of ServicePartsProofs for the constants of    *)
(* MCServices, once for each of its terminals.                                 *)

ShellsP == INSTANCE ServicePartsProofs WITH
  Requests <- Calls,
  Jobs <- {jobA, jobB}, Captures <- {}, Host <- <<>>, Beginnings <- {"active"}, owed <- todo,
  Pages <- {pageA}, MaxTerminals <- 2, MaxChunks <- 1, MaxKeys <- 0, MaxDrops <- 1,
  Threaded <- FALSE, inbox <- pageInbox,
  Tunnels <- {tunA}, MaxFrames <- 3, MaxBreaks <- 2
TypingP == INSTANCE ServicePartsProofs WITH
  Requests <- Calls,
  Jobs <- {jobA, jobB}, Captures <- {}, Host <- <<>>, Beginnings <- {"active"}, owed <- todo,
  Pages <- {pageA}, MaxTerminals <- 1, MaxChunks <- 3, MaxKeys <- 2, MaxDrops <- 0,
  Threaded <- FALSE, inbox <- pageInbox,
  Tunnels <- {tunA}, MaxFrames <- 3, MaxBreaks <- 2
DockerP == INSTANCE ServicePartsProofs WITH
  Requests <- Calls,
  Jobs <- {jobA, jobB}, Captures <- {}, Host <- <<>>, Beginnings <- {"active"}, owed <- todo,
  Pages <- {pageA}, MaxTerminals <- 1, MaxChunks <- 0, MaxKeys <- 2, MaxDrops <- 0,
  Threaded <- TRUE, inbox <- pageInbox,
  Tunnels <- {tunA}, MaxFrames <- 3, MaxBreaks <- 2

(* One module, reached twice.                                                  *)
LEMMA SameProcesses ==
  /\ Proc!Init <=> ShellsP!Init
  /\ [Proc!Next]_(Proc!vars) <=> [ShellsP!Next]_(ShellsP!vars)
BY Zenon DEF
  Proc!NoneAssumption, ShellsP!NoneAssumption, Proc!FaultsAssumption,
  ShellsP!FaultsAssumption, Proc!history, ShellsP!history, Proc!runnerVars,
  ShellsP!runnerVars, Proc!vars, ShellsP!vars, Proc!NoReport, ShellsP!NoReport,
  Proc!NoRequest, ShellsP!NoRequest, Proc!NoTask, ShellsP!NoTask, Proc!NoBeat,
  ShellsP!NoBeat, Proc!Init, ShellsP!Init, Proc!Ended, ShellsP!Ended, Proc!RunningRows,
  ShellsP!RunningRows, Proc!MarkedAs, ShellsP!MarkedAs, Proc!SaysOf, ShellsP!SaysOf,
  Proc!Reconciled, ShellsP!Reconciled, Proc!KilledWithWorkspace, ShellsP!KilledWithWorkspace,
  Proc!Idle, ShellsP!Idle, Proc!Becomes, ShellsP!Becomes, Proc!Over, ShellsP!Over,
  Proc!StartChecked, ShellsP!StartChecked, Proc!StartCreatesRow, ShellsP!StartCreatesRow,
  Proc!LookChecked, ShellsP!LookChecked, Proc!Ask, ShellsP!Ask, Proc!AskFails,
  ShellsP!AskFails, Proc!CallCancelled, ShellsP!CallCancelled, Proc!StartFailed,
  ShellsP!StartFailed, Proc!Answered, ShellsP!Answered, Proc!StartSucceeds,
  ShellsP!StartSucceeds, Proc!ListTaken, ShellsP!ListTaken, Proc!GetTaken, ShellsP!GetTaken,
  Proc!StopTaken, ShellsP!StopTaken, Proc!CallRuns, ShellsP!CallRuns, Proc!TaskIs,
  ShellsP!TaskIs, Proc!Steps, ShellsP!Steps, Proc!AnswersWith, ShellsP!AnswersWith,
  Proc!Unknown, ShellsP!Unknown, Proc!Spawns, ShellsP!Spawns, Proc!Tracks, ShellsP!Tracks,
  Proc!Looks, ShellsP!Looks, Proc!Probes, ShellsP!Probes, Proc!StopFinds, ShellsP!StopFinds,
  Proc!Terminates, ShellsP!Terminates, Proc!Escalates, ShellsP!Escalates, Proc!Drops,
  ShellsP!Drops, Proc!RunnerRuns, ShellsP!RunnerRuns, Proc!ProcessEnds, ShellsP!ProcessEnds,
  Proc!RunnerRestarts, ShellsP!RunnerRestarts, Proc!StopSent, ShellsP!StopSent,
  Proc!KillsAll, ShellsP!KillsAll, Proc!DropsAll, ShellsP!DropsAll, Proc!InstanceStops,
  ShellsP!InstanceStops, Proc!HandleStopped, ShellsP!HandleStopped, Proc!Resumes,
  ShellsP!Resumes, Proc!HandleResumed, ShellsP!HandleResumed, Proc!BeatBegins,
  ShellsP!BeatBegins, Proc!BeatProbes, ShellsP!BeatProbes, Proc!HandleHeartbeat,
  ShellsP!HandleHeartbeat, Proc!HeartbeatLost, ShellsP!HeartbeatLost, Proc!Beats,
  ShellsP!Beats, Proc!Stops, ShellsP!Stops, Proc!Next, ShellsP!Next

LEMMA SameTunnels ==
  /\ Tunnel!Init <=> ShellsP!Desk!Init
  /\ [Tunnel!Next]_(Tunnel!vars) <=> [ShellsP!Desk!Next]_(ShellsP!Desk!vars)
BY Zenon DEF
  Tunnel!vars, ShellsP!Desk!vars, Tunnel!Init, ShellsP!Desk!Init, Tunnel!Breaks,
  ShellsP!Desk!Breaks, Tunnel!Orders, ShellsP!Desk!Orders, Tunnel!Replies,
  ShellsP!Desk!Replies, Tunnel!Registered, ShellsP!Desk!Registered, Tunnel!PageEnds,
  ShellsP!Desk!PageEnds, Tunnel!Asks, ShellsP!Desk!Asks, Tunnel!Unanswered,
  ShellsP!Desk!Unanswered, Tunnel!Leaves, ShellsP!Desk!Leaves, Tunnel!SeesLeave,
  ShellsP!Desk!SeesLeave, Tunnel!ShowsFrame, ShellsP!Desk!ShowsFrame, Tunnel!ShowsEnd,
  ShellsP!Desk!ShowsEnd, Tunnel!Queued, ShellsP!Desk!Queued, Tunnel!Delivered,
  ShellsP!Desk!Delivered, Tunnel!Handled, ShellsP!Desk!Handled, Tunnel!AcceptFails,
  ShellsP!Desk!AcceptFails, Tunnel!Closed, ShellsP!Desk!Closed, Tunnel!OnClose,
  ShellsP!Desk!OnClose, Tunnel!Obeys, ShellsP!Desk!Obeys, Tunnel!Connects,
  ShellsP!Desk!Connects, Tunnel!Refuses, ShellsP!Desk!Refuses, Tunnel!Reads,
  ShellsP!Desk!Reads, Tunnel!DesktopCloses, ShellsP!Desk!DesktopCloses, Tunnel!ReportsEnd,
  ShellsP!Desk!ReportsEnd, Tunnel!Finalizes, ShellsP!Desk!Finalizes, Tunnel!Disconnects,
  ShellsP!Desk!Disconnects, Tunnel!Reconnects, ShellsP!Desk!Reconnects, Tunnel!PageNext,
  ShellsP!Desk!PageNext, Tunnel!RunnerNext, ShellsP!Desk!RunnerNext, Tunnel!Exchange,
  ShellsP!Desk!Exchange, Tunnel!Next, ShellsP!Desk!Next

LEMMA SameImages ==
  /\ Img!Init <=> ShellsP!Img!Init
  /\ [Img!Next]_(Img!vars) <=> [ShellsP!Img!Next]_(ShellsP!Img!vars)
BY Zenon DEF
  Img!rowVars, ShellsP!Img!rowVars, Img!runnerVars, ShellsP!Img!runnerVars, Img!vars,
  ShellsP!Img!vars, Img!Items, ShellsP!Img!Items, Img!HostOf, ShellsP!Img!HostOf,
  Img!InDeletion, ShellsP!Img!InDeletion, Img!NoJob, ShellsP!Img!NoJob, Img!NoImage,
  ShellsP!Img!NoImage, Img!NoPurge, ShellsP!Img!NoPurge, Img!BuiltJob, ShellsP!Img!BuiltJob,
  Img!BuiltImage, ShellsP!Img!BuiltImage, Img!Situations, ShellsP!Img!Situations, Img!Init,
  ShellsP!Img!Init, Img!Marked, ShellsP!Img!Marked, Img!ImageDeleting,
  ShellsP!Img!ImageDeleting, Img!ImageDeleted, ShellsP!Img!ImageDeleted,
  Img!ImageDeleteFailed, ShellsP!Img!ImageDeleteFailed, Img!Requested, ShellsP!Img!Requested,
  Img!JobDeleting, ShellsP!Img!JobDeleting, Img!JobPendingDeletion,
  ShellsP!Img!JobPendingDeletion, Img!JobDeleted, ShellsP!Img!JobDeleted,
  Img!JobDeleteFailed, ShellsP!Img!JobDeleteFailed, Img!DefDeleteFailed,
  ShellsP!Img!DefDeleteFailed, Img!DefDeleting, ShellsP!Img!DefDeleting, Img!Remaining,
  ShellsP!Img!Remaining, Img!DefChecked, ShellsP!Img!DefChecked, Img!NextTask,
  ShellsP!Img!NextTask, Img!Dispatches, ShellsP!Img!Dispatches, Img!Ends, ShellsP!Img!Ends,
  Img!Ask, ShellsP!Img!Ask, Img!Mutable, ShellsP!Img!Mutable, Img!Triggered,
  ShellsP!Img!Triggered, Img!BuildingImage, ShellsP!Img!BuildingImage, Img!TriggerBuild,
  ShellsP!Img!TriggerBuild, Img!Triggers, ShellsP!Img!Triggers, Img!Retires,
  ShellsP!Img!Retires, Img!DeactivatesJob, ShellsP!Img!DeactivatesJob, Img!HasReadyImage,
  ShellsP!Img!HasReadyImage, Img!ActivatesJob, ShellsP!Img!ActivatesJob, Img!Captured,
  ShellsP!Img!Captured, Img!DeletesCapture, ShellsP!Img!DeletesCapture, Img!UsesImage,
  ShellsP!Img!UsesImage, Img!LeavesImage, ShellsP!Img!LeavesImage, Img!DeletionRefused,
  ShellsP!Img!DeletionRefused, Img!ImageDropped, ShellsP!Img!ImageDropped,
  Img!DeleteBuildJob, ShellsP!Img!DeleteBuildJob, Img!DeletesJob, ShellsP!Img!DeletesJob,
  Img!DeletesDefinition, ShellsP!Img!DeletesDefinition, Img!PurgesJob, ShellsP!Img!PurgesJob,
  Img!PurgeEnds, ShellsP!Img!PurgeEnds, Img!DeactivatesDefinition,
  ShellsP!Img!DeactivatesDefinition, Img!ActivatesDefinition,
  ShellsP!Img!ActivatesDefinition, Img!Tasks, ShellsP!Img!Tasks, Img!At, ShellsP!Img!At,
  Img!Report, ShellsP!Img!Report, Img!Receives, ShellsP!Img!Receives, Img!Progress,
  ShellsP!Img!Progress, Img!WorkDone, ShellsP!Img!WorkDone, Img!WorkFails,
  ShellsP!Img!WorkFails, Img!Drops, ShellsP!Img!Drops, Img!Handles, ShellsP!Img!Handles,
  Img!Reported, ShellsP!Img!Reported, Img!OnProgress, ShellsP!Img!OnProgress, Img!OnBuilt,
  ShellsP!Img!OnBuilt, Img!OnBuildFailed, ShellsP!Img!OnBuildFailed, Img!OnCaptured,
  ShellsP!Img!OnCaptured, Img!OnCaptureFailed, ShellsP!Img!OnCaptureFailed, Img!OnDeleted,
  ShellsP!Img!OnDeleted, Img!DeletedBy, ShellsP!Img!DeletedBy, Img!OnJobDeleted,
  ShellsP!Img!OnJobDeleted, Img!OnDeleteFailed, ShellsP!Img!OnDeleteFailed, Img!ToDelete,
  ShellsP!Img!ToDelete, Img!DispatchesBuild, ShellsP!Img!DispatchesBuild, Img!Reusable,
  ShellsP!Img!Reusable, Img!Resends, ShellsP!Img!Resends, Img!DispatchesImage,
  ShellsP!Img!DispatchesImage, Img!DispatchesJob, ShellsP!Img!DispatchesJob, Img!Older,
  ShellsP!Img!Older, Img!HourPasses, ShellsP!Img!HourPasses, Img!StaleBuild,
  ShellsP!Img!StaleBuild, Img!StaleDelete, ShellsP!Img!StaleDelete, Img!SweptJob,
  ShellsP!Img!SweptJob, Img!SweptImage, ShellsP!Img!SweptImage, Img!DefSwept,
  ShellsP!Img!DefSwept, Img!SweepRows, ShellsP!Img!SweepRows, Img!Sweeps, ShellsP!Img!Sweeps,
  Img!Registers, ShellsP!Img!Registers, Img!SweepsImages, ShellsP!Img!SweepsImages,
  Img!UserNext, ShellsP!Img!UserNext, Img!Purges, ShellsP!Img!Purges, Img!RunnerNext,
  ShellsP!Img!RunnerNext, Img!HandlerNext, ShellsP!Img!HandlerNext, Img!RegisterNext,
  ShellsP!Img!RegisterNext, Img!Next, ShellsP!Img!Next

LEMMA SameShells ==
  /\ Shells!Init <=> ShellsP!Term!Init
  /\ [Shells!Next]_(Shells!vars) <=> [ShellsP!Term!Next]_(ShellsP!Term!vars)
BY Zenon DEF
  Shells!vars, ShellsP!Term!vars, Shells!NewPage, ShellsP!Term!NewPage, Shells!Init,
  ShellsP!Term!Init, Shells!Request, ShellsP!Term!Request, Shells!Asked, ShellsP!Term!Asked,
  Shells!Connecting, ShellsP!Term!Connecting, Shells!Connects, ShellsP!Term!Connects,
  Shells!Types, ShellsP!Term!Types, Shells!Closes, ShellsP!Term!Closes, Shells!Drops,
  ShellsP!Term!Drops, Shells!Reconnects, ShellsP!Term!Reconnects, Shells!Shown,
  ShellsP!Term!Shown, Shells!Takes, ShellsP!Term!Takes, Shells!Hears, ShellsP!Term!Hears,
  Shells!Reports, ShellsP!Term!Reports, Shells!Starts, ShellsP!Term!Starts, Shells!Started,
  ShellsP!Term!Started, Shells!InThread, ShellsP!Term!InThread, Shells!Inputs,
  ShellsP!Term!Inputs, Shells!Writes, ShellsP!Term!Writes, Shells!Reads, ShellsP!Term!Reads,
  Shells!Exits, ShellsP!Term!Exits, Shells!ReaderEnds, ShellsP!Term!ReaderEnds,
  Shells!EndReport, ShellsP!Term!EndReport, Shells!ReaderReports, ShellsP!Term!ReaderReports,
  Shells!CancelledReader, ShellsP!Term!CancelledReader, Shells!ClosedPty,
  ShellsP!Term!ClosedPty, Shells!Closing, ShellsP!Term!Closing, Shells!Broadcast,
  ShellsP!Term!Broadcast, Shells!Handled, ShellsP!Term!Handled, Shells!Stored,
  ShellsP!Term!Stored, Shells!Obeys, ShellsP!Term!Obeys, Shells!TerminalNext,
  ShellsP!Term!TerminalNext, Shells!Next, ShellsP!Term!Next

LEMMA SameTyping ==
  /\ Typing!Init <=> TypingP!Term!Init
  /\ [Typing!Next]_(Typing!vars) <=> [TypingP!Term!Next]_(TypingP!Term!vars)
BY Zenon DEF
  Typing!vars, TypingP!Term!vars, Typing!NewPage, TypingP!Term!NewPage, Typing!Init,
  TypingP!Term!Init, Typing!Request, TypingP!Term!Request, Typing!Asked, TypingP!Term!Asked,
  Typing!Connecting, TypingP!Term!Connecting, Typing!Connects, TypingP!Term!Connects,
  Typing!Types, TypingP!Term!Types, Typing!Closes, TypingP!Term!Closes, Typing!Drops,
  TypingP!Term!Drops, Typing!Reconnects, TypingP!Term!Reconnects, Typing!Shown,
  TypingP!Term!Shown, Typing!Takes, TypingP!Term!Takes, Typing!Hears, TypingP!Term!Hears,
  Typing!Reports, TypingP!Term!Reports, Typing!Starts, TypingP!Term!Starts, Typing!Started,
  TypingP!Term!Started, Typing!InThread, TypingP!Term!InThread, Typing!Inputs,
  TypingP!Term!Inputs, Typing!Writes, TypingP!Term!Writes, Typing!Reads, TypingP!Term!Reads,
  Typing!Exits, TypingP!Term!Exits, Typing!ReaderEnds, TypingP!Term!ReaderEnds,
  Typing!EndReport, TypingP!Term!EndReport, Typing!ReaderReports, TypingP!Term!ReaderReports,
  Typing!CancelledReader, TypingP!Term!CancelledReader, Typing!ClosedPty,
  TypingP!Term!ClosedPty, Typing!Closing, TypingP!Term!Closing, Typing!Broadcast,
  TypingP!Term!Broadcast, Typing!Handled, TypingP!Term!Handled, Typing!Stored,
  TypingP!Term!Stored, Typing!Obeys, TypingP!Term!Obeys, Typing!TerminalNext,
  TypingP!Term!TerminalNext, Typing!Next, TypingP!Term!Next

LEMMA SameDocker ==
  /\ Docker!Init <=> DockerP!Term!Init
  /\ [Docker!Next]_(Docker!vars) <=> [DockerP!Term!Next]_(DockerP!Term!vars)
BY Zenon DEF
  Docker!vars, DockerP!Term!vars, Docker!NewPage, DockerP!Term!NewPage, Docker!Init,
  DockerP!Term!Init, Docker!Request, DockerP!Term!Request, Docker!Asked, DockerP!Term!Asked,
  Docker!Connecting, DockerP!Term!Connecting, Docker!Connects, DockerP!Term!Connects,
  Docker!Types, DockerP!Term!Types, Docker!Closes, DockerP!Term!Closes, Docker!Drops,
  DockerP!Term!Drops, Docker!Reconnects, DockerP!Term!Reconnects, Docker!Shown,
  DockerP!Term!Shown, Docker!Takes, DockerP!Term!Takes, Docker!Hears, DockerP!Term!Hears,
  Docker!Reports, DockerP!Term!Reports, Docker!Starts, DockerP!Term!Starts, Docker!Started,
  DockerP!Term!Started, Docker!InThread, DockerP!Term!InThread, Docker!Inputs,
  DockerP!Term!Inputs, Docker!Writes, DockerP!Term!Writes, Docker!Reads, DockerP!Term!Reads,
  Docker!Exits, DockerP!Term!Exits, Docker!ReaderEnds, DockerP!Term!ReaderEnds,
  Docker!EndReport, DockerP!Term!EndReport, Docker!ReaderReports, DockerP!Term!ReaderReports,
  Docker!CancelledReader, DockerP!Term!CancelledReader, Docker!ClosedPty,
  DockerP!Term!ClosedPty, Docker!Closing, DockerP!Term!Closing, Docker!Broadcast,
  DockerP!Term!Broadcast, Docker!Handled, DockerP!Term!Handled, Docker!Stored,
  DockerP!Term!Stored, Docker!Obeys, DockerP!Term!Obeys, Docker!TerminalNext,
  DockerP!Term!TerminalNext, Docker!Next, DockerP!Term!Next

-----------------------------------------------------------------------------
LEMMA ProcessesMove == SumSpec => ShellsP!Spec
<1>1. SumInit => ShellsP!Init
  BY SameProcesses DEF SumInit
<1>2. [SumNext]_sumVars => [ShellsP!Next]_(ShellsP!vars)
  <2>1. [SumNext]_sumVars => [Proc!Next]_(Proc!vars)
    BY DEF SumNext, sumVars, procVars, Proc!vars
  <2> QED BY <2>1, SameProcesses
<1> QED BY <1>1, <1>2, PTL DEF SumSpec, ShellsP!Spec

LEMMA TunnelsMove == SumSpec => ShellsP!Desk!Spec
<1>1. SumInit => ShellsP!Desk!Init
  BY SameTunnels DEF SumInit
<1>2. [SumNext]_sumVars => [ShellsP!Desk!Next]_(ShellsP!Desk!vars)
  <2>1. [SumNext]_sumVars => [Tunnel!Next]_(Tunnel!vars)
    BY DEF SumNext, sumVars, tunnelVars, Tunnel!vars
  <2> QED BY <2>1, SameTunnels
<1> QED BY <1>1, <1>2, PTL DEF SumSpec, ShellsP!Desk!Spec

LEMMA ImagesMove == SumSpec => ShellsP!Img!Spec
<1>1. SumInit => ShellsP!Img!Init
  BY SameImages DEF SumInit
<1>2. [SumNext]_sumVars => [ShellsP!Img!Next]_(ShellsP!Img!vars)
  <2>1. [SumNext]_sumVars => [Img!Next]_(Img!vars)
    BY DEF SumNext, sumVars, imgVars, Img!vars, Img!rowVars, Img!runnerVars
  <2> QED BY <2>1, SameImages
<1> QED BY <1>1, <1>2, PTL DEF SumSpec, ShellsP!Img!Spec

(* Which of the terminals moves is settled in the beginning; the others, and   *)
(* the parts beside them, leave every terminal as it is.                       *)
LEMMA ShellsMove == SumSpec => (part \notin {"typing", "docker"} => ShellsP!Term!Spec)
<1>1. SumInit => ShellsP!Term!Init
  BY SameShells DEF SumInit
<1>2. part \notin {"typing", "docker"} /\ [SumNext]_sumVars => (part \notin {"typing", "docker"})'
  BY DEF SumNext, sumVars
<1>3. part \notin {"typing", "docker"} /\ [SumNext]_sumVars => [ShellsP!Term!Next]_(ShellsP!Term!vars)
  <2>1. part \notin {"typing", "docker"} /\ [SumNext]_sumVars => [Shells!Next]_(Shells!vars)
    BY DEF SumNext, sumVars, shellVars, Shells!vars
  <2> QED BY <2>1, SameShells
<1> QED BY <1>1, <1>2, <1>3, PTL DEF SumSpec, ShellsP!Term!Spec

LEMMA TypingMove == SumSpec => (part = "typing" => TypingP!Term!Spec)
<1>1. SumInit => TypingP!Term!Init
  BY SameTyping DEF SumInit, Shells!Init, Shells!NewPage, Typing!Init, Typing!NewPage
<1>2. part = "typing" /\ [SumNext]_sumVars => (part = "typing")'
  BY DEF SumNext, sumVars
<1>3. part = "typing" /\ [SumNext]_sumVars => [TypingP!Term!Next]_(TypingP!Term!vars)
  <2>1. part = "typing" /\ [SumNext]_sumVars => [Typing!Next]_(Typing!vars)
    BY DEF SumNext, sumVars, shellVars, Typing!vars
  <2> QED BY <2>1, SameTyping
<1> QED BY <1>1, <1>2, <1>3, PTL DEF SumSpec, TypingP!Term!Spec

LEMMA DockerMove == SumSpec => (part = "docker" => DockerP!Term!Spec)
<1>1. SumInit => DockerP!Term!Init
  BY SameDocker DEF SumInit, Shells!Init, Shells!NewPage, Docker!Init, Docker!NewPage
<1>2. part = "docker" /\ [SumNext]_sumVars => (part = "docker")'
  BY DEF SumNext, sumVars
<1>3. part = "docker" /\ [SumNext]_sumVars => [DockerP!Term!Next]_(DockerP!Term!vars)
  <2>1. part = "docker" /\ [SumNext]_sumVars => [Docker!Next]_(Docker!vars)
    BY DEF SumNext, sumVars, shellVars, Docker!vars
  <2> QED BY <2>1, SameDocker
<1> QED BY <1>1, <1>2, <1>3, PTL DEF SumSpec, DockerP!Term!Spec

-----------------------------------------------------------------------------
(* A process whose start was confirmed and whose row says that it ended is     *)
(* dead, but for the two ways EndedIsDead names.                               *)
THEOREM RowsTellTheTruth == SumSpec => []EndedIsDead
<1>1. ShellsP!Spec => []ShellsP!EndedIsDead
  BY ProcessesAssumption, ShellsP!RowsTellTheTruth
     DEF Proc!NoneAssumption, Proc!FaultsAssumption,
         ShellsP!NoneAssumption, ShellsP!FaultsAssumption
<1>2. EndedIsDead <=> ShellsP!EndedIsDead
  BY DEF EndedIsDead, Proc!EndedIsDead, ShellsP!EndedIsDead, Proc!Confirmed, ShellsP!Confirmed,
         Proc!Ended, ShellsP!Ended
<1> QED BY <1>1, <1>2, ProcessesMove, PTL

(* A page shows its terminal and its desktop without a gap, whatever else the  *)
(* workspace reports, and what is typed gets to a shell of QEMU in its order.  *)
THEOREM PagesShowWhatHappens == SumSpec => []ShownInOrder
<1>1. SumSpec => []Shells!ShowsInOrder
  <2>1. /\ ShellsP!Term!ShowsInOrder <=> Shells!ShowsInOrder
        /\ TypingP!Term!ShowsInOrder <=> Shells!ShowsInOrder
        /\ DockerP!Term!ShowsInOrder <=> Shells!ShowsInOrder
    BY DEF Shells!ShowsInOrder, ShellsP!Term!ShowsInOrder, TypingP!Term!ShowsInOrder,
           DockerP!Term!ShowsInOrder
  <2>2. part \notin {"typing", "docker"} \/ part = "typing" \/ part = "docker"
    OBVIOUS
  <2> QED BY <2>1, <2>2, ShellsMove, TypingMove, DockerMove, ShellsP!PagesShowInOrder,
             TypingP!PagesShowInOrder, DockerP!PagesShowInOrder, PTL
<1>2. SumSpec => []Tunnel!StreamWhole
  <2>1. ShellsP!Desk!StreamWhole <=> Tunnel!StreamWhole
    BY DEF ShellsP!Desk!StreamWhole, Tunnel!StreamWhole
  <2> QED BY <2>1, TunnelsMove, ShellsP!FramesAreWhole, PTL
<1>3. SumSpec => [](part = "typing" => Typing!KeysInOrder)
  <2>1. TypingP!Term!KeysInOrder <=> Typing!KeysInOrder
    BY DEF TypingP!Term!KeysInOrder, Typing!KeysInOrder
  <2>2. ~(part = "typing") /\ [SumNext]_sumVars => ~(part = "typing")'
    BY DEF SumNext, sumVars
  <2>3. SumSpec => (~(part = "typing") => []~(part = "typing"))
    BY <2>2, PTL DEF SumSpec
  <2> QED BY <2>1, <2>3, TypingMove, TypingP!KeysArriveInOrder, PTL
<1>4. Shells!ShowsInOrder /\ Tunnel!StreamWhole /\ (part = "typing" => Typing!KeysInOrder)
      => ShownInOrder
  BY DEF ShownInOrder
<1> QED BY <1>1, <1>2, <1>3, <1>4, PTL

(* A build shown as deleted has no image that could be used, whatever the      *)
(* runners report and when, and a definition is deleted after its builds.      *)
THEOREM DeletionsKeepTheirOrder == SumSpec => DeletedInOrder
<1>1. SumSpec => []Img!DeletedTogether
  <2>1. ShellsP!Img!DeletedTogether <=> Img!DeletedTogether
    BY DEF ShellsP!Img!DeletedTogether, Img!DeletedTogether
  <2>2. ShellsP!Img!ImagesAssumption
    BY BuildsAssumption DEF Img!ImagesAssumption, ShellsP!Img!ImagesAssumption
  <2>3. ShellsP!Img!Spec => []ShellsP!Img!DeletedTogether
    BY <2>2, ShellsP!ImagesGoWithJobs
  <2> QED BY <2>1, <2>3, ImagesMove, PTL
<1>2. SumSpec => Img!DeletedLast
  <2>1. ShellsP!Img!DeletedLast <=> Img!DeletedLast
    BY DEF ShellsP!Img!DeletedLast, Img!DeletedLast, ShellsP!Img!vars, Img!vars,
           ShellsP!Img!rowVars, Img!rowVars, ShellsP!Img!runnerVars, Img!runnerVars
  <2> QED BY <2>1, ImagesMove, ShellsP!DefinitionsGoLast, PTL
<1> QED BY <1>1, <1>2, PTL DEF DeletedInOrder
===============================================================================
