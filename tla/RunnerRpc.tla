------------------------------ MODULE RunnerRpc ------------------------------
(***************************************************************************)
(* The remote calls of the harness: a coroutine of the backend sends a     *)
(* request to the runner that owns the workspace and waits for the answer  *)
(* with the same request id. Answers arrive in the thread of the Socket.IO *)
(* handlers, which posts them to the event loop. A call ends by its answer,*)
(* by its time-out, by its cancellation or because the request could not be*)
(* sent; the runner is then told to stop. The connection may break, with   *)
(* what is on its way, and come back under another sid; the runner may     *)
(* restart meanwhile.                                                      *)
(***************************************************************************)
EXTENDS Naturals, Sequences, FiniteSets

CONSTANTS
  Requests,   \* request ids; each is used by one call
  Kind,       \* what each call is: exec_stream, exec_wait, or an operation on a file
  MaxLines,   \* bound: lines of output a streamed command prints
  MaxEvents   \* bound: calls and losses of the connection together

ASSUME KindAssumption == Kind \in [Requests -> {"stream", "wait", "file"}]
ASSUME BoundAssumption == MaxLines \in Nat /\ MaxEvents \in Nat

VARIABLES
  call,      \* where each call is
  target,    \* the sid its emit has read from the runner's row
  outcome,   \* how it ended, as soon as that is decided
  got,       \* how many chunks it has yielded
  inbox,     \* what its future or its queue holds
  registry,  \* the requests in _ACCESSORS_BY_REQUEST, _pending and _streams
  notice,    \* where its harness:cancel is
  posted,    \* callbacks the Socket.IO thread has posted to the event loop
  row,       \* Runner.sid in the database, 0 when the runner is offline
  conn, up,  \* number of the latest connection, whether it stands
  toRunner, toBackend,
  remote,    \* what has become of each request at the runner
  printed,   \* how many chunks the runner has sent
  cut        \* history: the requests some of whose output a lost connection took

callVars == <<call, target, outcome, got>>
runVars == <<remote, printed, cut>>
linkVars == <<row, conn, up>>
vars == <<callVars, inbox, registry, notice, posted, linkVars, toRunner, toBackend, runVars>>

Init ==
  /\ call = [r \in Requests |-> "idle"] /\ target = [r \in Requests |-> 0]
  /\ outcome = [r \in Requests |-> "none"] /\ got = [r \in Requests |-> 0]
  /\ inbox = [r \in Requests |-> <<>>] /\ registry = {}
  /\ notice = [r \in Requests |-> "none"] /\ posted = <<>>
  /\ row = 1 /\ conn = 1 /\ up = TRUE
  /\ toRunner = <<>> /\ toBackend = <<>>
  /\ remote = [r \in Requests |-> "none"] /\ printed = [r \in Requests |-> 0]
  /\ cut = {}

-----------------------------------------------------------------------------
(* The calling coroutine                                                    *)

(* The bounded inputs: the calls made and the connections lost.             *)
Losses == IF up THEN conn - 1 ELSE conn
Input == Cardinality({r \in Requests : call[r] # "idle"}) + Losses < MaxEvents

At(r, from, to) == call[r] = from /\ call' = [call EXCEPT ![r] = to]

(* _register; the await of the first database call of _emit                 *)
Issue(r) ==
  /\ Input
  /\ At(r, "idle", "lookup")
  /\ registry' = registry \cup {r}
  /\ UNCHANGED <<target, outcome, got, inbox, notice, posted, linkVars, toRunner, toBackend,
                 runVars>>

(* Mutant: a call that gives up forgets to unregister.                      *)
KeepsRegistration(r, why) ==
  /\ outcome' = [outcome EXCEPT ![r] = why]
  /\ call' = [call EXCEPT ![r] = "closing"]
  /\ notice' = [notice EXCEPT ![r] = "lookup"]
  /\ UNCHANGED registry

(* The finally clause of a call that was not answered: unregister, then send*)
(* harness:cancel. exec_stream emits before its try statement.              *)
Abandon(r, why) ==
  /\ outcome' = [outcome EXCEPT ![r] = why]
  /\ IF Kind[r] = "stream" /\ call[r] # "waiting"
     THEN call' = [call EXCEPT ![r] = "done"] /\ UNCHANGED <<registry, notice>>
     ELSE /\ call' = [call EXCEPT ![r] = "closing"]
          /\ registry' = registry \ {r}
          /\ notice' = [notice EXCEPT ![r] = "lookup"]

LookUp(r) ==
  /\ row # 0
  /\ At(r, "lookup", "sending")
  /\ target' = [target EXCEPT ![r] = row]
  /\ UNCHANGED <<outcome, got, inbox, registry, notice, posted, linkVars, toRunner, toBackend,
                 runVars>>

RunnerOffline(r) ==
  /\ row = 0 /\ call[r] = "lookup"
  /\ Abandon(r, "failed")
  /\ UNCHANGED <<target, got, inbox, posted, linkVars, toRunner, toBackend, runVars>>

(* sio.emit to a sid that is no connection any more is dropped.             *)
Delivered(sid, m) ==
  toRunner' = IF up /\ sid = conn THEN Append(toRunner, m) ELSE toRunner

Send(r) ==
  /\ At(r, "sending", "waiting")
  /\ Delivered(target[r], [req |-> r, what |-> "start"])
  /\ UNCHANGED <<target, outcome, got, inbox, registry, notice, posted, linkVars, toBackend,
                 runVars>>

TakeChunk(r) ==
  /\ call[r] = "waiting" /\ inbox[r] # <<>> /\ Head(inbox[r]).what = "chunk"
  /\ inbox' = [inbox EXCEPT ![r] = Tail(@)]
  /\ got' = [got EXCEPT ![r] = @ + 1]
  /\ UNCHANGED <<call, target, outcome, registry, notice, posted, linkVars, toRunner, toBackend,
                 runVars>>

(* An error that ends a stream is raised inside its try statement, before   *)
(* "finished" is set: the runner is told to stop all the same.              *)
TakeAnswer(r) ==
  /\ call[r] = "waiting" /\ inbox[r] # <<>> /\ Head(inbox[r]).what # "chunk"
  /\ inbox' = [inbox EXCEPT ![r] = Tail(@)]
  /\ IF Kind[r] = "stream" /\ Head(inbox[r]).what = "error"
     THEN Abandon(r, "error")
     ELSE /\ outcome' = [outcome EXCEPT ![r] = Head(inbox[r]).what]
          /\ call' = [call EXCEPT ![r] = "done"]
          /\ registry' = registry \ {r}
          /\ UNCHANGED notice
  /\ UNCHANGED <<target, got, posted, linkVars, toRunner, toBackend, runVars>>

(* wait_for may time out although the answer has just been set.             *)
TimeOut(r) ==
  /\ call[r] = "waiting"
  /\ Abandon(r, "timeout")
  /\ UNCHANGED <<target, got, inbox, posted, linkVars, toRunner, toBackend, runVars>>

(* The task that makes the call is cancelled, or stops iterating a stream;  *)
(* the emit it awaits may have happened already.                            *)
Cancelled(r) ==
  /\ call[r] \in {"lookup", "sending", "waiting"}
  /\ Abandon(r, "cancelled")
  /\ \/ UNCHANGED toRunner
     \/ call[r] = "sending" /\ Delivered(target[r], [req |-> r, what |-> "start"])
  /\ UNCHANGED <<target, got, inbox, posted, linkVars, toBackend, runVars>>

(* The emit of harness:cancel is shielded: a second cancellation ends the   *)
(* call, not the emit.                                                      *)
CancelledAgain(r) ==
  /\ At(r, "closing", "done")
  /\ UNCHANGED <<target, outcome, got, inbox, registry, notice, posted, linkVars, toRunner,
                 toBackend, runVars>>

NoticeLooksUp(r) ==
  /\ notice[r] = "lookup"
  /\ notice' = [notice EXCEPT ![r] = IF row = 0 THEN "lost" ELSE "sending"]
  /\ target' = [target EXCEPT ![r] = row]
  /\ UNCHANGED <<call, outcome, got, inbox, registry, posted, linkVars, toRunner, toBackend,
                 runVars>>

NoticeSent(r) ==
  /\ notice[r] = "sending"
  /\ notice' = [notice EXCEPT ![r] = IF up /\ target[r] = conn THEN "sent" ELSE "lost"]
  /\ Delivered(target[r], [req |-> r, what |-> "cancel"])
  /\ UNCHANGED <<callVars, inbox, registry, posted, linkVars, toBackend, runVars>>

Return(r) ==
  /\ At(r, "closing", "done")
  /\ notice[r] \in {"sent", "lost"}
  /\ UNCHANGED <<target, outcome, got, inbox, registry, notice, posted, linkVars, toRunner,
                 toBackend, runVars>>

CallRuns(r) ==
  \/ LookUp(r) \/ RunnerOffline(r) \/ Send(r) \/ TakeChunk(r) \/ TakeAnswer(r) \/ Return(r)

NoticeRuns(r) == NoticeLooksUp(r) \/ NoticeSent(r)

-----------------------------------------------------------------------------
(* Answers at the backend                                                   *)

(* Mutant: the end of a stream is put into its queue by the handler's own   *)
(* thread, past the event loop.                                             *)
RoutesEndDirectly ==
  /\ toBackend # <<>> /\ toBackend' = Tail(toBackend)
  /\ LET m == Head(toBackend) IN
     IF m.req \notin registry THEN UNCHANGED <<posted, inbox>>
     ELSE IF m.what = "chunk" THEN posted' = Append(posted, m) /\ UNCHANGED inbox
     ELSE inbox' = [inbox EXCEPT ![m.req] = Append(@, m)] /\ UNCHANGED posted
  /\ UNCHANGED <<callVars, registry, notice, linkVars, toRunner, runVars>>

(* _route_harness_reply and _deliver_*, in the Socket.IO thread: what nobody*)
(* is registered for is dropped.                                            *)
Route ==
  /\ toBackend # <<>> /\ toBackend' = Tail(toBackend)
  /\ posted' = IF Head(toBackend).req \in registry THEN Append(posted, Head(toBackend)) ELSE posted
  /\ UNCHANGED <<callVars, inbox, registry, notice, linkVars, toRunner, runVars>>

(* A future that is cancelled takes no result; nobody looks at the queue of *)
(* a call that is over.                                                     *)
RunPosted ==
  /\ posted # <<>> /\ posted' = Tail(posted)
  /\ LET m == Head(posted) IN
     inbox' = IF call[m.req] \in {"closing", "done"} THEN inbox
              ELSE [inbox EXCEPT ![m.req] = Append(@, m)]
  /\ UNCHANGED <<callVars, registry, notice, linkVars, toRunner, toBackend, runVars>>

-----------------------------------------------------------------------------
(* The connection                                                           *)

(* What the server had received when the connection broke is still handled. *)
Lose(restart) ==
  /\ up /\ Input
  /\ up' = FALSE
  /\ toRunner' = <<>>
  /\ \E n \in 0..Len(toBackend) :
       /\ toBackend' = SubSeq(toBackend, 1, n)
       /\ cut' = cut \cup {toBackend[i].req : i \in (n + 1)..Len(toBackend)}
  /\ notice' = [r \in Requests |->
       IF \E i \in DOMAIN toRunner : toRunner[i] = [req |-> r, what |-> "cancel"]
       THEN "lost" ELSE notice[r]]
  /\ remote' = [r \in Requests |->
       IF restart /\ remote[r] = "running" THEN "lost" ELSE remote[r]]
  /\ UNCHANGED <<callVars, inbox, registry, posted, row, conn, printed>>

(* unregister_runner finds the runner by the sid that has gone.             *)
Unregister ==
  /\ ~up \/ row # conn
  /\ row # 0 /\ row' = 0
  /\ UNCHANGED <<callVars, inbox, registry, notice, posted, conn, up, toRunner, toBackend,
                 runVars>>

Reconnect ==
  /\ ~up /\ up' = TRUE /\ conn' = conn + 1
  /\ UNCHANGED <<callVars, inbox, registry, notice, posted, row, toRunner, toBackend, runVars>>

Register ==
  /\ up /\ row # conn /\ row' = conn
  /\ UNCHANGED <<callVars, inbox, registry, notice, posted, conn, up, toRunner, toBackend,
                 runVars>>

-----------------------------------------------------------------------------
(* The runner                                                               *)

(* Mutant: the runner looks for the request under another key.              *)
IgnoresCancel ==
  /\ toRunner # <<>> /\ toRunner' = Tail(toRunner)
  /\ LET m == Head(toRunner) IN
     remote' = [remote EXCEPT ![m.req] = IF m.what = "start" THEN "running" ELSE @]
  /\ UNCHANGED <<callVars, inbox, registry, notice, posted, linkVars, toBackend, printed, cut>>

(* Only an exec has a task of its own in _running_tasks, registered before  *)
(* the handler's first await: the cancel that follows finds it.             *)
Accept ==
  /\ toRunner # <<>> /\ toRunner' = Tail(toRunner)
  /\ LET m == Head(toRunner) IN
     remote' = [remote EXCEPT ![m.req] =
       IF m.what = "start" THEN "running"
       ELSE IF @ = "running" /\ Kind[m.req] # "file" THEN "cancelled" ELSE @]
  /\ UNCHANGED <<callVars, inbox, registry, notice, posted, linkVars, toBackend, printed, cut>>

(* An emit without a connection raises, and so does that of the error: the  *)
(* handler's task dies without an answer.                                   *)
Prints(r) ==
  /\ remote[r] = "running" /\ Kind[r] = "stream" /\ printed[r] < MaxLines
  /\ IF up
     THEN /\ toBackend' = Append(toBackend, [req |-> r, what |-> "chunk"])
          /\ printed' = [printed EXCEPT ![r] = @ + 1]
          /\ UNCHANGED remote
     ELSE remote' = [remote EXCEPT ![r] = "error"] /\ UNCHANGED <<toBackend, printed>>
  /\ UNCHANGED <<callVars, inbox, registry, notice, posted, linkVars, toRunner, cut>>

(* The command ends, fails or reaches the runner's own time-out.            *)
Ends(r, how) ==
  /\ remote[r] = "running"
  /\ remote' = [remote EXCEPT ![r] = how]
  /\ toBackend' = IF up THEN Append(toBackend, [req |-> r, what |-> how]) ELSE toBackend
  /\ UNCHANGED <<callVars, inbox, registry, notice, posted, linkVars, toRunner, printed, cut>>

(* Mutant: the end of the output counts as a successful exit.               *)
EndsAsExit(r) ==
  /\ remote[r] = "running" /\ Kind[r] = "stream"
  /\ remote' = [remote EXCEPT ![r] = "silent"]
  /\ toBackend' = IF up THEN Append(toBackend, [req |-> r, what |-> "ok"]) ELSE toBackend
  /\ UNCHANGED <<callVars, inbox, registry, notice, posted, linkVars, toRunner, printed, cut>>

(* A streamed command that is killed prints no exit line; no answer is sent.*)
EndsSilently(r) ==
  /\ remote[r] = "running" /\ Kind[r] = "stream"
  /\ remote' = [remote EXCEPT ![r] = "silent"]
  /\ UNCHANGED <<callVars, inbox, registry, notice, posted, linkVars, toRunner, toBackend,
                 printed, cut>>

Works(r) == Prints(r) \/ EndsSilently(r) \/ \E how \in {"ok", "error"} : Ends(r, how)

Next ==
  \/ \E r \in Requests :
       \/ Issue(r) \/ CallRuns(r) \/ TimeOut(r) \/ Cancelled(r) \/ CancelledAgain(r)
       \/ NoticeRuns(r) \/ Works(r)
  \/ Route \/ RunPosted \/ Accept
  \/ \E restart \in BOOLEAN : Lose(restart)
  \/ Unregister \/ Reconnect \/ Register

Spec == Init /\ [][Next]_vars

(* The event loops run what is ready, a timer goes off, the Socket.IO thread*)
(* handles what has arrived. Nothing is assumed of the commands.            *)
Fairness ==
  /\ \A r \in Requests : WF_vars(CallRuns(r)) /\ WF_vars(TimeOut(r)) /\ WF_vars(NoticeRuns(r))
  /\ WF_vars(Route) /\ WF_vars(RunPosted) /\ WF_vars(Accept)

FairSpec == Spec /\ Fairness
-----------------------------------------------------------------------------
(* Properties                                                               *)

Items == [req : Requests, what : {"chunk", "ok", "error"}]

TypeOK ==
  /\ call \in [Requests -> {"idle", "lookup", "sending", "waiting", "closing", "done"}]
  /\ outcome \in [Requests -> {"none", "ok", "error", "timeout", "cancelled", "failed"}]
  /\ target \in [Requests -> Nat] /\ got \in [Requests -> Nat]
  /\ inbox \in [Requests -> Seq(Items)]
  /\ registry \in SUBSET Requests
  /\ notice \in [Requests -> {"none", "lookup", "sending", "sent", "lost"}]
  /\ posted \in Seq(Items) /\ toBackend \in Seq(Items)
  /\ toRunner \in Seq([req : Requests, what : {"start", "cancel"}])
  /\ row \in Nat /\ conn \in Nat /\ up \in BOOLEAN
  /\ remote \in [Requests -> {"none", "running", "ok", "error", "silent", "cancelled", "lost"}]
  /\ printed \in [Requests -> Nat] /\ cut \in SUBSET Requests

(* However a call ends (answer, time-out, cancellation in any of its phases,*)
(* failure to send), its registration ends with it. The exception is the    *)
(* code's own: exec_stream registers and emits before its try statement.    *)
RegistrationEnds == \A r \in registry :
  call[r] \in {"closing", "done"} =>
    Kind[r] = "stream" /\ outcome[r] \in {"failed", "cancelled"} /\ got[r] = 0

(* A stream that reports an exit code has yielded every chunk the runner    *)
(* printed: the end does not overtake output, neither on the wire nor       *)
(* between the Socket.IO thread and the event loop. Only a connection that  *)
(* broke between two chunks leaves a gap, which nothing detects.            *)
StreamComplete == \A r \in Requests :
  outcome[r] = "ok" /\ Kind[r] = "stream" => got[r] = printed[r] \/ r \in cut

(* The promise of RemoteCall, of whatever the answer crosses on its way.    *)
StatusOf(r) == IF outcome[r] # "none" THEN outcome[r]
               ELSE IF call[r] = "idle" THEN "idle" ELSE "pending"
WorkOf(r) == IF remote[r] \in {"silent", "cancelled", "lost"} THEN "stopped" ELSE remote[r]
Promise == INSTANCE RemoteCall WITH status <- [r \in Requests |-> StatusOf(r)],
                                    work <- [r \in Requests |-> WorkOf(r)]

(* A call is answered at most once and only with what the runner did; one   *)
(* that gave up is never answered by a late or stray reply.                 *)
KeepsPromise == Promise!Spec

(* Every call returns, whatever the runner and the connection do.           *)
CallReturns == \A r \in Requests : call[r] # "idle" ~> call[r] = "done"

(* A command whose caller gave up is stopped by the harness:cancel, unless  *)
(* that was lost with the connection. Nothing else need stop it.            *)
CancelStops == \A r \in Requests :
  (notice[r] = "sent" /\ Kind[r] # "file") ~> (remote[r] # "running" \/ notice[r] = "lost")
=============================================================================
