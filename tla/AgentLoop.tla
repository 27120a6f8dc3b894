----------------------------- MODULE AgentLoop ------------------------------
(***************************************************************************)
(* The loop of one agent run: ask the provider, run the tools it calls,    *)
(* feed the results back, until an answer, the last step or a failure. A   *)
(* step is one request, tried again on transient errors, sent again after  *)
(* a compaction when the context overflowed, and once more when the answer *)
(* was cut for its length. What the run streams is persisted as it comes;  *)
(* the next run of the session builds its history from what is stored.     *)
(***************************************************************************)
EXTENDS Compaction, FiniteSets

CONSTANTS
  Earlier,          \* the conversations a session may have before the first run
  MaxTurns,         \* bound: turns of the session, the earlier ones included
  MaxSteps,         \* max_steps, the agent's step budget
  MaxRetries,       \* RETRY_MAX_RETRIES
  MaxCalls,         \* bound: calls in one response
  MaxDeltas,        \* bound: deltas of text in one run
  PromptSizes, ResultSizes, TokenCounts   \* bounds: estimates and reported usage

VARIABLES
  stored,        \* the session's turns: prompt, parts, content, usage, summary
  sessionUsage,  \* what add_usage has added to the session
  phase,         \* where the run is; "idle" between runs
  step, series, attempt,   \* the step, which series of attempts, how often retried
  msgs,          \* the conversation the loop keeps
  request,       \* the messages of the last request
  text,          \* the deltas of the attempt
  calls, outcome,          \* the calls of the step, and the results so far
  result,        \* what the run returns: the output and the finish reason
  spent,         \* total_usage of the run
  tries,         \* history: requests sent in this step
  replayed,      \* history: an overflow replay dropped part of the conversation
  dropped        \* history: and a summary was stored of what it had left

vars == <<stored, sessionUsage, phase, step, series, attempt, msgs, request, text,
          calls, outcome, result, spent, tries, replayed, dropped>>

Turn == Len(stored)
NoSummary == [covers |-> {}, tail |-> NoId, of |-> FALSE]
NoResult == [output |-> <<>>, finish |-> ""]
Notice == <<0, 0, 0, 0>>
Normal == {"stop", "length", "content_filter", "max_steps"}

NewTurn(size) == [prompt |-> size, parts |-> <<>>, content |-> <<>>, usage |-> 0, last |-> 0,
                  finish |-> "", summary |-> NoSummary]

Parts == [id : Seq(Nat), state : {"running", "completed", "error"}, size : Nat]
EndedTurns ==
  [prompt : Nat, parts : Seq({p \in Parts : p.state # "running"}), content : Seq(Seq(Nat)),
   usage : Nat, last : Nat, finish : Normal \cup {"error", "aborted"},
   summary : [covers : SUBSET Seq(Nat), tail : Seq(Nat), of : BOOLEAN]]

(* Assumed of the constants by the modules that instantiate this one.          *)
LoopAssumption ==
  /\ {MaxTurns, MaxRetries, MaxCalls} \subseteq Nat /\ MaxSteps \in Nat \ {0}
  /\ PromptSizes \cup ResultSizes \cup TokenCounts \subseteq Nat
  /\ Earlier \subseteq Seq(EndedTurns)

-----------------------------------------------------------------------------
(* provider_retry and openrouter: how a failure of a request is classified. *)
(* A failure has a kind and the provider's x-should-retry hint.             *)
Failures == [kind : {"auth", "rate_limit", "timeout", "status_4xx", "status_5xx",
                     "malformed", "quota", "overflow"}, hint : {"none", "true", "false"}]

IsContextOverflow(f) == f.kind = "overflow"

IsRetryable(f) ==
  /\ f.kind \notin {"quota", "overflow", "auth"}
  /\ \/ f.kind = "timeout" \/ f.hint = "true"
     \/ f.hint = "none" /\ f.kind \in {"rate_limit", "status_5xx"}

-----------------------------------------------------------------------------
(* The messages of a turn as history, without its prompt: one assistant     *)
(* message with every settled call of the turn, then the results.           *)
SettledParts(t) == SelectSeq(stored[t].parts, LAMBDA p : p.state \in {"completed", "error"})

AssistantHistory(t) ==
  LET parts == SettledParts(t) IN
  <<Message("assistant", <<t, 0, 0>>, 1, [i \in DOMAIN parts |-> parts[i].id])>>
    \o [i \in DOMAIN parts |-> Message("tool", parts[i].id, parts[i].size, <<>>)]

UserMessage(t) == Message("user", <<t, 0, 0>>, stored[t].prompt, <<>>)

TurnsFrom(t, n) ==
  FlattenSeq([k \in 1..(n - t) |-> <<UserMessage(t + k - 1)>> \o AssistantHistory(t + k - 1)])
    \o <<UserMessage(n)>>

(* _slice_messages_for_compaction: from the start of the kept tail, or from *)
(* the message the latest compaction belongs to.                            *)
Sliced(c, n) ==
  IF stored[c].summary.tail # NoId THEN TurnsFrom(stored[c].summary.tail[1], n)
  ELSE AssistantHistory(c) \o TurnsFrom(c + 1, n)

(* _build_history of turn n. The new prompt is stored already, so it is     *)
(* part of it.                                                              *)
History(n) ==
  LET summarized == {t \in 1..(n - 1) : stored[t].summary.of} IN
  IF summarized = {} THEN TurnsFrom(1, n)
  ELSE LET c == CHOOSE t \in summarized : \A u \in summarized : u <= t
       IN <<Checkpoint(stored[c].summary.covers)>> \o Sliced(c, n)

(* _last_step_request                                                       *)
LastStepRequest(ms, n) ==
  IF n < MaxSteps THEN ms ELSE Append(ms, Message("assistant", NoId, 0, <<>>))

(* _maybe_compact_history: the messages and the turns after it. The run     *)
(* that makes the summary may fail or return nothing.                       *)
Compactions(ms, overflow, turns) ==
  {<<ms, turns>>,
   <<Shortened(ms, overflow),
     [turns EXCEPT ![Turn].summary =
        [covers |-> Told(HeadOf(Conversation(ms))), tail |-> TailStart(Conversation(ms)), of |-> TRUE]]>>}

-----------------------------------------------------------------------------
Init ==
  /\ stored \in Earlier
  /\ sessionUsage = 0 /\ phase = "idle" /\ step = 0 /\ series = "first" /\ attempt = 0
  /\ msgs = <<>> /\ request = <<>> /\ text = <<>> /\ calls = <<>> /\ outcome = <<>>
  /\ result = NoResult /\ spent = 0 /\ tries = 0 /\ replayed = FALSE /\ dropped = FALSE

(* A request is sent: the first of a series of attempts.                    *)
SendsSeries(kind, ms, n) ==
  /\ phase' = "stream" /\ series' = kind /\ attempt' = 0 /\ text' = <<>>
  /\ msgs' = ms /\ request' = LastStepRequest(ms, n)

(* start_run: the messages are stored, the history is built.                *)
Begins ==
  /\ phase = "idle" /\ Turn < MaxTurns
  /\ \E size \in PromptSizes : stored' = Append(stored, NewTurn(size))
  /\ phase' = "step"
  /\ msgs' = <<System>> \o (History(Turn))' \o <<(UserMessage(Turn))'>>
  /\ UNCHANGED <<sessionUsage, step, series, attempt, request, text, calls, outcome, result,
                 spent, tries, replayed>>

(* The step begins; the first compacts when the last run ended full.        *)
StepStarts ==
  /\ phase = "step"
  /\ step' = step + 1 /\ tries' = 1
  /\ LET full == step = 0 /\ Turn > 1 /\ IsOverflow(stored[Turn - 1].last) IN
     \E c \in IF full THEN Compactions(msgs, FALSE, stored) ELSE {<<msgs, stored>>} :
       SendsSeries("first", c[1], step + 1) /\ stored' = c[2]
  /\ UNCHANGED <<sessionUsage, calls, outcome, result, spent, replayed>>

(* A delta of text is persisted as it arrives.                              *)
StreamsText ==
  /\ phase = "stream" /\ text = <<>> /\ Len(stored[Turn].content) < MaxDeltas
  /\ LET token == <<Turn, step, tries, 1>> IN
     /\ text' = Append(text, token)
     /\ stored' = [stored EXCEPT ![Turn].content = Append(@, token)]
  /\ UNCHANGED <<sessionUsage, phase, step, series, attempt, msgs, request, calls, outcome,
                 result, spent, tries, replayed>>

Retries == attempt < MaxRetries

Retried == attempt + 1

(* The history of requests stops counting past what a step may send.        *)
TriesBound == 3 * (MaxRetries + 1)
Tried == Smaller(tries + 1, TriesBound + 1)

(* The attempt fails: it is retried, sent again after a compaction, or the  *)
(* run fails.                                                               *)
Fails ==
  /\ phase = "stream"
  /\ \E f \in Failures :
       \/ /\ IsRetryable(f) /\ Retries
          /\ attempt' = Retried /\ phase' = "backoff"
          /\ UNCHANGED <<stored, series, msgs, request, text, result, tries, replayed>>
       \/ /\ ~(IsRetryable(f) /\ Retries)
          /\ IsContextOverflow(f) /\ series = "first"
          /\ tries' = Tried
          /\ \E c \in Compactions(msgs, TRUE, stored) :
               /\ SendsSeries("overflow", c[1], step)
               /\ stored' = c[2]
               /\ replayed' = (replayed \/ c[1] # msgs)
          /\ UNCHANGED result
       \/ /\ ~(IsRetryable(f) /\ Retries)
          /\ ~(IsContextOverflow(f) /\ series = "first")
          /\ phase' = "failed"
          /\ UNCHANGED <<stored, series, attempt, msgs, request, text, result, tries, replayed>>
  /\ UNCHANGED <<sessionUsage, step, calls, outcome, spent>>

(* The delay is over.                                                       *)
Resumes ==
  /\ phase = "backoff"
  /\ phase' = "stream" /\ text' = <<>> /\ tries' = Tried
  /\ UNCHANGED <<stored, sessionUsage, step, series, attempt, msgs, request, calls, outcome,
                 result, spent, replayed>>

Returns(output, finish) ==
  /\ phase' = "tail" /\ result' = [output |-> output, finish |-> finish]

(* step_finish: the usage of a response is stored with the message.         *)
Accounted(tokens) == [stored EXCEPT ![Turn].usage = @ + tokens, ![Turn].last = tokens]

(* The response was cut for its length: once, the step is repeated after a  *)
(* compaction.                                                              *)
IsCut ==
  /\ phase = "stream" /\ series # "length"
  /\ \E tokens \in TokenCounts, c \in Compactions(msgs, FALSE, stored) :
       /\ spent' = spent + tokens
       /\ stored' = [Accounted(tokens) EXCEPT ![Turn].summary = c[2][Turn].summary]
       /\ IF c[1] = msgs
          THEN /\ Returns(Append(text, Notice), "length")
               /\ UNCHANGED <<series, attempt, text, msgs, request, tries>>
          ELSE /\ SendsSeries("length", c[1], step)
               /\ tries' = Tried /\ UNCHANGED result
  /\ UNCHANGED <<sessionUsage, step, calls, outcome, replayed>>

(* The response ends the run with a notice: filtered, or cut again.         *)
IsStopped ==
  /\ phase = "stream"
  /\ \E tokens \in TokenCounts, finish \in {"content_filter", "length"} :
       /\ finish = "length" => series = "length"
       /\ spent' = spent + tokens /\ stored' = Accounted(tokens)
       /\ Returns(Append(text, Notice), finish)
  /\ UNCHANGED <<sessionUsage, step, series, attempt, msgs, request, text, calls, outcome,
                 tries, replayed>>

CallIds(n) == [i \in 1..n |-> <<Turn, step, i>>]

(* The calls of the last step are rejected: each gets a failed part.        *)
Rejected(turns, n) ==
  [turns EXCEPT ![Turn].parts =
     @ \o [i \in 1..n |-> [id |-> CallIds(n)[i], state |-> "error", size |-> 1]]]

(* A response with no call, or at the last step, is the answer. What a      *)
(* compaction makes of the messages now is of use to the next run only.     *)
Answers ==
  /\ phase = "stream"
  /\ \E tokens \in TokenCounts, n \in 0..MaxCalls :
       /\ step = MaxSteps \/ n = 0
       /\ spent' = spent + tokens
       /\ LET done == Append(msgs, Message("assistant", <<Turn, step, 0>>, 1, <<>>)) IN
          IF step = MaxSteps
          THEN stored' = Rejected(Accounted(tokens), n) /\ Returns(text, "max_steps")
          ELSE /\ \E c \in IF IsOverflow(tokens) THEN Compactions(done, FALSE, Accounted(tokens))
                           ELSE {<<done, Accounted(tokens)>>} : stored' = c[2]
               /\ Returns(text, "stop")
  /\ UNCHANGED <<sessionUsage, step, series, attempt, msgs, request, text, calls, outcome,
                 tries, replayed>>

(* The response calls tools: all of them are dispatched at once.            *)
CallsTools ==
  /\ phase = "stream" /\ step < MaxSteps
  /\ \E tokens \in TokenCounts, n \in 1..MaxCalls :
       /\ spent' = spent + tokens /\ stored' = Accounted(tokens)
       /\ calls' = CallIds(n) /\ outcome' = [i \in 1..n |-> 0]
       /\ msgs' = Append(msgs, Message("assistant", <<Turn, step, 0>>, 1, CallIds(n)))
  /\ phase' = "tools"
  /\ UNCHANGED <<sessionUsage, step, series, attempt, request, text, result, tries, replayed>>

PartOf(c) == {i \in DOMAIN stored[Turn].parts : stored[Turn].parts[i].id = c}

(* A call that was approved starts; a part shows it.                        *)
ToolStarts ==
  /\ phase = "tools"
  /\ \E i \in DOMAIN calls :
       /\ outcome[i] = 0 /\ PartOf(calls[i]) = {}
       /\ stored' = [stored EXCEPT ![Turn].parts =
                       Append(@, [id |-> calls[i], state |-> "running", size |-> 0])]
  /\ UNCHANGED <<sessionUsage, phase, step, series, attempt, msgs, request, text, calls,
                 outcome, result, spent, tries, replayed>>

(* _finish_tool_part: the part of the call, or one made for it.             *)
Finished(parts, c, state, size) ==
  LET part == [id |-> c, state |-> state, size |-> size] IN
  IF PartOf(c) = {} THEN Append(parts, part)
  ELSE [i \in DOMAIN parts |-> IF i \in PartOf(c) THEN part ELSE parts[i]]

(* A call ends, or is refused before it starts.                             *)
ToolEnds ==
  /\ phase = "tools"
  /\ \E i \in DOMAIN calls, size \in ResultSizes, state \in {"completed", "error"} :
       /\ outcome[i] = 0
       /\ PartOf(calls[i]) = {} => state = "error"
       /\ outcome' = [outcome EXCEPT ![i] = size]
       /\ stored' = [stored EXCEPT ![Turn].parts = Finished(@, calls[i], state, size)]
  /\ UNCHANGED <<sessionUsage, phase, step, series, attempt, msgs, request, text, calls,
                 result, spent, tries, replayed>>

(* Mutant: in the order the parts were made.                                *)
ResultsAsFinished ==
  LET own == SelectSeq(stored[Turn].parts, LAMBDA p : p.id \in Range(calls)) IN
  [i \in DOMAIN own |-> Message("tool", own[i].id, own[i].size, <<>>)]

(* The results in call order, whatever order they came in.                  *)
ResultMessages == [i \in DOMAIN calls |-> Message("tool", calls[i], outcome[i], <<>>)]

(* Every call has its outcome; the next step follows.                       *)
ToolsDone ==
  /\ phase = "tools" /\ \A i \in DOMAIN calls : outcome[i] # 0
  /\ LET fed == msgs \o ResultMessages IN
     \E c \in IF IsOverflow(stored[Turn].last) THEN Compactions(fed, FALSE, stored) ELSE {<<fed, stored>>} :
       msgs' = c[1] /\ stored' = c[2]
  /\ phase' = "step" /\ calls' = <<>> /\ outcome' = <<>>
  /\ UNCHANGED <<sessionUsage, step, series, attempt, request, text, result, spent, tries, replayed>>

-----------------------------------------------------------------------------
(* Mutant: the deltas are trusted to have brought everything.               *)
NoRemainder(existing, tail) == IF existing = <<>> THEN tail ELSE <<>>

(* What of the output the stored content lacks: the deltas are there.       *)
Remainder(existing, tail) ==
  IF IsSuffix(tail, existing) THEN <<>>
  ELSE IF IsPrefix(existing, tail) THEN SubSeq(tail, Len(existing) + 1, Len(tail))
  ELSE IF IsPrefix(tail, existing) THEN <<>>
  ELSE tail

PersistsTail ==
  /\ phase = "tail"
  /\ stored' = [stored EXCEPT ![Turn].content = @ \o Remainder(@, result.output)]
  /\ phase' = "account"
  /\ UNCHANGED <<sessionUsage, step, series, attempt, msgs, request, text, calls, outcome,
                 result, spent, tries, replayed>>

AddsUsage ==
  /\ phase = "account"
  /\ sessionUsage' = sessionUsage + spent /\ phase' = "complete"
  /\ UNCHANGED <<stored, step, series, attempt, msgs, request, text, calls, outcome,
                 result, spent, tries, replayed>>

(* What a run that has ended leaves behind.                                 *)
Ended(turns) ==
  /\ stored' = turns /\ phase' = "idle"
  /\ msgs' = <<>> /\ request' = <<>> /\ text' = <<>> /\ calls' = <<>> /\ outcome' = <<>>
  /\ step' = 0 /\ series' = "first" /\ attempt' = 0 /\ tries' = 0 /\ spent' = 0
  /\ result' = NoResult /\ replayed' = FALSE
  /\ UNCHANGED sessionUsage

Completes ==
  /\ phase = "complete"
  /\ Ended([stored EXCEPT ![Turn].finish = result.finish])

(* _fail_open_parts                                                         *)
OpenFailed(parts) ==
  [i \in DOMAIN parts |-> IF parts[i].state = "running"
                          THEN [parts[i] EXCEPT !.state = "error", !.size = 1] ELSE parts[i]]

RunFails ==
  /\ phase = "failed"
  /\ Ended([stored EXCEPT ![Turn].finish = "error", ![Turn].parts = OpenFailed(@)])

(* The run is cancelled where it waits.                                     *)
IsCancelled ==
  /\ phase # "idle"
  /\ Ended([stored EXCEPT ![Turn].finish = "aborted", ![Turn].parts = OpenFailed(@)])

Acts ==
  \/ Begins \/ StepStarts \/ StreamsText \/ Fails \/ Resumes
  \/ IsCut \/ IsStopped \/ Answers \/ CallsTools \/ ToolStarts \/ ToolEnds \/ ToolsDone
  \/ PersistsTail \/ AddsUsage \/ Completes \/ RunFails \/ IsCancelled

(* History: of what a replay dropped, later runs hear nothing when the same *)
(* run makes another summary.                                               *)
Forgets ==
  dropped' = (dropped \/ (replayed /\ stored'[Turn].summary # stored[Turn].summary))

Next == Acts /\ Forgets

Spec == Init /\ [][Next]_vars

-----------------------------------------------------------------------------
(* The variables have their types.                                          *)
TypeOK ==
  /\ \A t \in 1..Turn : /\ Range(stored[t].parts) \subseteq Parts
                        /\ {stored[t].prompt, stored[t].usage, stored[t].last} \subseteq Nat
                        /\ stored[t].finish \in Normal \cup {"", "error", "aborted"}
  /\ phase \in {"idle", "step", "stream", "backoff", "tools", "tail", "account", "complete", "failed"}
  /\ series \in {"first", "overflow", "length"}
  /\ step \in 0..MaxSteps /\ attempt \in 0..MaxRetries
  /\ {spent, tries, sessionUsage} \subseteq Nat

(* Every request has the prompt of the run, whatever was compacted before   *)
(* it (ensure_current_user, apply_overflow_replay).                         *)
RequestHasPrompt == phase = "stream" => HasUser(request, <<Turn, 0, 0>>)

(* A provider refuses a conversation whose calls are not answered: what     *)
(* follows a message with calls is their results, in the order of the calls *)
(* (the tools run concurrently, and a history is put together from parts).  *)
CallsAnswered ==
  phase = "stream" =>
    \A i \in DOMAIN request : \A k \in DOMAIN request[i].calls :
      /\ i + k <= Len(request)
      /\ request[i + k].role = "tool" /\ request[i + k].id = request[i].calls[k]

(* The model was told every prompt of the session, in itself or through a   *)
(* summary made of it: compaction in the run, the checkpoint stored with    *)
(* its message and the slicing of the next run's history agree. An overflow *)
(* replay takes the kept turns from the rest of its run; and when that run  *)
(* makes another summary, from all later runs as well.                      *)
PromptsKept ==
  phase = "stream" /\ ~replayed /\ ~dropped => \A t \in 1..Turn : <<t, 0, 0>> \in Told(request)

(* As the comment of apply_overflow_replay has it, only the turn that       *)
(* overflowed is dropped.                                                   *)
OnlyOverflowingTurnDropped ==
  phase = "stream" => \A t \in 1..Turn : <<t, 0, 0>> \in Told(request)

(* A step sends a bounded number of requests: the retries of three series,  *)
(* whatever mix of transient errors, overflows and cut answers it meets.    *)
AttemptsBounded == tries <= TriesBound

(* A run that completed has the whole answer in the stored message: the     *)
(* tail is cut to what the deltas have not brought.                         *)
AnswerStored == phase \in {"account", "complete"} => IsSuffix(result.output, stored[Turn].content)

(* The comment on the tail: the deltas were appended already, so only what  *)
(* came after them is added, and no text of the answer is there twice.      *)
AnswerOnce ==
  \A t \in 1..Turn : LET c == stored[t].content IN
    \A i, j \in DOMAIN c : i # j => c[i] # c[j]

(* The usage stored with the message, step by step, is the usage the run    *)
(* reports to the session at its end, with every repeated request.          *)
UsageAgrees == phase \in {"tail", "account", "complete"} => stored[Turn].usage = spent

(* However a run ends, no call of a tool is left running in what the user   *)
(* sees.                                                                    *)
PartsSettled ==
  phase = "idle" => \A t \in 1..Turn : \A i \in DOMAIN stored[t].parts :
                      stored[t].parts[i].state # "running"
=============================================================================
