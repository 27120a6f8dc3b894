----------------------------- MODULE MCHarnessRun -----------------------------
(* The runs of a session, the loop of one run, and a page that shows the       *)
(* session. The three modules are about different state: in every behaviour    *)
(* one of them moves.                                                          *)
EXTENDS HarnessRun, Sequences, TLC

CONSTANTS
  ContextLength, MaxOutput, OutputTokenMax, MinPreserve, MaxPreserve,       \* AgentLoop
  Earlier, MaxTurns, MaxSteps, MaxRetries, MaxCalls, MaxDeltas, PromptSizes, ResultSizes,
  TokenCounts,
  Questions, Limits                                                         \* SessionView

VARIABLES
  moves,
  \* AgentLoop
  stored, sessionUsage, phase, step, series, attempt, msgs, request, text, calls, outcome,
  result, spent, tries, replayed, dropped,
  \* SessionView
  rows, busy, asks, news, run, owed, idles, gates, joined, events, gets, replies, shown,
  pageStatus, asked, viewing, unread, pageSeen, behind, told, late, faults,
  limits

loopVars == <<stored, sessionUsage, phase, step, series, attempt, msgs, request, text, calls,
              outcome, result, spent, tries, replayed, dropped>>
pageVars == <<rows, busy, asks, news, run, owed, idles, gates, joined, events, gets, replies,
              shown, pageStatus, asked, viewing, unread, pageSeen, behind, told, late, faults,
              limits>>

(* The page, while a long run asks a question, with a lost connection or a page *)
(* that is left, and with two runs in a row.                                   *)
PageLimits ==
  {[runs |-> 1, parts |-> 2, events |-> 2, replies |-> 1, faults |-> 0],
   [runs |-> 1, parts |-> 1, events |-> 2, replies |-> 1, faults |-> 1],
   [runs |-> 2, parts |-> 0, events |-> 2, replies |-> 2, faults |-> 0]}

(* The turns that precede the run: the second one's summary covers the first   *)
(* and keeps the second as its tail, or there is no summary.                   *)
User(t) == <<t, 0, 0>>
Past(size, t, last, summary) ==
  [prompt |-> size, content |-> <<>>, usage |-> 0, last |-> last, finish |-> "stop",
   parts |-> <<[id |-> <<t, 1, 1>>, state |-> "completed", size |-> 2]>>, summary |-> summary]
NoSummary == [covers |-> {}, tail |-> <<0, 0, 0>>, of |-> FALSE]
Histories ==
  LET first == Past(2, 1, 0, NoSummary) IN
  {<<first, Past(1, 2, 6, [covers |-> {User(1)}, tail |-> User(2), of |-> TRUE])>>,
   <<first, Past(1, 2, 0, NoSummary)>>}

Loop == INSTANCE AgentLoop
View == INSTANCE SessionView WITH Prompts <- Questions, status <- pageStatus, seen <- pageSeen

ASSUME RunAssumption == Loop!LoopAssumption /\ Loop!LimitsAssumption /\ View!ViewAssumption

SumInit ==
  /\ moves \in {"session", "loop", "page"}
  /\ Init /\ Loop!Init /\ View!Init
  /\ moves # "loop" => stored = CHOOSE h \in Earlier : TRUE
  /\ moves # "page" => limits = CHOOSE l \in Limits : TRUE

SumNext ==
  /\ UNCHANGED moves
  /\ \/ moves = "session" /\ Next /\ UNCHANGED <<loopVars, pageVars>>
     \/ moves = "loop" /\ Loop!Next /\ UNCHANGED <<vars, pageVars>>
     \/ moves = "page" /\ View!Next /\ UNCHANGED <<vars, loopVars>>

SumSpec == SumInit /\ [][SumNext]_<<moves, vars, loopVars, pageVars>>

(* The requests that start a run are interchangeable.                          *)
Symmetry == Permutations(Prompts)
-----------------------------------------------------------------------------
(* The properties of the three modules, whose comments say more.                *)

(* The variables have their types.                                             *)
TypesOK ==
  /\ TypeOK
  /\ moves = "loop" => Loop!TypeOK
  /\ moves = "page" => View!TypeOK

(* A request to the model holds the prompt it answers, answers every tool call *)
(* in it once and in order, and tells of the prompts before it: each is in it  *)
(* or in its summary, unless the replay of an overflow dropped it.             *)
RequestsComplete == Loop!RequestHasPrompt /\ Loop!CallsAnswered /\ Loop!PromptsKept

(* What a run leaves adds up: the stored answer is the one returned, no part   *)
(* is left open, the session's usage is the sum of its turns', and no step     *)
(* sent more requests than its retries allow.                                  *)
RunAddsUp ==
  Loop!AnswerStored /\ Loop!PartsSettled /\ Loop!UsageAgrees /\ Loop!AttemptsBounded

(* When all has arrived, the page shows what is stored, and asks what is       *)
(* pending and nothing else.                                                   *)
PageCatchesUp == View!CatchesUp /\ View!PromptsCatchUp
===============================================================================
