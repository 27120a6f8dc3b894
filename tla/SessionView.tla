----------------------------- MODULE SessionView -----------------------------
(***************************************************************************)
(* What a browser shows of one agent session: the web store               *)
(* (webapp/src/stores/harness.ts, lib/harnessReducer.ts, wired by          *)
(* HarnessChatPanel.vue and ChatSidebar.vue) against the rows that the     *)
(* harness service writes and the two ways they reach the page: events on  *)
(* the socket, in order, each emitted after its row is written, and HTTP   *)
(* replies, each a snapshot of the rows, in no order relative to the       *)
(* events or to each other.                                                *)
(*                                                                         *)
(* The page applies events as increments and snapshots as replacements     *)
(* (merged while it believes the session busy).  Text is a sequence of     *)
(* numbered chunks; a tool has one output.  message.content repeats the    *)
(* text of the parts and is not kept apart; reasoning is treated as text   *)
(* is, todo lists are replaced whole and are left out, and the two         *)
(* queries of a snapshot are read together.                                *)
(***************************************************************************)
EXTENDS Naturals, FiniteSets, SequencesExt

CONSTANTS Prompts, \* ids of the permission and question requests
          Limits   \* bounds: how much may happen; one of these for each behaviour:
                   \*   runs    prompts sent in this session
                   \*   parts   rows and chunks one run writes
                   \*   events  events on their way before the server writes more
                   \*   replies replies on their way before another is served
                   \*   faults  connections lost and pages left

VARIABLES rows,    \* messages with their parts, as stored
          busy,    \* the session row's status is busy
          asks,    \* the status of each request's row
          news,    \* the last answer completed after the last mark_read
          run,     \* progress of the run: "none", "loop", "done", "over"
          owed,    \* the event whose row is written and that is not emitted yet
          idles,   \* ghost: how often "idle" has been emitted
          gates,   \* ghost: how many events of requests have been emitted
          joined,  \* the page's socket is subscribed to the workspace
          events,  \* events on their way to the page
          gets,    \* requests on their way to the server
          replies, \* responses on their way to the page
          shown,   \* messagesBySession[session]
          status,  \* the status of the page's session row, "none" without one
          asked,   \* pendingPermissions, pendingQuestions
          viewing, \* viewingSessionId is this session, the panel listens
          unread,  \* the row's unread mark
          seen,    \* ghost: the number of the last "idle" the page applied
          behind,  \* ghost: something older than that "idle" was applied after it
          told,    \* ghost: how many events of requests have reached the page
          late,    \* ghost: the last snapshot was older than one of these, or one is missed
          faults,
          limits

\* The requests on their way are told apart: a prompt's id is the answer to it.
ViewAssumption == Prompts \cap {"message", "sent", "parts", "sessions", "read"} = {}

serverVars == <<rows, busy, asks, news, run, owed, idles, gates, joined>>
pageVars == <<shown, status, asked, viewing, unread, seen, behind, told, late>>
vars == <<rows, busy, asks, news, run, owed, idles, gates, joined, events, gets, replies,
          shown, status, asked, viewing, unread, seen, behind, told, late, faults, limits>>

Nothing == [type |-> "nothing"]
Part(kind, state, out) == [kind |-> kind, state |-> state, out |-> out]
Message(role, parts) == [role |-> role, done |-> role = "user", parts |-> parts]

Init == /\ rows = <<>> /\ busy = FALSE /\ asks = [q \in Prompts |-> "none"] /\ news = FALSE
        /\ run = "none" /\ owed = Nothing /\ idles = 0 /\ gates = 0 /\ joined = TRUE
        /\ events = <<>> /\ gets = <<>> /\ replies = <<>>
        /\ shown = <<>> /\ status = "none" /\ asked = {} /\ viewing = FALSE
        /\ unread = FALSE /\ seen = 0 /\ behind = FALSE
        /\ told = 0 /\ late = FALSE /\ faults = 0 /\ limits \in Limits

-----------------------------------------------------------------------------
(* The server.                                                             *)

pending == {q \in Prompts : asks[q] = "pending"}
Runs == Cardinality({i \in DOMAIN rows : rows[i].role = "user"})
Written(parts) == FoldLeft(LAMBDA n, p : n + 1 + Len(p.out), 0, parts)

\* emit_to_frontend: to the sockets subscribed to the workspace.
Tells(e) == events' = IF joined THEN Append(events, e) ELSE events

\* send_harness_message: the prompt and an empty answer are stored, the row is
\* busy and the page is told; the reply reads the session again afterwards.
\* A session that is running answers 409, which changes nothing on the page.
TakeMessage ==
    /\ gets # <<>> /\ Head(gets) = "message"
    /\ IF run = "none"
         THEN /\ rows' = rows \o <<Message("user", <<>>), Message("assistant", <<>>)>>
              /\ busy' = TRUE /\ run' = "loop"
              /\ Tells([type |-> "busy"])
              /\ gets' = Append(Tail(gets), "sent")
         ELSE /\ gets' = Tail(gets)
              /\ UNCHANGED <<rows, busy, run, events>>
    /\ UNCHANGED <<asks, news, owed, idles, gates, joined, replies, faults>> /\ UNCHANGED pageVars

\* list_harness_parts, list_harness_sessions, the end of send_harness_message.
Snapshot(kind) ==
    IF kind = "parts" THEN [kind |-> kind, idles |-> idles, msgs |-> rows, pending |-> pending,
                             gates |-> gates]
    ELSE [kind |-> kind, idles |-> IF kind = "sent" THEN Runs - 1 ELSE idles,
          busy |-> busy, unread |-> ~busy /\ news]
Serve ==
    /\ gets # <<>> /\ Head(gets) \in {"parts", "sessions", "sent"}
    /\ Len(replies) < limits.replies
    /\ replies' = Append(replies, Snapshot(Head(gets)))
    /\ gets' = Tail(gets)
    /\ UNCHANGED <<events, faults>> /\ UNCHANGED serverVars /\ UNCHANGED pageVars

\* mark_session_read.
TakeRead ==
    /\ gets # <<>> /\ Head(gets) = "read"
    /\ news' = FALSE /\ gets' = Tail(gets)
    /\ UNCHANGED <<rows, busy, asks, run, owed, idles, gates, joined, events, replies, faults>>
    /\ UNCHANGED pageVars

\* resolve_permission, resolve_question, by this page or another member, and
\* the answers given for them (siblings, abort).  "early" (a ghost): before the
\* request has been announced.
Required(q) == [type |-> "required", q |-> q]
Resolve(q) ==
    /\ q \in pending
    /\ asks' = [asks EXCEPT ![q] = IF owed = Required(q) THEN "early" ELSE "answered"] /\ gates' = gates + 1
    /\ Tells([type |-> "resolved", q |-> q])
    /\ UNCHANGED <<rows, busy, news, run, owed, idles, joined, faults>>
    /\ UNCHANGED pageVars

\* A request that is no longer pending answers 404, which leaves the prompt.
TakeAnswer ==
    /\ gets # <<>> /\ gets' = Tail(gets) /\ Len(replies) < limits.replies
    /\ \/ /\ Head(gets) \in pending /\ Resolve(Head(gets))
          /\ replies' = Append(replies,
                                   [kind |-> "answered", q |-> Head(gets)])
       \/ /\ Head(gets) \in Prompts \ pending
          /\ UNCHANGED <<events, replies, faults>>
          /\ UNCHANGED serverVars /\ UNCHANGED pageVars

OtherAnswers == \E q \in Prompts : Resolve(q) /\ UNCHANGED <<gets, replies>>

\* _persist_runner_event writes a row under the session's lock ...
Writes(parts, event) ==
    /\ run = "loop" /\ owed = Nothing /\ pending = {} /\ Len(events) < limits.events
    /\ Written(Last(rows).parts) < limits.parts
    /\ rows' = [rows EXCEPT ![Len(rows)].parts = parts]
    /\ owed' = event
    /\ UNCHANGED <<busy, asks, news, run, idles, gates, joined, events, gets, replies, faults>>
    /\ UNCHANGED pageVars

\* One text part per run: text_part_id outlives the steps.
TextIn(parts) == SelectInSeq(parts, LAMBDA p : p.kind = "text")
Extended(parts, i, chunk) == [parts EXCEPT ![i].out = Append(@, chunk)]
WriteText ==
    LET parts == Last(rows).parts  chunk == Written(parts) + 1 IN
    Writes(IF TextIn(parts) = 0 THEN Append(parts, Part("text", "running", <<chunk>>))
                                ELSE Extended(parts, TextIn(parts), chunk),
           [type |-> "text", chunk |-> chunk])

ToolIn(parts) == SelectInSeq(parts, LAMBDA p : p.kind = "tool" /\ p.state = "running")
StartTool ==
    /\ ToolIn(Last(rows).parts) = 0
    /\ Writes(Append(Last(rows).parts, Part("tool", "running", <<>>)), [type |-> "started"])

EndTool ==
    LET parts == Last(rows).parts IN
    /\ ToolIn(parts) # 0
    /\ Writes([parts EXCEPT ![ToolIn(parts)] = Part("tool", "completed", <<"output">>)],
              [type |-> "completed"])

FinishStep == Writes(Append(Last(rows).parts, Part("step-finish", "completed", <<>>)),
                     [type |-> "finish"])

\* patch: the delta says no more than that there is a new part to fetch.
WritePatch == Writes(Append(Last(rows).parts, Part("patch", "completed", <<>>)),
                     [type |-> "patch"])

WriteStep == run = "loop" /\ (WriteText \/ StartTool \/ EndTool \/ FinishStep \/ WritePatch)

\* _on_permission, _on_question.
Ask(q) ==
    /\ run = "loop" /\ owed = Nothing /\ pending = {} /\ Len(events) < limits.events
    /\ asks[q] = "none" /\ asks' = [asks EXCEPT ![q] = "pending"]
    /\ owed' = Required(q)
    /\ UNCHANGED <<rows, busy, news, run, idles, gates, joined, events, gets, replies, faults>>
    /\ UNCHANGED pageVars

\* ... and emits afterwards (_emit_frontend).
Emit ==
    /\ owed # Nothing
    /\ Tells(owed) /\ owed' = Nothing
    /\ idles' = idles + (IF owed.type = "idle" THEN 1 ELSE 0)
    /\ gates' = gates + (IF owed.type = "required" THEN 1 ELSE 0)
    /\ run' = IF owed.type = "idle" THEN "none" ELSE run
    /\ UNCHANGED <<rows, busy, asks, news, joined, gets, replies, faults>>
    /\ UNCHANGED pageVars

\* The loop returns, fails or is cancelled: the answer is completed, its open
\* parts are closed; a cancelled run's requests are rejected by abort_run.
Settled(parts) == [i \in DOMAIN parts |->
    IF parts[i].state # "running" THEN parts[i]
    ELSE [parts[i] EXCEPT !.state = IF parts[i].kind = "text" THEN "completed" ELSE "error"]]
Complete ==
    /\ run = "loop" /\ owed = Nothing
    /\ rows' = [rows EXCEPT ![Len(rows)].done = TRUE,
                            ![Len(rows)].parts = Settled(@)]
    /\ run' = "done" /\ news' = TRUE
    /\ UNCHANGED <<busy, asks, owed, idles, gates, joined, events, gets, replies, faults>>
    /\ UNCHANGED pageVars

MarkIdle ==
    /\ run = "done"
    /\ busy' = FALSE /\ run' = "over" /\ owed' = [type |-> "idle"]
    /\ UNCHANGED <<rows, asks, news, idles, gates, joined, events, gets, replies, faults>>
    /\ UNCHANGED pageVars

Server == \/ TakeMessage \/ Serve \/ TakeRead \/ TakeAnswer \/ OtherAnswers
          \/ WriteStep \/ (\E q \in Prompts : Ask(q)) \/ Emit \/ Complete \/ MarkIdle

-----------------------------------------------------------------------------
(* Reducers of the page.                                                   *)

\* ensureAssistantMessage.
IsOpen(msgs) == msgs # <<>> /\ Last(msgs).role = "assistant" /\ ~Last(msgs).done
Ensured(msgs) == IF IsOpen(msgs) THEN msgs ELSE Append(msgs, Message("assistant", <<>>))

\* applyPartDelta, on the parts of the open message.
OpenText(parts) == SelectInSeq(parts, LAMBDA p : p.kind = "text" /\ p.state = "running")
Closed(parts) == [i \in DOMAIN parts |->
    IF parts[i].kind = "text" THEN [parts[i] EXCEPT !.state = "completed"] ELSE parts[i]]
Applied(parts, e) ==
    CASE e.type = "text" ->
           IF OpenText(parts) = 0 THEN Append(parts, Part("text", "running", <<e.chunk>>))
                                  ELSE Extended(parts, OpenText(parts), e.chunk)
      [] e.type = "started" -> Append(parts, Part("tool", "running", <<>>))
      [] e.type = "completed" ->
           IF ToolIn(parts) = 0
             THEN Append(parts, Part("tool", "completed", <<"output">>))
             ELSE [parts EXCEPT ![ToolIn(parts)] = Part("tool", "completed", <<"output">>)]
      [] e.type = "finish" -> Closed(Append(parts, Part("step-finish", "completed", <<>>)))
      [] e.type = "patch" -> parts

\* streamLength: text counts in the parts and in message.content.
StreamLength(parts) ==
    FoldLeft(LAMBDA n, p : n + (IF p.kind = "text" THEN 2 * Len(p.out) ELSE Len(p.out)),
             0, parts)

\* mergeBusyFetchedMessages: the longer stream of the last answer wins.
LastAnswer(msgs) == SelectLastInSeq(msgs, LAMBDA m : m.role = "assistant")
Merged(old, new) ==
    LET o == LastAnswer(old)  n == LastAnswer(new) IN
    IF /\ o # 0 /\ n # 0 /\ ~old[o].done
       /\ StreamLength(old[o].parts) > StreamLength(new[n].parts)
      THEN [new EXCEPT ![n].parts = old[o].parts]
      ELSE new

\* settleOpenStreamParts.
SettledAll(msgs) == [i \in DOMAIN msgs |-> [msgs[i] EXCEPT !.parts = Closed(@)]]

-----------------------------------------------------------------------------
(* The page.                                                               *)

IdlesIn(es) == Cardinality({i \in DOMAIN es : es[i].type = "idle"})
GatesIn(es) == Cardinality({i \in DOMAIN es : es[i].type \in {"required", "resolved"}})
Larger(m, n) == IF m > n THEN m ELSE n

\* The panel mounts and subscribes: fetchSessions, fetchParts, and
\* markSessionRead when the row says idle.  (The ghosts: the page is up to date
\* with this, but where it missed an "idle" its row is still busy and the fetch
\* is merged.)  A user comes back later than what was on its way.
Open ==
    /\ ~viewing /\ viewing' = TRUE
    /\ joined \/ events = <<>>
    /\ gets' = gets \o <<"sessions", "parts">>
                    \o (IF status = "idle" THEN <<"read">> ELSE <<>>)
    /\ unread' = (unread /\ status # "idle")
    /\ joined' = TRUE
    /\ seen' = idles - IdlesIn(events) /\ told' = gates - GatesIn(events)
    /\ behind' = (status = "busy" /\ (behind \/ seen # seen'))
    /\ UNCHANGED <<events, replies, shown, status, asked, late, faults>>
    /\ UNCHANGED <<rows, busy, asks, news, run, owed, idles, gates>>

\* sendMessage: the input is disabled while the row says busy.
Send ==
    /\ viewing /\ status = "idle" /\ Runs < limits.runs
    /\ \A i \in DOMAIN gets : gets[i] \notin {"message", "sent"}
    /\ \A i \in DOMAIN replies : replies[i].kind # "sent"
    /\ gets' = Append(gets, "message")
    /\ UNCHANGED <<events, replies, faults>> /\ UNCHANGED serverVars /\ UNCHANGED pageVars

\* resolvePermission, resolveQuestion.
Answer(q) ==
    /\ viewing /\ q \in asked /\ \A i \in DOMAIN gets : gets[i] # q
    /\ gets' = Append(gets, q)
    /\ UNCHANGED <<events, replies, faults>> /\ UNCHANGED serverVars /\ UNCHANGED pageVars

\* handlePartUpdated; a patch or a compaction fetches the session.
PartUpdated(e) ==
    /\ shown' = LET open == Ensured(shown) IN
                [open EXCEPT ![Len(open)].parts = Applied(@, e)]
    /\ gets' = IF e.type = "patch" THEN Append(gets, "parts") ELSE gets
    /\ UNCHANGED <<status, asked, unread, seen, behind, told, late>>

\* handleSessionStatus, in the sidebar at any time and in the panel, which then
\* fetches; the second call changes nothing more.
StatusChanged(e) ==
    /\ status' = IF status = "none" THEN status ELSE e.type
    /\ unread' = (e.type = "idle" /\ ~viewing /\ status # "none")
    /\ gets' = IF e.type = "idle" /\ viewing THEN gets \o <<"read", "parts">> ELSE gets
    /\ seen' = IF e.type = "idle" THEN Larger(seen, idles - IdlesIn(Tail(events))) ELSE seen
    /\ behind' = IF e.type = "idle" THEN ~viewing ELSE behind
    /\ UNCHANGED <<shown, asked, told, late>>

\* handlePermissionRequired and -Resolved, and the same for questions; the
\* handlers of the panel are gone while it is not mounted.
Gate(e) ==
    /\ asked' = IF ~viewing THEN asked
                ELSE IF e.type = "required" THEN asked \cup {e.q} ELSE asked \ {e.q}
    /\ told' = gates - GatesIn(Tail(events)) /\ late' = (late \/ ~viewing)
    /\ UNCHANGED <<shown, status, unread, seen, behind, gets>>

DeliverEvent ==
    /\ events # <<>> /\ events' = Tail(events)
    /\ LET e == Head(events) IN
       IF e.type \in {"busy", "idle"} THEN StatusChanged(e)
       ELSE IF e.type \in {"required", "resolved"} THEN Gate(e)
       ELSE IF viewing THEN PartUpdated(e)
       ELSE UNCHANGED <<shown, status, asked, unread, seen, behind, told, late, gets>>
    /\ UNCHANGED <<replies, viewing, faults>> /\ UNCHANGED serverVars

\* Mutant: every snapshot is merged, also one of an idle session.
MergesAlways(r) ==
    /\ shown' = Merged(shown, r.msgs)
    /\ asked' = r.pending /\ late' = (r.gates < told \/ ~viewing)
    /\ UNCHANGED <<status, unread, gets>>

\* fetchParts: the messages, and the requests in place of those of the session.
Fetched(r) ==
    /\ shown' = IF status = "busy" THEN Merged(shown, r.msgs) ELSE SettledAll(r.msgs)
    /\ asked' = r.pending /\ late' = (r.gates < told \/ ~viewing)
    /\ UNCHANGED <<status, unread, gets>>

\* fetchSessions, and then setViewingSession: an idle session is marked read.
Listed(r) ==
    /\ status' = (IF r.busy THEN "busy" ELSE "idle")
    /\ unread' = (r.unread /\ ~viewing)
    /\ gets' = IF viewing /\ ~r.busy THEN Append(gets, "read") ELSE gets
    /\ UNCHANGED <<shown, asked, late>>

\* The reply to sendMessage: upsertSession, and the prompt is shown.
Sent(r) ==
    /\ status' = (IF r.busy THEN "busy" ELSE "idle") /\ unread' = r.unread
    /\ shown' = Append(shown, Message("user", <<>>))
    /\ UNCHANGED <<asked, late, gets>>

\* handlePermissionResolved, handleQuestionResolved on the outcome.
Answered(r) == /\ asked' = asked \ {r.q}
               /\ UNCHANGED <<shown, status, unread, gets, late>>

Reply(i) ==
    LET r == replies[i] IN
    /\ replies' = RemoveAt(replies, i)
    /\ \/ r.kind = "parts" /\ Fetched(r)
       \/ r.kind = "sessions" /\ Listed(r)
       \/ r.kind = "sent" /\ Sent(r)
       \/ r.kind = "answered" /\ Answered(r)
    /\ behind' = (behind \/ (r.kind # "answered" /\ r.idles < seen))
    /\ UNCHANGED <<events, viewing, seen, told, faults>> /\ UNCHANGED serverVars

DeliverReply == \E i \in DOMAIN replies : Reply(i)

\* The panel is left, which ends the subscription for the sidebar as well, or
\* the socket is lost with what is on its way; the client connects again,
\* subscribes to what it was subscribed to and fetches nothing.
Leave ==
    /\ viewing /\ faults < limits.faults /\ faults' = faults + 1
    /\ viewing' = FALSE /\ joined' = FALSE /\ late' = TRUE
    /\ UNCHANGED <<events, gets, replies, shown, status, asked, unread, seen, behind, told>>
    /\ UNCHANGED <<rows, busy, asks, news, run, owed, idles, gates>>

Disconnect ==
    /\ faults < limits.faults /\ events # <<>> /\ events' = <<>> /\ faults' = faults + 1
    /\ seen' = idles /\ behind' = TRUE
    /\ told' = gates /\ late' = TRUE
    /\ UNCHANGED <<gets, replies, shown, status, asked, viewing, unread>>
    /\ UNCHANGED serverVars

Page == \/ Open \/ Send \/ (\E q \in Prompts : Answer(q)) \/ DeliverEvent \/ DeliverReply
        \/ Leave \/ Disconnect

Next == (Server \/ Page) /\ UNCHANGED limits
Spec == Init /\ [][Next]_vars

-----------------------------------------------------------------------------
\* The shape of the state; a run is forgotten only when its "idle" is emitted.
TypeOK ==
    /\ \A i \in DOMAIN rows : rows[i].role = (IF i % 2 = 1 THEN "user" ELSE "assistant")
    /\ busy \in BOOLEAN /\ news \in BOOLEAN /\ viewing \in BOOLEAN
    /\ asks \in [Prompts -> {"none", "pending", "answered", "early"}]
    /\ run \in {"none", "loop", "done", "over"} /\ (run = "none" => owed = Nothing)
    /\ status \in {"none", "busy", "idle"} /\ asked \subseteq Prompts
    /\ unread \in BOOLEAN /\ seen \in 0..idles /\ told \in 0..gates
    /\ behind \in BOOLEAN /\ late \in BOOLEAN

Arrived == owed = Nothing /\ events = <<>> /\ gets = <<>> /\ replies = <<>>

\* Whatever order deltas and snapshots came in, and however often a snapshot
\* held chunks that were delivered again, once a run is over and everything has
\* arrived the page shows the stored messages, nothing twice and nothing
\* missing, an idle session and no unread mark: the fetch that follows "idle"
\* replaces what was merged.  It does not hold where a reply that was read
\* before an "idle" is applied after it, or where the "idle" itself is missed.
CatchesUp ==
    Arrived /\ run = "none" /\ viewing /\ ~behind =>
      /\ shown = SettledAll(rows) /\ status = "idle" /\ ~unread

\* The prompts on the page are those that wait for an answer, so no run waits
\* for an answer nobody is asked for, unless the last snapshot was read before
\* an event the page had already applied.  A request that is resolved between
\* its row and its announcement is the other exception: it is announced last.
PromptsCatchUp ==
    Arrived /\ viewing /\ ~late => asked \ {q \in Prompts : asks[q] = "early"} = pending
=============================================================================
