------------------------------- MODULE Terminals ------------------------------
(* The terminals of one workspace. A page asks the backend for a terminal; the*)
(* runner opens a PTY, a task of it reads the PTY, and every report goes to   *)
(* all pages that watch the workspace. A page follows the terminal it heard of*)
(* last, types into it and closes it.                                         *)
EXTENDS Naturals, Sequences

CONSTANTS
  Pages,
  MaxTerminals, \* bound: terminals opened
  MaxChunks,    \* bound: chunks that a shell writes
  MaxKeys,      \* bound: keys typed in a page
  MaxDrops,     \* bound: a page loses its socket
  Threaded      \* whether pty_write is a thread of its own (Docker) or not (QEMU)

(* Assumed of the constants by the modules that instantiate this one.          *)
TerminalAssumption ==
  /\ MaxTerminals \in Nat /\ MaxChunks \in Nat /\ MaxKeys \in Nat /\ MaxDrops \in Nat
  /\ Threaded \in BOOLEAN

VARIABLES
  page,      \* WorkspaceTerminal.vue with its store
  requests,  \* to the runner, in order
  opening,   \* exec_pty calls under way
  ptys,      \* the terminals opened so far
  writes,    \* threads that write a key
  uplink,    \* reports of the runner, in order
  storing,   \* started reports whose task the backend is still completing
  inbox,     \* to each page, in order
  current,   \* _active_terminals[workspace_id]; 0 is none
  drops

vars == <<page, requests, opening, ptys, writes, uplink, storing, inbox, current, drops>>

NewPage ==
  [state |-> "away", on |-> TRUE, term |-> 0, seen |-> 0, torn |-> FALSE, live |-> FALSE, typed |-> 0]

Init ==
  /\ page = [p \in Pages |-> NewPage] /\ requests = <<>> /\ opening = 0 /\ ptys = <<>>
  /\ writes = {} /\ uplink = <<>> /\ storing = {} /\ inbox = [p \in Pages |-> <<>>]
  /\ current = 0 /\ drops = 0

-----------------------------------------------------------------------------
(* The page                                                                   *)
Request(what, t, key) == requests' = Append(requests, [what |-> what, t |-> t, key |-> key])

Asked == Len(ptys) + opening + Len(SelectSeq(requests, LAMBDA r : r.what = "start"))

Connecting(p) == [page[p] EXCEPT !.state = "connecting", !.term = 0]

(* connectTerminal                                                            *)
Connects(p) ==
  /\ page[p].state \in {"away", "idle"} /\ page[p].on /\ Asked < MaxTerminals
  /\ page' = [page EXCEPT ![p] = Connecting(p)] /\ Request("start", 0, <<>>)
  /\ UNCHANGED <<opening, ptys, writes, uplink, storing, inbox, current, drops>>

Types(p) ==
  /\ page[p].term # 0 /\ page[p].on /\ page[p].typed < MaxKeys
  /\ page' = [page EXCEPT ![p].typed = @ + 1]
  /\ Request("input", page[p].term, <<p, page[p].typed + 1>>)
  /\ UNCHANGED <<opening, ptys, writes, uplink, storing, inbox, current, drops>>

(* handleClose and cleanup: a terminal that the page has not heard of yet is  *)
(* not closed. The page listens no more.                                      *)
Closes(p) ==
  /\ page[p].state # "away" /\ page[p].on
  /\ page' = [page EXCEPT ![p] = [NewPage EXCEPT !.typed = page[p].typed]]
  /\ inbox' = [inbox EXCEPT ![p] = <<>>]
  /\ IF page[p].term # 0 THEN Request("close", page[p].term, <<>>) ELSE UNCHANGED requests
  /\ UNCHANGED <<opening, ptys, writes, uplink, storing, current, drops>>

Drops(p) ==
  /\ page[p].state # "away" /\ page[p].on /\ drops < MaxDrops /\ drops' = drops + 1
  /\ page' = [page EXCEPT ![p].on = FALSE] /\ inbox' = [inbox EXCEPT ![p] = <<>>]
  /\ UNCHANGED <<requests, opening, ptys, writes, uplink, storing, current>>

(* onReconnect: a connected page forgets its terminal and asks for another.   *)
Reconnects(p) ==
  /\ ~page[p].on
  /\ IF page[p].state = "connected" /\ Asked < MaxTerminals
     THEN page' = [page EXCEPT ![p] = [Connecting(p) EXCEPT !.on = TRUE]] /\ Request("start", 0, <<>>)
     ELSE /\ page' = [page EXCEPT ![p].on = TRUE,
                        ![p].state = IF @ = "connected" THEN "idle" ELSE @, ![p].term = 0]
          /\ UNCHANGED requests
  /\ UNCHANGED <<opening, ptys, writes, uplink, storing, inbox, current, drops>>

Shown(p, m) ==
  CASE m.what = "started" ->
         [page[p] EXCEPT !.state = "connected", !.term = m.t, !.seen = 0,
                         !.live = ptys[m.t].state = "open"]
    [] m.what = "output" ->
         [page[p] EXCEPT !.torn = @ \/ (page[p].seen # 0 /\ m.n # page[p].seen + 1), !.seen = m.n]
    [] m.what = "closed" -> [page[p] EXCEPT !.state = "idle", !.term = 0]

(* Mutant: the page takes the reports of every terminal of its workspace.     *)
TakesAll(p, m) == TRUE

(* Only the reports of the terminal it follows, and every start.              *)
Takes(p, m) == m.what = "started" \/ m.t = page[p].term

Hears(p) ==
  /\ inbox[p] # <<>> /\ inbox' = [inbox EXCEPT ![p] = Tail(@)]
  /\ LET m == Head(inbox[p]) IN
     page' = IF Takes(p, m) THEN [page EXCEPT ![p] = Shown(p, m)] ELSE page
  /\ UNCHANGED <<requests, opening, ptys, writes, uplink, storing, current, drops>>

-----------------------------------------------------------------------------
(* The runner                                                                 *)
Reports(what, t, n) == uplink' = Append(uplink, [what |-> what, t |-> t, n |-> n])

Starts ==
  /\ requests # <<>> /\ Head(requests).what = "start" /\ requests' = Tail(requests)
  /\ opening' = opening + 1
  /\ UNCHANGED <<page, ptys, writes, uplink, storing, inbox, current, drops>>

(* start_terminal returned: the start is reported and the reader created.     *)
Started ==
  /\ opening > 0 /\ opening' = opening - 1
  /\ ptys' = Append(ptys, [state |-> "open", reader |-> "reading", sent |-> 0, got |-> <<>>])
  /\ Reports("started", Len(ptys) + 1, 0)
  /\ UNCHANGED <<page, requests, writes, storing, inbox, current, drops>>

InThread == Threaded

(* write_terminal: a terminal that is gone is an error in the log.            *)
Inputs ==
  /\ requests # <<>> /\ Head(requests).what = "input" /\ requests' = Tail(requests)
  /\ LET r == Head(requests) IN
     IF ptys[r.t].state # "open" THEN UNCHANGED <<writes, ptys>>
     ELSE IF InThread THEN writes' = writes \cup {[t |-> r.t, key |-> r.key]} /\ UNCHANGED ptys
     ELSE ptys' = [ptys EXCEPT ![r.t].got = Append(@, r.key)] /\ UNCHANGED writes
  /\ UNCHANGED <<page, opening, uplink, storing, inbox, current, drops>>

Writes ==
  \E w \in writes :
    /\ writes' = writes \ {w} /\ ptys' = [ptys EXCEPT ![w.t].got = Append(@, w.key)]
    /\ UNCHANGED <<page, requests, opening, uplink, storing, inbox, current, drops>>

(* read_terminal, one chunk. The chunk is read while the PTY is there.        *)
Reads(t) ==
  /\ ptys[t].state = "open" /\ ptys[t].reader = "reading" /\ ptys[t].sent < MaxChunks
  /\ ptys' = [ptys EXCEPT ![t].sent = @ + 1] /\ Reports("output", t, ptys[t].sent + 1)
  /\ UNCHANGED <<page, requests, opening, writes, storing, inbox, current, drops>>

Exits(t) ==
  /\ ptys[t].state = "open" /\ ptys' = [ptys EXCEPT ![t].state = "exited"]
  /\ UNCHANGED <<page, requests, opening, writes, uplink, storing, inbox, current, drops>>

(* The reader's finally clause: close_terminal, then the report.              *)
ReaderEnds(t) ==
  /\ ptys[t].reader = "reading" /\ ptys[t].state # "open"
  /\ ptys' = [ptys EXCEPT ![t].state = "closed", ![t].reader = "ending"]
  /\ UNCHANGED <<page, requests, opening, writes, uplink, storing, inbox, current, drops>>

EndReport(t) == Reports("closed", t, 0)

ReaderReports(t) ==
  /\ ptys[t].reader \in {"ending", "cancelled"}
  /\ ptys' = [ptys EXCEPT ![t].reader = "done"] /\ EndReport(t)
  /\ UNCHANGED <<page, requests, opening, writes, storing, inbox, current, drops>>

(* terminal:close: a reader in its finally clause is cancelled before its     *)
(* report, one that reads reports the end, too.                               *)
CancelledReader(t) ==
  CASE ptys[t].reader = "reading" -> "cancelled"
    [] ptys[t].reader = "ending" -> "done"
    [] OTHER -> ptys[t].reader

(* Mutant: the reader is cancelled, the PTY is left.                          *)
OnlyReader(t) == [ptys EXCEPT ![t].reader = CancelledReader(t)]

(* Mutant: the order to close is not carried out.                             *)
NotClosed(t) == ptys

ClosedPty(t) == [ptys EXCEPT ![t].reader = CancelledReader(t), ![t].state = "closed"]

Closing ==
  /\ requests # <<>> /\ Head(requests).what = "close" /\ requests' = Tail(requests)
  /\ ptys' = ClosedPty(Head(requests).t) /\ Reports("closed", Head(requests).t, 0)
  /\ UNCHANGED <<page, opening, writes, storing, inbox, current, drops>>

-----------------------------------------------------------------------------
(* The backend                                                                *)
Broadcast(m) ==
  inbox' = [p \in Pages |->
    IF page[p].state # "away" /\ page[p].on THEN Append(inbox[p], m) ELSE inbox[p]]

(* handle_terminal_started awaits the database before it tells the pages; the *)
(* reports that follow do not wait for it.                                    *)
Handled ==
  /\ uplink # <<>> /\ uplink' = Tail(uplink)
  /\ LET m == Head(uplink) IN
     /\ IF m.what = "started" THEN storing' = storing \cup {m} /\ UNCHANGED inbox
        ELSE Broadcast(m) /\ UNCHANGED storing
     /\ current' = IF m.what = "closed" THEN 0 ELSE current
  /\ UNCHANGED <<page, requests, opening, ptys, writes, drops>>

Stored ==
  \E m \in storing :
    /\ storing' = storing \ {m} /\ current' = m.t /\ Broadcast(m)
    /\ UNCHANGED <<page, requests, opening, ptys, writes, uplink, drops>>

-----------------------------------------------------------------------------
Obeys == Starts \/ Inputs \/ Closing
TerminalNext(t) == ReaderEnds(t) \/ ReaderReports(t)

Next ==
  \/ Obeys \/ Started \/ Writes \/ Handled \/ Stored
  \/ \E t \in DOMAIN ptys : TerminalNext(t) \/ Reads(t) \/ Exits(t)
  \/ \E p \in Pages : Connects(p) \/ Types(p) \/ Closes(p) \/ Drops(p) \/ Reconnects(p) \/ Hears(p)

(* Handlers and tasks go on, and a page's socket comes back.                  *)
Fairness ==
  /\ WF_vars(Obeys) /\ WF_vars(Started) /\ WF_vars(Handled) /\ WF_vars(Stored)
  /\ WF_vars(\E t \in DOMAIN ptys : TerminalNext(t))
  /\ \A p \in Pages : WF_vars(Hears(p)) /\ WF_vars(Reconnects(p))

Spec == Init /\ [][Next]_vars
FairSpec == Spec /\ Fairness

-----------------------------------------------------------------------------
Terminal == 1..MaxTerminals

(* The variables have their types, and a terminal whose reader has left is    *)
(* closed.                                                                    *)
TypeOK ==
  /\ \A p \in Pages :
       /\ page[p].state \in {"away", "connecting", "connected", "idle"}
       /\ page[p].term \in 0..Len(ptys) /\ page[p].typed \in 0..MaxKeys
  /\ Asked <= MaxTerminals /\ current \in 0..Len(ptys) /\ drops \in 0..MaxDrops
  /\ \A t \in DOMAIN ptys :
       /\ ptys[t].state \in {"open", "exited", "closed"}
       /\ ptys[t].reader \in {"reading", "ending", "cancelled", "done"}
       /\ ptys[t].reader # "reading" => ptys[t].state = "closed"

(* What a page shows of its terminal has no gap and no line twice, though all *)
(* terminals of the workspace are sent to it, and starts come late.           *)
ShowsInOrder == \A p \in Pages : ~page[p].torn

(* Keys reach a shell in the order in which they were typed, where each write *)
(* is not a thread of its own.                                                *)
KeysInOrder ==
  ~Threaded =>
  \A t \in DOMAIN ptys :
    \A i, j \in DOMAIN ptys[t].got :
      i < j /\ ptys[t].got[i][1] = ptys[t].got[j][1] => ptys[t].got[i][2] < ptys[t].got[j][2]

(* A terminal that ends while a page follows it is shown as ended.            *)
Stale(p, t) == t \in DOMAIN ptys /\ page[p].term = t /\ page[p].live /\ ptys[t].state # "open"
EndIsShown == \A p \in Pages : \A t \in Terminal : Stale(p, t) ~> page[p].term # t

(* A request to close a terminal ends its shell.                              *)
CloseRequested(t) == \E i \in DOMAIN requests : requests[i].what = "close" /\ requests[i].t = t
CloseEnds == \A t \in Terminal : CloseRequested(t) ~> (t \in DOMAIN ptys /\ ptys[t].state = "closed")

(* "The backend-side PTY session is gone after a reconnect, so we start a     *)
(* fresh one": when a page has asked for a fresh one, its old one is closed.  *)
OldOneIsGone ==
  [][\A p \in Pages :
       page[p].state = "connected" /\ page'[p].state = "connecting"
       => ptys[page[p].term].state # "open"]_vars
===============================================================================
