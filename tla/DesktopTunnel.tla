----------------------------- MODULE DesktopTunnel ----------------------------
(* The browser's view of a desktop: the backend has a page's websocket, the   *)
(* runner has a websocket to the desktop, and the frames go between them over *)
(* the runner's connection. Both sides and the connection may end first.      *)
EXTENDS Naturals, Sequences

CONSTANTS
  Tunnels,    \* pages, each with its tunnel
  MaxFrames,  \* bound: frames a desktop sends through a tunnel
  MaxFaults   \* bound: timeouts of the opening call, lost connections

(* Assumed of the constants by the modules that instantiate this one.          *)
TunnelAssumption == MaxFrames \in Nat /\ MaxFaults \in Nat

VARIABLES
  proxy,     \* _proxy_websocket of each page, its user, what was shown
  queue,     \* the queue registered for it
  socket,    \* the runner's websocket to the desktop
  sent,      \* frames the desktop sent
  orders,    \* to the runner, in order
  replies,   \* from the runner, in order
  session,   \* the number of the runner's connection; 0 is offline
  nextSession,
  breaks

vars == <<proxy, queue, socket, sent, orders, replies, session, nextSession, breaks>>

Init ==
  /\ proxy = [t \in Tunnels |->
       [pc |-> "new", user |-> "there", shown |-> 0, torn |-> FALSE, session |-> 0]]
  /\ queue = [t \in Tunnels |-> <<>>] /\ socket = [t \in Tunnels |-> "none"]
  /\ sent = [t \in Tunnels |-> 0] /\ orders = <<>> /\ replies = <<>>
  /\ session = 1 /\ nextSession = 2 /\ breaks = 0

-----------------------------------------------------------------------------
Breaks == breaks < MaxFaults /\ breaks' = breaks + 1

(* An order goes to the connection that the page found when it was opened.    *)
Orders(t, what, s) ==
  orders' = IF session = s /\ session # 0 THEN Append(orders, [what |-> what, t |-> t]) ELSE orders

Replies(t, what, n) ==
  replies' = IF session # 0 THEN Append(replies, [what |-> what, t |-> t, n |-> n]) ELSE replies

Registered(t) == proxy[t].pc \in {"asking", "looping"}

(* The queue goes with the page.                                              *)
PageEnds(t, how) ==
  /\ proxy' = [proxy EXCEPT ![t].pc = how] /\ queue' = [queue EXCEPT ![t] = <<>>]

Asks(t) ==
  /\ proxy[t].pc = "new" /\ session # 0
  /\ proxy' = [proxy EXCEPT ![t].pc = "asking", ![t].session = session]
  /\ Orders(t, "open", session)
  /\ UNCHANGED <<queue, socket, sent, replies, session, nextSession, breaks>>

(* The call ends without an answer: after an error of the runner's handler,   *)
(* which sends none, after the connection was lost, or because it takes long. *)
Unanswered(t) ==
  /\ proxy[t].pc = "asking"
  /\ IF socket[t] = "refused" \/ session # proxy[t].session THEN UNCHANGED breaks ELSE Breaks
  /\ PageEnds(t, "failed")
  /\ UNCHANGED <<socket, sent, orders, replies, session, nextSession>>

Leaves(t) ==
  /\ proxy[t].pc \in {"asking", "looping"} /\ proxy[t].user = "there"
  /\ proxy' = [proxy EXCEPT ![t].user = "left"]
  /\ UNCHANGED <<queue, socket, sent, orders, replies, session, nextSession, breaks>>

(* client_to_upstream: the page's disconnect is sent on.                      *)
SeesLeave(t) ==
  /\ proxy[t].pc = "looping" /\ proxy[t].user = "left"
  /\ PageEnds(t, "left") /\ Orders(t, "close", proxy[t].session)
  /\ UNCHANGED <<socket, sent, replies, session, nextSession, breaks>>

(* upstream_to_client. Sending to a user who has left may raise: the loop     *)
(* ends then, and the other direction is cancelled before it sees the leave.  *)
ShowsFrame(t) ==
  /\ proxy[t].pc = "looping" /\ queue[t] # <<>> /\ Head(queue[t]) > 0
  /\ IF proxy[t].user = "there"
     THEN /\ proxy' = [proxy EXCEPT ![t].shown = Head(queue[t]),
                                    ![t].torn = @ \/ Head(queue[t]) # proxy[t].shown + 1]
          /\ queue' = [queue EXCEPT ![t] = Tail(@)]
     ELSE \/ queue' = [queue EXCEPT ![t] = Tail(@)] /\ UNCHANGED proxy
          \/ PageEnds(t, "failed")
  /\ UNCHANGED <<socket, sent, orders, replies, session, nextSession, breaks>>

ShowsEnd(t) ==
  /\ proxy[t].pc = "looping" /\ queue[t] # <<>> /\ Head(queue[t]) = 0
  /\ PageEnds(t, "ended")
  /\ UNCHANGED <<socket, sent, orders, replies, session, nextSession, breaks>>

-----------------------------------------------------------------------------
(* What the backend does with the runner's replies. The end is queued as 0.   *)
Queued(t, n) == [queue EXCEPT ![t] = Append(@, n)]

Delivered(t, n) == Queued(t, n)

Handled ==
  /\ replies # <<>> /\ replies' = Tail(replies)
  /\ LET r == Head(replies) IN
     \/ /\ r.what = "opened" /\ UNCHANGED queue
        /\ IF proxy[r.t].pc = "asking"
           THEN proxy' = [proxy EXCEPT ![r.t].pc = "looping"] ELSE UNCHANGED proxy
     \/ /\ r.what \in {"frame", "closed"} /\ UNCHANGED proxy
        /\ IF Registered(r.t) THEN queue' = Delivered(r.t, r.n) ELSE UNCHANGED queue
  /\ UNCHANGED <<socket, sent, orders, session, nextSession, breaks>>

(* Accepting the page of a user who has left may raise as well.               *)
AcceptFails ==
  /\ replies # <<>> /\ replies' = Tail(replies)
  /\ LET t == Head(replies).t IN
     /\ Head(replies).what = "opened" /\ proxy[t].pc = "asking" /\ proxy[t].user = "left"
     /\ PageEnds(t, "failed")
  /\ UNCHANGED <<socket, sent, orders, session, nextSession, breaks>>

-----------------------------------------------------------------------------
(* The runner. _close_desktop_proxy_tunnel closes the websocket of a tunnel   *)
(* that it finds; the reader then ends and finalizes.                         *)
Closed(t) == IF socket[t] = "open" THEN "closing" ELSE socket[t]

OnClose(t) == Closed(t)

Obeys ==
  /\ orders # <<>> /\ orders' = Tail(orders)
  /\ LET o == Head(orders) IN
     socket' = [socket EXCEPT ![o.t] = IF o.what = "open" THEN "connecting" ELSE OnClose(o.t)]
  /\ UNCHANGED <<proxy, queue, sent, replies, session, nextSession, breaks>>

(* The answer of a call is dropped when its connection is not there any more. *)
Connects(t) ==
  /\ socket[t] = "connecting" /\ socket' = [socket EXCEPT ![t] = "open"]
  /\ IF session = proxy[t].session THEN Replies(t, "opened", 0) ELSE UNCHANGED replies
  /\ UNCHANGED <<proxy, queue, sent, orders, session, nextSession, breaks>>

Refuses(t) ==
  /\ socket[t] = "connecting" /\ socket' = [socket EXCEPT ![t] = "refused"]
  /\ UNCHANGED <<proxy, queue, sent, orders, replies, session, nextSession, breaks>>

(* _desktop_proxy_reader: without a connection the emit raises.               *)
Reads(t) ==
  /\ socket[t] = "open" /\ sent[t] < MaxFrames /\ sent' = [sent EXCEPT ![t] = @ + 1]
  /\ Replies(t, "frame", sent[t] + 1)
  /\ socket' = IF session # 0 THEN socket ELSE [socket EXCEPT ![t] = "closing"]
  /\ UNCHANGED <<proxy, queue, orders, session, nextSession, breaks>>

DesktopCloses(t) ==
  /\ socket[t] = "open" /\ socket' = [socket EXCEPT ![t] = "closing"]
  /\ UNCHANGED <<proxy, queue, sent, orders, replies, session, nextSession, breaks>>

ReportsEnd(t) == Replies(t, "closed", 0)

Finalizes(t) ==
  /\ socket[t] = "closing" /\ socket' = [socket EXCEPT ![t] = "ended"]
  /\ ReportsEnd(t)
  /\ UNCHANGED <<proxy, queue, sent, orders, session, nextSession, breaks>>

Disconnects ==
  /\ session # 0 /\ Breaks /\ session' = 0 /\ orders' = <<>> /\ replies' = <<>>
  /\ socket' = [t \in Tunnels |-> Closed(t)]
  /\ UNCHANGED <<proxy, queue, sent, nextSession>>

Reconnects ==
  /\ session = 0 /\ session' = nextSession /\ nextSession' = nextSession + 1
  /\ UNCHANGED <<proxy, queue, socket, sent, orders, replies, breaks>>

-----------------------------------------------------------------------------
PageNext(t) == SeesLeave(t) \/ ShowsFrame(t) \/ ShowsEnd(t)
RunnerNext(t) == Connects(t) \/ Finalizes(t)
Exchange == Handled \/ Obeys

Next ==
  \/ Exchange \/ AcceptFails \/ Disconnects \/ Reconnects
  \/ \E t \in Tunnels :
       \/ PageNext(t) \/ RunnerNext(t) \/ Refuses(t)
       \/ Asks(t) \/ Unanswered(t) \/ Leaves(t) \/ Reads(t) \/ DesktopCloses(t)

(* The loops and handlers go on; nobody has to leave or to close anything.    *)
Fairness ==
  /\ WF_vars(Handled) /\ WF_vars(Obeys)
  /\ \A t \in Tunnels : WF_vars(PageNext(t)) /\ WF_vars(RunnerNext(t))

Spec == Init /\ [][Next]_vars
FairSpec == Spec /\ Fairness

-----------------------------------------------------------------------------
(* The variables have their types.                                            *)
TypeOK ==
  /\ \A t \in Tunnels :
       /\ proxy[t].pc \in {"new", "asking", "looping", "left", "ended", "failed"}
       /\ proxy[t].user \in {"there", "left"} /\ proxy[t].shown \in 0..MaxFrames
       /\ socket[t] \in {"none", "connecting", "open", "closing", "ended", "refused"}
       /\ queue[t] \in Seq(0..MaxFrames) /\ sent[t] \in 0..MaxFrames
  /\ session < nextSession /\ breaks \in 0..MaxFaults

(* A page shows what the desktop sent, in its order and without a gap, also   *)
(* over a lost connection; and a tunnel that ended while its connection held  *)
(* has shown all of it.                                                       *)
StreamWhole ==
  \A t \in Tunnels :
    /\ ~proxy[t].torn
    /\ proxy[t].pc = "ended" /\ proxy[t].user = "there" /\ proxy[t].session = session
       => proxy[t].shown = sent[t]

(* The end of the desktop's side reaches a page whose connection is still     *)
(* there: it does not show a frozen picture.                                  *)
Frozen(t) == proxy[t].pc = "looping" /\ socket[t] = "ended" /\ proxy[t].session = session
EndReachesPage == \A t \in Tunnels : Frozen(t) ~> ~Frozen(t)

(* A page that was seen to leave takes the runner's websocket with it, whether*)
(* or not the connection is lost meanwhile.                                   *)
LeaveEndsTunnel ==
  \A t \in Tunnels : proxy[t].pc = "left" ~> socket[t] \notin {"connecting", "open"}
===============================================================================
