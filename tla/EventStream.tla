----------------------------- MODULE EventStream -----------------------------
(***************************************************************************)
(* How the events of one chat session reach its followers: the EventStore  *)
(* of the session, the long-polling endpoint of the Bridge and the poll    *)
(* loop of the floating window (connectPolling, pollOnce), over a network  *)
(* that may lose a request or its answer at any point.                     *)
(*                                                                         *)
(* Event ids count from 0: the event at place i of the log has id i - 1.   *)
(* An answer carries the events after `since`, which is all a client ever  *)
(* gets to see of the log, and the id of the last of them.                 *)
(***************************************************************************)
EXTENDS Naturals, Sequences

CONSTANTS
  Pollers,  \* the windows that follow the session
  MaxEvents \* bound: length of the log

ASSUME MaxEventsAssumption == MaxEvents \in Nat

VARIABLES
  log,        \* EventStore._events: "data", or "closed" for session_closed
  registered, \* the session is in _sessions
  active,     \* state.pollingActive of each window
  pc,         \* where the poll of each window is
  since,      \* its parameter of that name
  last,       \* last_event_id of its answer
  cursor,     \* state.sseLastEventId of each window
  shown       \* the ids of the events each window has handled since it connected, in order

streamVars == <<log, registered, active, pc, since, last, cursor, shown>>

LogKinds == {"data", "closed"}

\* off: no poll loop; timer: the next poll is scheduled; sent: the request is
\* on its way; locked: it waits for the manager's lock; waiting: it waits for a
\* new event; answered: the answer is on its way.
Steps == {"off", "timer", "sent", "locked", "waiting", "answered"}

StreamInit ==
  /\ log = <<>>
  /\ registered = TRUE
  /\ active = [p \in Pollers |-> FALSE]
  /\ pc = [p \in Pollers |-> "off"]
  /\ since = [p \in Pollers |-> 0]
  /\ last = [p \in Pollers |-> 0]
  /\ cursor = [p \in Pollers |-> 0]
  /\ shown = [p \in Pollers |-> <<>>]

-----------------------------------------------------------------------------
(* The Bridge *)

\* _push_event; append wakes everyone who waits for the current event object
\* and puts a new one in its place.
PushEvent(e) ==
  /\ Len(log) < MaxEvents
  /\ registered
  /\ log' = Append(log, e)
  /\ UNCHANGED <<registered, active, pc, since, last, cursor, shown>>

\* The end of _close_session_internal, after its session_closed event.
Drop ==
  /\ registered
  /\ \E i \in 1..Len(log) : log[i] = "closed"
  /\ registered' = FALSE
  /\ UNCHANGED <<log, active, pc, since, last, cursor, shown>>

\* snapshot_since: the ids n + 1 .. Newest(n), none if they are equal.
Newest(n) == IF Len(log) > n + 1 THEN Len(log) - 1 ELSE n

Answer(p, l) ==
  /\ pc' = [pc EXCEPT ![p] = "answered"]
  /\ last' = [last EXCEPT ![p] = l]
  /\ UNCHANGED <<log, registered, active, since, cursor, shown>>

\* session_events_poll: 404 without events, or on to get_events_poll
Arrive(p) ==
  /\ pc[p] = "sent"
  /\ IF registered
     THEN /\ pc' = [pc EXCEPT ![p] = "locked"]
          /\ UNCHANGED <<log, registered, active, since, last, cursor, shown>>
     ELSE Answer(p, since[p])

\* The backlog, if there is any; otherwise wait for the event object.
LookUp(p) ==
  /\ pc[p] = "locked"
  /\ IF registered /\ Newest(since[p]) = since[p]
     THEN /\ pc' = [pc EXCEPT ![p] = "waiting"]
          /\ UNCHANGED <<log, registered, active, since, last, cursor, shown>>
     ELSE Answer(p, IF registered THEN Newest(since[p]) ELSE since[p])

\* A new event, or max_wait has passed.
WakeUp(p) ==
  /\ pc[p] = "waiting"
  /\ Answer(p, Newest(since[p]))

-----------------------------------------------------------------------------
(* The window *)

\* A connection starts at the beginning of the log.  One that follows another here waits
\* for the old loop to end; those that do not are in FloatingWindow.
ConnectPolling(p) ==
  /\ ~active[p]
  /\ pc[p] = "off"
  /\ active' = [active EXCEPT ![p] = TRUE]
  /\ pc' = [pc EXCEPT ![p] = "timer"]
  /\ cursor' = [cursor EXCEPT ![p] = 0]
  /\ shown' = [shown EXCEPT ![p] = <<>>]
  /\ UNCHANGED <<log, registered, since, last>>

\* abort() of the listener: a stop, a switch, a reset.  An answer on its way is handled
\* nevertheless, and the loop ends after it.
StopPolling(p) ==
  /\ active[p]
  /\ active' = [active EXCEPT ![p] = FALSE]
  /\ UNCHANGED <<log, registered, pc, since, last, cursor, shown>>

\* pollOnce up to its await
Poll(p) ==
  /\ pc[p] = "timer"
  /\ pc' = [pc EXCEPT ![p] = IF active[p] THEN "sent" ELSE "off"]
  /\ since' = [since EXCEPT ![p] = cursor[p]]
  /\ UNCHANGED <<log, registered, active, last, cursor, shown>>

GiveUp(p) == pc' = [pc EXCEPT ![p] = "off"] \* faulty: the loop ends on an error
Retry(p) == pc' = [pc EXCEPT ![p] = IF active[p] THEN "timer" ELSE "off"]

InFlight == {"sent", "locked", "waiting", "answered"}

\* The request or its answer is lost, or the request times out.
Fail(p) ==
  /\ pc[p] \in InFlight
  /\ Retry(p)
  /\ UNCHANGED <<log, registered, active, since, last, cursor, shown>>

\* The events with the ids a + 1 .. b, in this order.
Ids(a, b) == [i \in 1..(b - a) |-> a + i]

\* One of them ended the session.
SawClosed(p) == \E i \in (since[p] + 1)..last[p] : log[i + 1] = "closed"

FirstOnly(p) == IF last[p] > cursor[p] THEN cursor[p] + 1 ELSE cursor[p] \* faulty
Advanced(p) == IF last[p] > cursor[p] THEN last[p] ELSE cursor[p]

\* The rest of pollOnce: handleSSEEvent for every event of the answer; session_closed
\* stops the polling.
Handle(p) ==
  /\ pc[p] = "answered"
  /\ shown' = [shown EXCEPT ![p] = @ \o Ids(since[p], last[p])]
  /\ cursor' = [cursor EXCEPT ![p] = Advanced(p)]
  /\ active' = [active EXCEPT ![p] = @ /\ ~SawClosed(p)]
  /\ pc' = [pc EXCEPT ![p] = IF active'[p] THEN "timer" ELSE "off"]
  /\ UNCHANGED <<log, registered, since, last>>

-----------------------------------------------------------------------------
StreamNext ==
  \/ \E e \in LogKinds : PushEvent(e)
  \/ Drop
  \/ \E p \in Pollers :
       \/ Arrive(p) \/ LookUp(p) \/ WakeUp(p)
       \/ ConnectPolling(p) \/ StopPolling(p) \/ Poll(p) \/ Fail(p) \/ Handle(p)

StreamSpec == StreamInit /\ [][StreamNext]_streamVars

(* The Bridge and the browser go on with what they started, waits end after  *)
(* max_wait, and an answer gets through if it is asked for often enough.     *)
Fairness ==
  \A p \in Pollers :
    /\ WF_streamVars(Poll(p))
    /\ SF_streamVars(Arrive(p))
    /\ SF_streamVars(LookUp(p))
    /\ SF_streamVars(WakeUp(p))
    /\ SF_streamVars(Handle(p))

FairSpec == StreamSpec /\ Fairness

-----------------------------------------------------------------------------
(* Properties *)

\* What the variables hold.
StreamTypeOK ==
  /\ log \in Seq(LogKinds)
  /\ registered \in BOOLEAN
  /\ active \in [Pollers -> BOOLEAN]
  /\ pc \in [Pollers -> Steps]
  /\ since \in [Pollers -> Nat]
  /\ last \in [Pollers -> Nat]
  /\ cursor \in [Pollers -> Nat]
  /\ shown \in [Pollers -> Seq(Nat)]

\* From one connection to the next a window handles the events of its session in
\* order, every one once and none twice, although polls and answers get lost, several
\* events arrive with one answer, others are appended while it is on its way, and it
\* comes after a stop (the event with id 0 excepted, which no window asks for:
\* since = 0 is the beginning).
InOrderOnce == \A p \in Pollers : shown[p] = Ids(0, cursor[p])

\* A window never waits beyond the end of the log: its cursor is the id of an
\* event that exists, so that the next one appended is after it.
CursorInLog == \A p \in Pollers : cursor[p] = 0 \/ cursor[p] < Len(log)

\* The answer to a poll under way starts right after the window's cursor.
AnswerFits ==
  \A p \in Pollers :
    /\ pc[p] \in InFlight => since[p] = cursor[p]
    /\ pc[p] = "answered" => last[p] = since[p] \/ (last[p] > since[p] /\ last[p] < Len(log))

\* The inductive invariant.
StreamInv == StreamTypeOK /\ InOrderOnce /\ CursorInLog /\ AnswerFits

\* An event reaches every window that polls, unless the user or session_closed stops
\* the polling, or the session is removed first; after a new connection it comes again.
EventsArrive ==
  \A p \in Pollers, k \in 1..MaxEvents :
    active[p] /\ k < Len(log) ~> cursor[p] >= k \/ ~active[p] \/ ~registered
=============================================================================
