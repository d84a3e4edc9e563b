---------------------------- MODULE FloatingWindow ----------------------------
(***************************************************************************)
(* The floating window of the userscript as a client of the Bridge: one    *)
(* user who sends, stops, resets, switches, creates and deletes sessions   *)
(* while requests are under way, and the poll loops that result.           *)
(*                                                                         *)
(* JavaScript runs a handler without interruption up to its next await, so *)
(* a handler that was started is a request under way (jobs) or its answer; *)
(* a poll loop is a timer, a request or its answer (loops).  Nothing in    *)
(* the code ends a request that is under way: abort() clears a flag.       *)
(*                                                                         *)
(* Of the Bridge, a session is the log of its events, as in EventStream.   *)
(***************************************************************************)
EXTENDS Naturals, Sequences

CONSTANTS
  Sessions, \* session ids
  None,     \* no session
  Jobs,     \* bound: handlers under way at a time
  Loops,    \* bound: poll loops at a time
  MaxEvents,\* bound: length of a log
  Acts      \* what user and Bridge do in this instance

Ops   == {"send", "reset", "new", "delete", "open"}
AllActs == Ops \cup {"stop", "switch", "close"}

ASSUME WindowAssumption ==
  /\ None \notin Sessions
  /\ MaxEvents \in Nat
  /\ Acts \subseteq AllActs

VARIABLES
  log,           \* the events of every session; "closed" is session_closed
  live,          \* the sessions in _sessions
  running,       \* the sessions in which Claude works on a message
  sessionId,     \* state.sessionId
  lastEventId,   \* state.sseLastEventId
  pollingActive, \* state.pollingActive
  sseRequest,    \* state.sseRequest is set
  isSending,     \* state.isSending
  jobs,          \* the handlers under way
  loops          \* the poll loops

bridge == <<log, live, running>>
window == <<sessionId, lastEventId, pollingActive, sseRequest, isSending>>
vars == <<bridge, window, jobs, loops>>

Kinds == {"data", "result", "closed"} \* result: or error

JobType == [op : Ops \cup {"none"}, at : {"free", "asked", "ok", "failed"},
            session : Sessions \cup {None}]
LoopType == [at : {"ended", "timer", "asked", "told"},
             session : Sessions \cup {None}, since : Nat, last : Nat]

Free == [op |-> "none", at |-> "free", session |-> None]
Ended == [at |-> "ended", session |-> None, since |-> 0, last |-> 0]

\* The window has been opened and has its session.
Init ==
  /\ log = [s \in Sessions |-> <<>>]
  /\ sessionId \in Sessions
  /\ live = {sessionId}
  /\ running = {}
  /\ lastEventId = 0
  /\ pollingActive = FALSE
  /\ sseRequest = FALSE
  /\ isSending = FALSE
  /\ jobs = [j \in Jobs |-> Free]
  /\ loops = [l \in Loops |-> Ended]

-----------------------------------------------------------------------------
(* The Bridge *)

\* A session nobody created yet.
Unborn(s) == s \notin live /\ log[s] = <<>>

Open(s) == s \in live /\ \A i \in 1..Len(log[s]) : log[s][i] # "closed"

Push(s, e) == log' = [log EXCEPT ![s] = Append(@, e)]

\* Claude works on a message; an event of another kind precedes its result.
Emit(s, e) ==
  /\ s \in running
  /\ e = "data" => Len(log[s]) + 2 < MaxEvents
  /\ e = "result" => log[s] # <<>>
  /\ Push(s, e)
  /\ running' = IF e = "data" THEN running ELSE running \ {s}
  /\ UNCHANGED <<live, window, jobs, loops>>

\* The session ends: Claude exits, and the session stays registered; or the
\* clean-up or another window closes it.
Closed(s) ==
  /\ log' = [log EXCEPT ![s] = IF s \in live THEN Append(@, "closed") ELSE @]
  /\ running' = running \ {s}

End(s) ==
  /\ "close" \in Acts
  /\ Open(s)
  /\ Closed(s)
  /\ live' \in {live, live \ {s}}
  /\ UNCHANGED <<window, jobs, loops>>

\* snapshot_since, and last_event_id of the answer
Newest(s, n) == IF s \in live /\ Len(log[s]) > n + 1 THEN Len(log[s]) - 1 ELSE n

\* The request of a handler arrives.  A send that passed its checks before the
\* session ended is accepted all the same.  A reset or an opening that fails in
\* the Bridge is answered without a session id, and nobody looks at the status.
Serve(j) ==
  LET s == jobs[j].session
      Answer(at, t) == jobs' = [jobs EXCEPT ![j].at = at, ![j].session = t]
  IN
  /\ jobs[j].at = "asked"
  /\ \/ /\ jobs[j].op = "send"
        /\ \/ Open(s) /\ Len(log[s]) + 2 < MaxEvents /\ running' = running \cup {s}
           \/ ~Open(s) /\ UNCHANGED running
        /\ Answer("ok", s)
        /\ UNCHANGED <<log, live>>
     \/ /\ jobs[j].op = "reset"
        /\ \E t \in Sessions \cup {None} :
             /\ t # None => Unborn(t) /\ t # s
             /\ Answer("ok", t)
             /\ Closed(s)
             /\ live' = (live \ {s}) \cup ({t} \ {None})
     \/ /\ jobs[j].op = "delete"
        /\ Closed(s)
        /\ live' = live \ {s}
        /\ Answer("ok", s)
     \/ /\ jobs[j].op = "new"
        /\ \E t \in Sessions : Unborn(t) /\ Answer("ok", t) /\ live' = live \cup {t}
        /\ UNCHANGED <<log, running>>
     \/ /\ jobs[j].op = "open"
        /\ \E t \in Sessions \cup {None} :
             /\ t # None => Unborn(t) \/ Open(t)
             /\ Answer("ok", t)
             /\ live' = live \cup ({t} \ {None})
        /\ UNCHANGED <<log, running>>
  /\ UNCHANGED <<window, loops>>

\* The request is refused, as a send is to a session that is gone or closed, or
\* it or its answer is lost; or it was a local command, which ends the same way.
Refuse(j) ==
  /\ jobs[j].at \in {"asked", "ok"}
  /\ jobs' = [jobs EXCEPT ![j].at = "failed"]
  /\ UNCHANGED <<bridge, window, loops>>

-----------------------------------------------------------------------------
(* The user *)

Start(j, op, s) ==
  /\ jobs[j].at = "free"
  /\ op \in Acts
  /\ jobs' = [jobs EXCEPT ![j] = [op |-> op, at |-> "asked", session |-> s]]

\* sendMessage and the local command /reset; while isSending, Enter stops.
Enter(j, op) ==
  /\ ~isSending
  /\ sessionId # None
  /\ Start(j, op, sessionId)
  /\ isSending' = TRUE
  /\ UNCHANGED <<bridge, sessionId, lastEventId, pollingActive, sseRequest, loops>>

\* if (state.sseRequest) abort(); state.sseRequest = null
ForgetOnly == sseRequest' = FALSE /\ UNCHANGED pollingActive \* faulty: does not abort
Abort ==
  /\ pollingActive' = (pollingActive /\ ~sseRequest)
  /\ sseRequest' = FALSE

NotSending == isSending' = FALSE

\* stopCurrentRun
Stop ==
  /\ "stop" \in Acts
  /\ isSending
  /\ pollingActive' = FALSE
  /\ sseRequest' = FALSE
  /\ NotSending
  /\ UNCHANGED <<bridge, sessionId, lastEventId, jobs, loops>>

SwitchTo(s) ==
  IF s = sessionId THEN UNCHANGED window
  ELSE /\ Abort
       /\ NotSending
       /\ sessionId' = s
       /\ UNCHANGED lastEventId

\* The list may be out of date.
Switch(s) ==
  /\ "switch" \in Acts
  /\ ~Unborn(s)
  /\ s # sessionId
  /\ SwitchTo(s)
  /\ UNCHANGED <<bridge, jobs, loops>>

New(j) == Start(j, "new", None) /\ UNCHANGED <<bridge, window, loops>>

Delete(j, s) == ~Unborn(s) /\ Start(j, "delete", s) /\ UNCHANGED <<bridge, window, loops>>

\* The panel is opened without a session: initSession.
OpenPanel(j) == sessionId = None /\ Start(j, "open", None) /\ UNCHANGED <<bridge, window, loops>>

-----------------------------------------------------------------------------
(* The handlers, after their await *)

Finish(j) == jobs' = [jobs EXCEPT ![j] = Free]

\* connectPolling, with the first pollOnce
Connect ==
  IF pollingActive \/ sseRequest THEN UNCHANGED <<lastEventId, pollingActive, sseRequest, loops>>
  ELSE /\ lastEventId' = 0
       /\ sseRequest' = TRUE
       /\ IF sessionId = None THEN pollingActive' = FALSE /\ UNCHANGED loops
          ELSE \E l \in Loops :
                 /\ loops[l].at = "ended"
                 /\ pollingActive' = TRUE
                 /\ loops' = [loops EXCEPT ![l] =
                      [at |-> "asked", session |-> sessionId, since |-> 0, last |-> 0]]

Answered(j, op, at) == jobs[j].op = op /\ jobs[j].at = at /\ Finish(j)

\* A refused send or reset ends in setSending(false); a delete that was
\* refused is reported only.
Failed(j) ==
  /\ \E op \in Ops : Answered(j, op, "failed")
  /\ isSending' = IF jobs[j].op \in {"send", "reset"} THEN FALSE ELSE isSending
  /\ UNCHANGED <<bridge, sessionId, lastEventId, pollingActive, sseRequest, loops>>

Sent(j) ==
  /\ Answered(j, "send", "ok")
  /\ Connect
  /\ UNCHANGED <<bridge, sessionId, isSending>>

WasReset(j) ==
  /\ Answered(j, "reset", "ok")
  /\ sessionId' = jobs[j].session
  /\ NotSending
  /\ UNCHANGED <<bridge, lastEventId, pollingActive, sseRequest, loops>>

Created(j) ==
  /\ Answered(j, "new", "ok")
  /\ SwitchTo(jobs[j].session)
  /\ UNCHANGED <<bridge, loops>>

Opened(j) ==
  /\ Answered(j, "open", "ok")
  /\ sessionId' = jobs[j].session
  /\ UNCHANGED <<bridge, lastEventId, pollingActive, sseRequest, isSending, loops>>

\* The window leaves a session that it deleted, for another one it knows or for
\* a new one.
Deleted(j) ==
  LET s == jobs[j].session IN
  /\ jobs[j].op = "delete"
  /\ jobs[j].at = "ok"
  /\ IF s # sessionId THEN Finish(j) /\ UNCHANGED window
     ELSE /\ Abort
          /\ NotSending
          /\ UNCHANGED lastEventId
          /\ \/ \E t \in Sessions \ {s} : ~Unborn(t) /\ sessionId' = t /\ Finish(j)
             \/ /\ sessionId' = None
                /\ jobs' = [jobs EXCEPT ![j] = [op |-> "open", at |-> "asked", session |-> None]]
  /\ UNCHANGED <<bridge, loops>>

-----------------------------------------------------------------------------
(* The poll loops *)

\* pollOnce up to its await
Poll(l) ==
  /\ loops[l].at = "timer"
  /\ IF pollingActive /\ sessionId # None
     THEN /\ loops' = [loops EXCEPT ![l] =
               [at |-> "asked", session |-> sessionId, since |-> lastEventId, last |-> lastEventId]]
          /\ UNCHANGED pollingActive
     ELSE /\ loops' = [loops EXCEPT ![l] = Ended]
          /\ pollingActive' = FALSE
  /\ UNCHANGED <<bridge, sessionId, lastEventId, sseRequest, isSending, jobs>>

\* The endpoint answers, at the latest after max_wait.
WaitForMore(l) == \* faulty: without max_wait
  /\ loops[l].at = "asked"
  /\ Newest(loops[l].session, loops[l].since) > loops[l].since
  /\ loops' = [loops EXCEPT ![l].at = "told",
                            ![l].last = Newest(loops[l].session, loops[l].since)]
  /\ UNCHANGED <<bridge, window, jobs>>

Reply(l) ==
  /\ loops[l].at = "asked"
  /\ loops' = [loops EXCEPT ![l].at = "told",
                            ![l].last = Newest(loops[l].session, loops[l].since)]
  /\ UNCHANGED <<bridge, window, jobs>>

\* The end of pollOnce: another turn while pollingActive.
GiveUp(l, active) == loops' = [loops EXCEPT ![l] = Ended] \* faulty: one turn only
Again(l, active) ==
  loops' = [loops EXCEPT ![l] = IF active THEN [Ended EXCEPT !.at = "timer"] ELSE Ended]

Lost(l) ==
  /\ loops[l].at \in {"asked", "told"}
  /\ Again(l, pollingActive)
  /\ UNCHANGED <<bridge, window, jobs>>

\* The kinds of the events in the answer.
Brought(l) == {log[loops[l].session][i + 1] : i \in (loops[l].since + 1)..loops[l].last}

\* handleSSEEvent for each event, whatever session the window shows by now
Handle(l) ==
  LET closed == "closed" \in Brought(l)
      over == closed \/ "result" \in Brought(l)
  IN
  /\ loops[l].at = "told"
  /\ lastEventId' = IF loops[l].last > lastEventId THEN loops[l].last ELSE lastEventId
  /\ isSending' = (isSending /\ ~over)
  /\ sseRequest' = (sseRequest /\ ~closed)
  /\ pollingActive' = (pollingActive /\ ~(closed /\ sseRequest))
  /\ sessionId' = IF closed THEN None ELSE sessionId
  /\ Again(l, pollingActive')
  /\ UNCHANGED <<bridge, jobs>>

-----------------------------------------------------------------------------
Job(j) ==
  \/ Serve(j) \/ Refuse(j)
  \/ Failed(j) \/ Sent(j) \/ WasReset(j) \/ Created(j) \/ Opened(j) \/ Deleted(j)

Loop(l) == Poll(l) \/ Reply(l) \/ Lost(l) \/ Handle(l)

User ==
  \/ \E j \in Jobs : New(j) \/ OpenPanel(j)
  \/ \E j \in Jobs, op \in {"send", "reset"} : Enter(j, op)
  \/ \E j \in Jobs, s \in Sessions : Delete(j, s)
  \/ \E s \in Sessions : Switch(s)
  \/ Stop

Next ==
  \/ User
  \/ \E j \in Jobs : Job(j)
  \/ \E l \in Loops : Loop(l)
  \/ \E s \in Sessions : End(s) \/ \E e \in {"data", "result"} : Emit(s, e)

Spec == Init /\ [][Next]_vars

(* Every request is answered or fails, timers fire, a poll gets through if it *)
(* is tried often enough, and Claude comes to an end with every message.      *)
Fairness ==
  /\ \A j \in Jobs : WF_vars(Job(j))
  /\ \A l \in Loops : WF_vars(Poll(l)) /\ SF_vars(Reply(l)) /\ SF_vars(Handle(l))
  /\ \A s \in Sessions : WF_vars(\E e \in {"data", "result"} : Emit(s, e))

FairSpec == Spec /\ Fairness

-----------------------------------------------------------------------------
(* Properties *)

\* What the variables hold.
TypeOK ==
  /\ log \in [Sessions -> Seq(Kinds)]
  /\ live \subseteq Sessions
  /\ running \subseteq live
  /\ sessionId \in Sessions \cup {None}
  /\ lastEventId \in Nat
  /\ pollingActive \in BOOLEAN
  /\ sseRequest \in BOOLEAN
  /\ isSending \in BOOLEAN
  /\ jobs \in [Jobs -> JobType]
  /\ loops \in [Loops -> LoopType]

\* The poll flag tells the truth: while pollingActive is set there is a poll
\* loop that goes on and a listener that the next abort can end, although loops
\* end by themselves, one by one, and several handlers and answers set the flag
\* (connectPolling skips its work when the flag is set).
PollingIsServed == pollingActive => sseRequest /\ \E l \in Loops : loops[l].at # "ended"

\* In a window that stays in its session every message is seen to end.
SendingEnds == isSending ~> ~isSending

\* A stop ends the polling: although abort() only clears a flag that the
\* requests under way do not see, all loops end (the endpoint's max_wait answers
\* their requests), unless the next message sets the flag again before that.
PollingEnds == ~pollingActive ~> pollingActive \/ \A l \in Loops : loops[l].at = "ended"
=============================================================================
