--------------------------- MODULE SessionManager ---------------------------
(***************************************************************************)
(* The Claude chat sessions of the Bridge (bridge/session_manager.py).     *)
(*                                                                         *)
(* The Bridge is one asyncio process: a piece of code runs without         *)
(* interruption from one await to the next.  Every action below is such a  *)
(* piece, so its name is the name of the method and of the point where the *)
(* method resumes.  Three kinds of task interleave:                        *)
(*   - HTTP requests of the Clients (create, send, abort, set_mode, close, *)
(*     reset), of which one client issues one at a time;                   *)
(*   - one read loop per Claude CLI subprocess;                            *)
(*   - the idle clean-up task.                                             *)
(* The one asyncio.Lock of the manager is shared by all of them: send and  *)
(* abort release it before they are done, create, set_mode and close hold  *)
(* it to their end.                                                        *)
(***************************************************************************)
EXTENDS Naturals

CONSTANTS
  Users,       \* user ids (auth.compute_user_id)
  Clients,     \* callers of the HTTP API, one request at a time each
  UserOf,      \* the user each client is authenticated as
  Cleaners,    \* the clean-up task: one element, or none in a run without it
  Sessions,    \* session ids (uuid4), each used once
  Procs,       \* Claude subprocesses; a read loop is named by the process
               \* whose start created it
  Modes,       \* Claude permission modes
  DefaultMode, \* "bypass"
  None,        \* Python's None
  MaxAsked     \* bound: user messages per session

Actors == Clients \cup Cleaners

ASSUME ConstantsAssumption ==
  /\ UserOf \in [Clients -> Users]
  /\ Clients \cap Cleaners = {}
  /\ None \notin Users \cup Actors \cup Sessions \cup Procs \cup Modes
  /\ DefaultMode \in Modes
  /\ MaxAsked \in Nat

VARIABLES
  sessions,      \* the keys of _sessions
  ses,           \* the ChatSession objects, which outlive their key
  activePerUser, \* _active_per_user
  lock,          \* holder of self._lock
  job,           \* what each actor's task is suspended in
  procs,         \* the Claude subprocesses
  rd,            \* the read loops
  expired        \* the clean-up task's list of sessions still to close

vars == <<sessions, ses, activePerUser, lock, job, procs, rd, expired>>

Statuses == {"none", "idle", "active", "closed"}
Events   == {"none", "result", "error", "aborted", "session_closed"}
Plans    == {"none", "prompt", "text", "local", "switch", "reset"}
PCs      == {"ready", "create_spawn", "create_store", "reset_create",
             "send_spawn", "dispatch", "send_write",
             "abort_reader", "abort_wait",
             "mode_wait", "mode_reader", "mode_cancel", "mode_spawn",
             "close_reader", "close_wait", "close_drop"}

\* A session id nobody created yet.
Unborn == [owner |-> None, status |-> "none", mode |-> DefaultMode,
           claudeProc |-> None, readTask |-> None, config |-> FALSE,
           asked |-> 0, stale |-> FALSE, last |-> "none"]

\* An actor between two requests.
Ready == [pc |-> "ready", target |-> None, plan |-> "none",
          proc |-> None, task |-> None, oldMode |-> None]

\* A subprocess not started yet, and its read loop.
Unused == [st |-> "none", inbox |-> 0]
NoLoop == [st |-> "none", session |-> None, bound |-> None, cancel |-> FALSE]

Init ==
  /\ sessions = {}
  /\ ses = [s \in Sessions |-> Unborn]
  /\ activePerUser = [u \in Users |-> None]
  /\ lock = None
  /\ job = [h \in Actors |-> Ready]
  /\ procs = [p \in Procs |-> Unused]
  /\ rd = [p \in Procs |-> NoLoop]
  /\ expired = {}

-----------------------------------------------------------------------------
(* Helpers *)

OwnsAny(h, s) == s \in sessions \* faulty: looked up by the session id alone

\* A session as its owner looks it up: _sessions.get((user_id, session_id)).
Owns(h, s) == s \in sessions /\ ses[s].owner = UserOf[h]

\* task is None or task.done()
Done(t) == IF t = None THEN TRUE ELSE rd[t].st = "done"

\* _push_event; only the kind of the newest event is kept here.
Push(rec, e) == [rec EXCEPT !.last = e]

AnnounceNothing(rec) == rec \* faulty
Announce(rec) == Push(rec, "session_closed")

SignalNothing(p) == procs' = procs \* faulty

\* terminate(), send_signal(SIGINT) or kill(): nothing for a dead process.
\* The caller then waits, and falls back to SIGKILL when the wait times out.
Signal(p) == procs' = [procs EXCEPT ![p].st = IF @ = "alive" THEN "killed" ELSE @]

\* A read loop that has ended by itself (cancel |-> TRUE: in a CancelledError).
Over(p) == [NoLoop EXCEPT !.st = "done", !.session = rd[p].session]

CancelNothing(t) == rd' = rd \* faulty
Cancel(t) == rd' = [rd EXCEPT ![t].cancel = TRUE]

NotAwaited(h) == TRUE \* faulty

\* What a suspended request waits for: the lock, the read loop it cancelled
\* or the exit of the process it signalled.
LockFree(h) == lock = None
ReaderGone(h) == Done(job[h].task)
ProcGone(h)   == procs[job[h].proc].st = "exited"

At(h, l) == job[h].pc = l

\* The request of h is answered.
Return(h) == job' = [job EXCEPT ![h] = Ready]

\* create_subprocess_exec and create_task(_read_loop) on an existing session
Restart(s, p) ==
  /\ procs[p].st = "none"
  /\ procs' = [procs EXCEPT ![p].st = "alive"]
  /\ ses' = [ses EXCEPT ![s] = [@ EXCEPT !.claudeProc = p, !.readTask = p]]
  /\ rd' = [rd EXCEPT ![p] = [NoLoop EXCEPT !.st = "scheduled", !.session = s]]

\* _send_user_message up to its first await: history, status, last_active_at
Record(rec) == [rec EXCEPT !.asked = @ + 1, !.status = "active", !.stale = FALSE]

-----------------------------------------------------------------------------
(* create_session: holds the lock throughout *)

CreateBegin(h, s, m, w) ==
  /\ LockFree(h)
  /\ ses[s] = Unborn
  /\ lock' = h
  /\ ses' = [ses EXCEPT ![s] = [Unborn EXCEPT !.owner = UserOf[h], !.mode = m, !.config = TRUE]]
  /\ job' = [job EXCEPT ![h] = [Ready EXCEPT !.pc = "create_spawn", !.target = s, !.plan = w]]
  /\ UNCHANGED <<sessions, activePerUser, procs, rd, expired>>

Create(h, s, m, w) ==
  /\ At(h, "ready")
  /\ w = "prompt" => MaxAsked > 0
  /\ CreateBegin(h, s, m, w)

\* The subprocess is up: the session is registered and becomes the active one.
CreateSpawned(h, p) ==
  LET s == job[h].target IN
  /\ At(h, "create_spawn")
  /\ procs[p].st = "none"
  /\ procs' = [procs EXCEPT ![p].st = "alive"]
  /\ ses' = [ses EXCEPT ![s] = [@ EXCEPT !.claudeProc = p, !.status = "idle"]]
  /\ sessions' = sessions \cup {s}
  /\ activePerUser' = [activePerUser EXCEPT ![UserOf[h]] = s]
  /\ job' = [job EXCEPT ![h] = [@ EXCEPT !.pc = "create_store", !.proc = p]]
  /\ UNCHANGED <<lock, rd, expired>>

NoCleanUp(rec) == rec \* faulty
Discard(rec) == Unborn

\* The subprocess does not start: the config file is removed, the request
\* fails and the session id is never seen again.
CreateSpawnFailed(h) ==
  /\ At(h, "create_spawn")
  /\ ses' = [ses EXCEPT ![job[h].target] = Discard(@)]
  /\ lock' = None
  /\ Return(h)
  /\ UNCHANGED <<sessions, activePerUser, procs, rd, expired>>

\* After the SQLite writes: start the read loop, send the initial prompt.
CreateStored(h) ==
  LET s == job[h].target
      p == job[h].proc
      rec == [ses[s] EXCEPT !.readTask = p]
  IN
  /\ At(h, "create_store")
  /\ rd' = [rd EXCEPT ![p] = [NoLoop EXCEPT !.st = "scheduled", !.session = s]]
  /\ IF job[h].plan = "prompt"
     THEN /\ ses' = [ses EXCEPT ![s] = Record(rec)]
          /\ job' = [job EXCEPT ![h].pc = "send_write"]
          /\ lock' = lock
     ELSE /\ ses' = [ses EXCEPT ![s] = rec]
          /\ Return(h)
          /\ lock' = None
  /\ UNCHANGED <<sessions, activePerUser, procs, expired>>

-----------------------------------------------------------------------------
(* send_message: a check under the lock, an unlocked lazy restart, then the *)
(* message itself under the lock again, without a second check              *)

SendCheck(h, s, w) ==
  /\ At(h, "ready")
  /\ LockFree(h)
  /\ Owns(h, s)
  /\ ses[s].status # "closed"
  /\ w = "text" => ses[s].asked < MaxAsked
  /\ job' = [job EXCEPT ![h] =
       [Ready EXCEPT !.target = s, !.plan = w,
                     !.pc = IF ses[s].claudeProc = None THEN "send_spawn" ELSE "dispatch"]]
  /\ UNCHANGED <<sessions, ses, activePerUser, lock, procs, rd, expired>>

SendRestarted(h, p) ==
  /\ At(h, "send_spawn")
  /\ Restart(job[h].target, p)
  /\ job' = [job EXCEPT ![h].pc = "dispatch"]
  /\ UNCHANGED <<sessions, activePerUser, lock, expired>>

SendRestartFailed(h) ==
  /\ At(h, "send_spawn")
  /\ Return(h)
  /\ UNCHANGED <<sessions, ses, activePerUser, lock, procs, rd, expired>>

\* /history, /list-sessions, /export, /help..., and the TUI-only commands:
\* answered from what is there
LocalCommand(h) ==
  /\ At(h, "dispatch")
  /\ job[h].plan = "local"
  /\ Return(h)
  /\ UNCHANGED <<sessions, ses, activePerUser, lock, procs, rd, expired>>

\* /switch t
SwitchActive(h, t) ==
  /\ At(h, "dispatch")
  /\ job[h].plan = "switch"
  /\ LockFree(h)
  /\ activePerUser' = IF Owns(h, t) THEN [activePerUser EXCEPT ![UserOf[h]] = t]
                      ELSE activePerUser
  /\ Return(h)
  /\ UNCHANGED <<sessions, ses, lock, procs, rd, expired>>

SendRecord(h) ==
  /\ At(h, "dispatch")
  /\ job[h].plan = "text"
  /\ LockFree(h)
  /\ lock' = h
  /\ ses' = [ses EXCEPT ![job[h].target] = Record(@)]
  /\ job' = [job EXCEPT ![h].pc = "send_write"]
  /\ UNCHANGED <<sessions, activePerUser, procs, rd, expired>>

\* _write_to_stdin: nothing without a process, an error event when the pipe
\* is broken; a write to a dying process may also seem to succeed.
WriteToStdin(s) ==
  LET p == ses[s].claudeProc IN
  \/ p = None /\ UNCHANGED <<ses, procs>>
  \/ p # None /\ procs' = [procs EXCEPT ![p].inbox = @ + 1] /\ UNCHANGED ses
  \/ /\ p # None
     /\ procs[p].st # "alive"
     /\ ses' = [ses EXCEPT ![s] = Push(@, "error")]
     /\ UNCHANGED procs

SendWrite(h) ==
  /\ At(h, "send_write")
  /\ WriteToStdin(job[h].target)
  /\ lock' = None
  /\ Return(h)
  /\ UNCHANGED <<sessions, activePerUser, rd, expired>>

-----------------------------------------------------------------------------
(* abort_session: holds the lock for the check only *)

AbortBegin(h, s) ==
  LET p == ses[s].claudeProc
      t == ses[s].readTask
      j == [Ready EXCEPT !.target = s, !.proc = p]
  IN
  /\ At(h, "ready")
  /\ LockFree(h)
  /\ Owns(h, s)
  /\ p # None
  /\ IF Done(t)
     THEN /\ Signal(p)
          /\ job' = [job EXCEPT ![h] = [j EXCEPT !.pc = "abort_wait"]]
          /\ UNCHANGED rd
     ELSE /\ Cancel(t)
          /\ job' = [job EXCEPT ![h] = [j EXCEPT !.pc = "abort_reader", !.task = t]]
          /\ UNCHANGED procs
  /\ UNCHANGED <<sessions, ses, activePerUser, lock, expired>>

AbortReaderDone(h) ==
  /\ At(h, "abort_reader")
  /\ ReaderGone(h)
  /\ ses' = [ses EXCEPT ![job[h].target].readTask = None]
  /\ Signal(job[h].proc)
  /\ job' = [job EXCEPT ![h].pc = "abort_wait"]
  /\ UNCHANGED <<sessions, activePerUser, lock, rd, expired>>

\* The process is gone, gracefully or by SIGKILL.
AbortFinish(h) ==
  LET s == job[h].target IN
  /\ At(h, "abort_wait")
  /\ ProcGone(h)
  /\ ses' = [ses EXCEPT ![s] =
       Push([@ EXCEPT !.claudeProc = None, !.status = "idle"], "aborted")]
  /\ Return(h)
  /\ UNCHANGED <<sessions, activePerUser, lock, procs, rd, expired>>

-----------------------------------------------------------------------------
(* set_mode: holds the lock throughout *)

\* _restart_proc_if_needed: nothing for a closed session or one that has a
\* process.  rec is the session with the caller's assignments so far, old the
\* mode to go back to.
ModeRestart(h, s, old, rec) ==
  /\ ses' = [ses EXCEPT ![s] = rec]
  /\ IF rec.status = "closed" \/ rec.claudeProc # None
     THEN Return(h) /\ lock' = None
     ELSE /\ job' = [job EXCEPT ![h] =
               [Ready EXCEPT !.pc = "mode_spawn", !.target = s, !.oldMode = old]]
          /\ lock' = h

\* The old process has exited: wait for the read loop to end.
ModeAwaitReader(h, s, old, rec) ==
  IF Done(rec.readTask)
  THEN ModeRestart(h, s, old, [rec EXCEPT !.readTask = None])
  ELSE /\ ses' = [ses EXCEPT ![s] = rec]
       /\ job' = [job EXCEPT ![h] = [Ready EXCEPT !.pc = "mode_reader", !.target = s,
                                                  !.task = rec.readTask, !.oldMode = old]]
       /\ lock' = h

ModeBegin(h, s, m) ==
  LET p   == ses[s].claudeProc
      old == ses[s].mode
      rec == [ses[s] EXCEPT !.mode = m]
  IN
  /\ At(h, "ready")
  /\ LockFree(h)
  /\ Owns(h, s)
  /\ old # m
  /\ \/ /\ p = None
        /\ ModeRestart(h, s, old, rec)
        /\ UNCHANGED procs
     \/ /\ p # None
        /\ procs[p].st = "exited"
        /\ ModeAwaitReader(h, s, old, [rec EXCEPT !.claudeProc = None])
        /\ UNCHANGED procs
     \/ /\ p # None
        /\ procs[p].st # "exited"
        /\ Signal(p)
        /\ ses' = [ses EXCEPT ![s] = rec]
        /\ job' = [job EXCEPT ![h] = [Ready EXCEPT !.pc = "mode_wait", !.target = s,
                                                   !.proc = p, !.oldMode = old]]
        /\ lock' = h
  /\ UNCHANGED <<sessions, activePerUser, rd, expired>>

ModeProcGone(h) ==
  LET s == job[h].target IN
  /\ At(h, "mode_wait")
  /\ ProcGone(h)
  /\ ModeAwaitReader(h, s, job[h].oldMode, [ses[s] EXCEPT !.claudeProc = None])
  /\ UNCHANGED <<sessions, activePerUser, procs, rd, expired>>

\* The read loop takes more than two seconds: wait_for cancels it and waits on.
ModeReaderTimeout(h) ==
  /\ At(h, "mode_reader")
  /\ ~ReaderGone(h)
  /\ Cancel(job[h].task)
  /\ job' = [job EXCEPT ![h].pc = "mode_cancel"]
  /\ UNCHANGED <<sessions, ses, activePerUser, lock, procs, expired>>

\* The read loop ended in a CancelledError.  Cancelled by another request, it is one that
\* nothing catches; cancelled by wait_for, it comes as a timeout, after which set_mode
\* trips over a read_task that an abort has set to None by then.
ModeReaderCancelled(h) ==
  /\ \/ At(h, "mode_reader")
     \/ At(h, "mode_cancel") /\ ses[job[h].target].readTask = None
  /\ ReaderGone(h)
  /\ rd[job[h].task].cancel
  /\ lock' = None
  /\ Return(h)
  /\ UNCHANGED <<sessions, ses, activePerUser, procs, rd, expired>>

ModeReaderDone(h) ==
  LET s == job[h].target IN
  /\ At(h, "mode_reader") \/ At(h, "mode_cancel")
  /\ ReaderGone(h)
  /\ ~rd[job[h].task].cancel
  /\ ModeRestart(h, s, job[h].oldMode, [ses[s] EXCEPT !.readTask = None])
  /\ UNCHANGED <<sessions, activePerUser, procs, rd, expired>>

\* The timeout: set_mode cancels the read loop that the session has by then, perhaps
\* the one that a lazy restart has just started.
ModeReaderTimedOut(h) ==
  LET s == job[h].target
      t == ses[s].readTask
  IN
  /\ At(h, "mode_cancel")
  /\ ReaderGone(h)
  /\ rd[job[h].task].cancel
  /\ t # None
  /\ IF Done(t) THEN UNCHANGED rd ELSE Cancel(t)
  /\ ModeRestart(h, s, job[h].oldMode, [ses[s] EXCEPT !.readTask = None])
  /\ UNCHANGED <<sessions, activePerUser, procs, expired>>

ModeSpawned(h, p) ==
  /\ At(h, "mode_spawn")
  /\ Restart(job[h].target, p)
  /\ lock' = None
  /\ Return(h)
  /\ UNCHANGED <<sessions, activePerUser, expired>>

ModeSpawnFailed(h) ==
  /\ At(h, "mode_spawn")
  /\ ses' = [ses EXCEPT ![job[h].target].mode = job[h].oldMode]
  /\ lock' = None
  /\ Return(h)
  /\ UNCHANGED <<sessions, activePerUser, procs, rd, expired>>

-----------------------------------------------------------------------------
(* close_session and _close_session_internal: hold the lock throughout *)

\* The read loop has ended: kill the process, or announce the end at once.
CloseKill(h, s, w, rec) ==
  LET p == rec.claudeProc
      j == [Ready EXCEPT !.target = s, !.plan = w]
  IN
  IF p = None
  THEN /\ ses' = [ses EXCEPT ![s] = Announce(rec)]
       /\ job' = [job EXCEPT ![h] = [j EXCEPT !.pc = "close_drop"]]
       /\ UNCHANGED procs
  ELSE /\ Signal(p)
       /\ ses' = [ses EXCEPT ![s] = rec]
       /\ job' = [job EXCEPT ![h] = [j EXCEPT !.pc = "close_wait", !.proc = p]]

CloseBegin(h, s, w) ==
  LET t   == ses[s].readTask
      rec == [ses[s] EXCEPT !.status = "closed"]
  IN
  /\ LockFree(h)
  /\ s \in sessions
  /\ lock' = h
  /\ IF Done(t)
     THEN CloseKill(h, s, w, rec) /\ UNCHANGED rd
     ELSE /\ Cancel(t)
          /\ ses' = [ses EXCEPT ![s] = rec]
          /\ job' = [job EXCEPT ![h] = [Ready EXCEPT !.pc = "close_reader",
                                        !.target = s, !.plan = w, !.task = t]]
          /\ UNCHANGED procs
  /\ UNCHANGED <<sessions, activePerUser>>

Close(h, s) ==
  /\ At(h, "ready")
  /\ Owns(h, s)
  /\ CloseBegin(h, s, "none")
  /\ UNCHANGED expired

CloseReaderDone(h) ==
  LET s == job[h].target IN
  /\ At(h, "close_reader")
  /\ ReaderGone(h)
  /\ CloseKill(h, s, job[h].plan, [ses[s] EXCEPT !.readTask = None])
  /\ UNCHANGED <<sessions, activePerUser, lock, rd, expired>>

CloseProcGone(h) ==
  LET s == job[h].target IN
  /\ At(h, "close_wait")
  /\ ProcGone(h)
  /\ ses' = [ses EXCEPT ![s] = Announce([@ EXCEPT !.claudeProc = None])]
  /\ job' = [job EXCEPT ![h] = [@ EXCEPT !.pc = "close_drop", !.proc = None]]
  /\ UNCHANGED <<sessions, activePerUser, lock, procs, rd, expired>>

KeepPointer(s) == activePerUser \* faulty
ClearPointer(s) == [activePerUser EXCEPT ![ses[s].owner] = IF @ = s THEN None ELSE @]

\* Remove the config file, the dictionary entry and the user's pointer to it.
CloseDrop(h) ==
  LET s == job[h].target IN
  /\ At(h, "close_drop")
  /\ ses' = [ses EXCEPT ![s].config = FALSE]
  /\ sessions' = sessions \ {s}
  /\ activePerUser' = ClearPointer(s)
  /\ lock' = None
  /\ job' = [job EXCEPT ![h] = IF job[h].plan = "reset"
                               THEN [Ready EXCEPT !.pc = "reset_create", !.target = s]
                               ELSE Ready]
  /\ UNCHANGED <<procs, rd, expired>>

-----------------------------------------------------------------------------
(* reset_session: close, whatever that returns, then create, as two         *)
(* separate critical sections.  Reached from POST /reset on any session id  *)
(* and, after the lazy restart of send_message, from the commands /reset    *)
(* and /clear.                                                              *)

Reset(h, s) ==
  /\ \/ At(h, "ready")
     \/ At(h, "dispatch") /\ job[h].plan = "reset" /\ job[h].target = s
  /\ IF Owns(h, s)
     THEN CloseBegin(h, s, "reset") /\ UNCHANGED expired
     ELSE /\ LockFree(h)
          /\ job' = [job EXCEPT ![h] = [Ready EXCEPT !.pc = "reset_create"]]
          /\ UNCHANGED <<sessions, ses, activePerUser, lock, procs, rd, expired>>

ResetCreate(h, s) ==
  /\ At(h, "reset_create")
  /\ CreateBegin(h, s, DefaultMode, "none")

\* The config file cannot be written.
ResetCreateFailed(h) ==
  /\ At(h, "reset_create")
  /\ LockFree(h)
  /\ Return(h)
  /\ UNCHANGED <<sessions, ses, activePerUser, lock, procs, rd, expired>>

-----------------------------------------------------------------------------
(* _cleanup_loop: a snapshot under the lock, then one close after another,  *)
(* each taking the lock anew                                                *)

\* Two hours pass since the last user message.
Expire(s) ==
  /\ Cleaners # {}
  /\ s \in sessions
  /\ ~ses[s].stale
  /\ ses' = [ses EXCEPT ![s].stale = TRUE]
  /\ UNCHANGED <<sessions, activePerUser, lock, job, procs, rd, expired>>

CleanupSnapshot(c) ==
  /\ At(c, "ready")
  /\ LockFree(c)
  /\ expired = {}
  /\ expired' = {s \in sessions : ses[s].status = "idle" /\ ses[s].stale}
  /\ UNCHANGED <<sessions, ses, activePerUser, lock, job, procs, rd>>

CleanupClose(c, s) ==
  /\ At(c, "ready")
  /\ s \in expired
  /\ expired' = expired \ {s}
  /\ IF s \in sessions
     THEN CloseBegin(c, s, "none")
     ELSE LockFree(c) /\ UNCHANGED <<sessions, ses, activePerUser, lock, job, procs, rd>>

-----------------------------------------------------------------------------
(* _read_loop of the process p (or rather of the start of p)                *)

\* The task runs for the first time and takes whatever process the session
\* has by then.
ReaderStart(p) ==
  LET s == rd[p].session
      b == ses[s].claudeProc
  IN
  /\ rd[p].st = "scheduled"
  /\ ~rd[p].cancel
  /\ rd' = [rd EXCEPT ![p] = IF b = None \/ ses[s].status = "closed" THEN Over(p)
                             ELSE [@ EXCEPT !.st = "reading", !.bound = b]]
  /\ UNCHANGED <<sessions, ses, activePerUser, lock, job, procs, expired>>

\* Cancelled before it ever ran, or inside its finally clause while it writes
\* the session_closed event to SQLite: it ends without another assignment.
ReaderDropped(p) ==
  /\ rd[p].st \in {"scheduled", "closing"}
  /\ rd[p].cancel
  /\ rd' = [rd EXCEPT ![p] = [Over(p) EXCEPT !.cancel = TRUE]]
  /\ UNCHANGED <<sessions, ses, activePerUser, lock, job, procs, expired>>

\* The finally clause up to its await.
ReaderFinally(p, rec) ==
  LET s == rd[p].session
      open == rec.status # "closed"
  IN
  /\ ses' = [ses EXCEPT ![s] = IF open THEN Announce(rec) ELSE rec]
  /\ rd' = [rd EXCEPT ![p] = IF open THEN [@ EXCEPT !.st = "closing", !.cancel = FALSE]
                             ELSE Over(p)]
  /\ UNCHANGED <<sessions, activePerUser, lock, job, procs, expired>>

\* The rest of it.
ReaderClosed(p) ==
  /\ rd[p].st = "closing"
  /\ ~rd[p].cancel
  /\ ses' = [ses EXCEPT ![rd[p].session].status = "closed"]
  /\ rd' = [rd EXCEPT ![p] = Over(p)]
  /\ UNCHANGED <<sessions, activePerUser, lock, job, procs, expired>>

\* CancelledError is swallowed, the finally clause runs.
ReaderCancelled(p) ==
  /\ rd[p].st \in {"reading", "storing"}
  /\ rd[p].cancel
  /\ ReaderFinally(p, ses[rd[p].session])

\* End of file, or a line after which the loop condition no longer holds.
ReaderEof(p) ==
  /\ rd[p].st = "reading"
  /\ ~rd[p].cancel
  /\ procs[rd[p].bound].st = "exited" \/ ses[rd[p].session].status = "closed"
  /\ ReaderFinally(p, ses[rd[p].session])

\* readline raises: a line over the StreamReader limit, or a second reader
\* of the same pipe.
ReaderError(p) ==
  /\ rd[p].st = "reading"
  /\ ~rd[p].cancel
  /\ ReaderFinally(p, Push(ses[rd[p].session], "error"))

Answers(b) == procs[b].inbox > 0

\* The result of a turn: history, then SQLite, then status and event.
ReaderResult(p) ==
  LET b == rd[p].bound IN
  /\ rd[p].st = "reading"
  /\ ~rd[p].cancel
  /\ Answers(b)
  /\ procs' = [procs EXCEPT ![b].inbox = @ - 1]
  /\ rd' = [rd EXCEPT ![p].st = "storing"]
  /\ UNCHANGED <<sessions, ses, activePerUser, lock, job, expired>>

ReaderResultStored(p) ==
  LET s == rd[p].session IN
  /\ rd[p].st = "storing"
  /\ ~rd[p].cancel
  /\ ses' = [ses EXCEPT ![s] = Push([@ EXCEPT !.status = "idle"], "result")]
  /\ rd' = [rd EXCEPT ![p].st = "reading"]
  /\ UNCHANGED <<sessions, activePerUser, lock, job, procs, expired>>

-----------------------------------------------------------------------------
(* The Claude CLI: exits when it likes, and when it was told to. *)

ProcExit(p) ==
  /\ procs[p].st \in {"alive", "killed"}
  /\ procs' = [procs EXCEPT ![p].st = "exited"]
  /\ UNCHANGED <<sessions, ses, activePerUser, lock, job, rd, expired>>

-----------------------------------------------------------------------------
Request(h) ==
  \/ \E s \in Sessions, m \in Modes, w \in {"none", "prompt"} : Create(h, s, m, w)
  \/ \E s \in Sessions, w \in {"text", "local", "switch", "reset"} : SendCheck(h, s, w)
  \/ \E s \in Sessions : AbortBegin(h, s)
  \/ \E s \in Sessions, m \in Modes : ModeBegin(h, s, m)
  \/ \E s \in Sessions : Close(h, s)
  \/ \E s \in Sessions : At(h, "ready") /\ Reset(h, s)

\* The steps of an accepted request that need no lock, or hold it.
Resume(h) ==
  \/ \E p \in Procs : CreateSpawned(h, p)
  \/ CreateSpawnFailed(h)
  \/ CreateStored(h)
  \/ \E p \in Procs : SendRestarted(h, p)
  \/ SendRestartFailed(h)
  \/ LocalCommand(h)
  \/ SendWrite(h)
  \/ AbortReaderDone(h)
  \/ AbortFinish(h)
  \/ ModeProcGone(h)
  \/ ModeReaderCancelled(h)
  \/ ModeReaderDone(h)
  \/ ModeReaderTimedOut(h)
  \/ \E p \in Procs : ModeSpawned(h, p)
  \/ ModeSpawnFailed(h)
  \/ CloseReaderDone(h)
  \/ CloseProcGone(h)
  \/ CloseDrop(h)

\* Those that take the lock.
ResumeLocked(h) ==
  \/ SendRecord(h)
  \/ \E t \in Sessions : SwitchActive(h, t)
  \/ \E s \in Sessions : At(h, "dispatch") /\ Reset(h, s)
  \/ \E s \in Sessions : ResetCreate(h, s)
  \/ ResetCreateFailed(h)

Cleanup(c) == CleanupSnapshot(c) \/ \E s \in Sessions : CleanupClose(c, s)

Reader(p) ==
  \/ ReaderStart(p)
  \/ ReaderDropped(p)
  \/ ReaderClosed(p)
  \/ ReaderCancelled(p)
  \/ ReaderEof(p)
  \/ ReaderResultStored(p)

\* What the process may or may not write.
Output(p) == ReaderError(p) \/ ReaderResult(p)

Next ==
  \/ \E h \in Clients : Request(h) \/ ResumeLocked(h)
  \/ \E h \in Actors : Resume(h) \/ ModeReaderTimeout(h)
  \/ \E c \in Cleaners : Cleanup(c)
  \/ \E s \in Sessions : Expire(s)
  \/ \E p \in Procs : Reader(p) \/ Output(p) \/ ProcExit(p)

Spec == Init /\ [][Next]_vars

(* asyncio runs every ready task again and hands the lock out first come,   *)
(* first served; signalled processes die; readline returns at end of file.  *)
Fairness ==
  /\ \A h \in Actors : WF_vars(Resume(h)) 
  /\ \A h \in Clients : SF_vars(ResumeLocked(h))
  /\ \A p \in Procs : WF_vars(Reader(p)) /\ WF_vars(procs[p].st = "killed" /\ ProcExit(p))

FairSpec == Spec /\ Fairness

-----------------------------------------------------------------------------
(* Properties *)

\* What the variables hold.
ChatSession ==
  [owner : Users \cup {None}, status : Statuses, mode : Modes,
   claudeProc : Procs \cup {None}, readTask : Procs \cup {None},
   config : BOOLEAN, asked : Nat, stale : BOOLEAN, last : Events]
Job ==
  [pc : PCs, target : Sessions \cup {None}, plan : Plans,
   proc : Procs \cup {None}, task : Procs \cup {None}, oldMode : Modes \cup {None}]
Process == [st : {"none", "alive", "killed", "exited"}, inbox : Nat]
ReadLoop ==
  [st : {"none", "scheduled", "reading", "storing", "closing", "done"},
   session : Sessions \cup {None}, bound : Procs \cup {None}, cancel : BOOLEAN]

TypeOK ==
  /\ sessions \subseteq Sessions
  /\ ses \in [Sessions -> ChatSession]
  /\ activePerUser \in [Users -> Sessions \cup {None}]
  /\ lock \in Actors \cup {None}
  /\ job \in [Actors -> Job]
  /\ procs \in [Procs -> Process]
  /\ rd \in [Procs -> ReadLoop]
  /\ expired \subseteq Sessions

\* Where an actor holds the lock.
Critical == {"create_spawn", "create_store", "send_write", "mode_wait", "mode_reader",
             "mode_cancel", "mode_spawn", "close_reader", "close_wait", "close_drop"}

\* The lock is held by exactly the one request inside a critical section, so
\* creating, switching mode and closing never overlap, on any session.
LockDiscipline == \A h \in Actors : lock = h <=> job[h].pc \in Critical

\* h is creating s, which is not registered yet.
Creating(h, s) == job[h].pc = "create_spawn" /\ job[h].target = s

\* A session that was removed: nobody can reach it any more.
Dropped(s) ==
  ses[s].owner # None /\ s \notin sessions /\ ~\E h \in Actors : Creating(h, s)

\* The pointer to a user's active session never dangles: it names a session
\* that is registered and the user's own (create, close, /switch, clean-up).
ActivePointerLive ==
  \A u \in Users : activePerUser[u] # None =>
    activePerUser[u] \in sessions /\ ses[activePerUser[u]].owner = u

\* The temporary MCP config file of a session exists exactly while the
\* session is registered or being created: a failed start, a close, a reset
\* or a clean-up leaves none behind, and a session that can still restart its
\* process has the file the restart needs.
ConfigLifetime ==
  \A s \in Sessions :
    ses[s].config <=> s \in sessions \/ \E h \in Actors : Creating(h, s)

\* A request works on a session of its own user only, at every point where it
\* may have been suspended (the ownership check precedes every await).
Isolation ==
  \A h \in Clients : job[h].target # None => ses[job[h].target].owner = UserOf[h]

\* Whoever follows a session that was removed learns it, whichever way it
\* ended: the newest event of a removed session is session_closed.
DropIsAnnounced ==
  \A s \in Sessions : Dropped(s) => ses[s].last = "session_closed"

Closing == {"close_reader", "close_wait", "close_drop"}
Switching == {"mode_wait", "mode_reader", "mode_cancel", "mode_spawn"}

\* What a suspended request may rely on about the session it works on.
Targets ==
  \A h \in Actors :
    /\ job[h].pc = "ready" => job[h].target = None
    /\ job[h].pc \notin {"ready", "reset_create"} => job[h].target \in Sessions
    /\ job[h].pc \in Closing => job[h].target \in sessions
    /\ job[h].pc = "create_spawn" =>
         /\ job[h].target \notin sessions
         /\ ses[job[h].target].owner = UserOf[h]
         /\ \A g \in Actors \ {h} : job[g].target # job[h].target
    /\ job[h].pc \in Switching => job[h].oldMode \in Modes
    /\ h \in Cleaners => job[h].pc \in Closing \cup {"ready"} /\ job[h].plan # "reset"

\* A read loop belongs to a session for good.
LoopTargets == \A p \in Procs : rd[p].st # "none" => rd[p].session \in Sessions

\* The inductive invariant behind LockDiscipline, ConfigLifetime,
\* ActivePointerLive and Isolation: they hold together, for any number of
\* users, clients and sessions, and need what Targets and LoopTargets say.
IInv ==
  /\ TypeOK
  /\ LockDiscipline
  /\ Targets
  /\ LoopTargets
  /\ ConfigLifetime
  /\ ActivePointerLive
  /\ Isolation

\* Where a request starts or ends the process of a session without holding the lock.
Unlocked == {"send_spawn", "abort_reader", "abort_wait"}

\* What a message does between its check and its answer.
OnItsWay == {"dispatch", "send_write"}

\* What the lock does not see to and the callers have to: while a lazy restart or an abort
\* of a session is under way, the other requests on it are messages on their way, and
\* nobody closes the session of a text that was let in and is not recorded yet.  Every
\* other overlap, of any number of callers and the clean-up, is left to the lock.
Apart ==
  \A g, h \in Actors : g # h /\ job[g].target # None /\ job[g].target = job[h].target =>
    /\ job[g].pc \in Unlocked => job[h].pc \in OnItsWay
    /\ job[g].pc \in Closing => ~(job[h].pc = "dispatch" /\ job[h].plan = "text")

\* Every running Claude process is the one a registered session refers to, so
\* that closing the session kills it.
NoOrphanProcess ==
  \A p \in Procs : procs[p].st \in {"alive", "killed"} =>
    \E s \in sessions : ses[s].claudeProc = p

\* A session never has two read loops that can still push events, and the one it has
\* reads the process that its own start created, although it looks the process up
\* only when it first runs.
OneReadLoop ==
  /\ \A p, q \in Procs :
       /\ rd[p].session # None /\ rd[p].session = rd[q].session
       /\ rd[p].st # "done" /\ rd[q].st # "done"
       => p = q
  /\ \A p \in Procs : rd[p].st \in {"reading", "storing"} => rd[p].bound = p

\* A removed session is inert: closed, without a process, and without a read
\* loop that could still push an event after the final session_closed.
DroppedIsInert ==
  \A s \in Sessions : Dropped(s) =>
    /\ ses[s].status = "closed"
    /\ ses[s].claudeProc = None
    /\ \A p \in Procs : rd[p].session = s => rd[p].st = "done"

\* Nobody waits in vain: a request waits for the exit of a process only after the process
\* was signalled, and for the end of a read loop only after the loop was cancelled or when
\* it is on its last steps, however the requests on a session overlap.  The exception is
\* the read loop that set_mode lets end by itself first, for two seconds.
Signalled(p) == procs[p].st \in {"killed", "exited"}
Begun(t) == rd[t].st # "none"
Ending(t) == Begun(t) /\ (rd[t].cancel \/ rd[t].st \in {"closing", "done"})

WaitsAreServed ==
  \A h \in Actors :
    /\ job[h].pc \in {"abort_wait", "mode_wait", "close_wait"} => Signalled(job[h].proc)
    /\ job[h].pc \in {"abort_reader", "mode_cancel", "close_reader"} => Ending(job[h].task)

\* What it takes: a session and a request refer to processes and read loops that were
\* started, and the read loop of a new session is not there before the manager starts it.
Started(p) == procs[p].st # "none"

Refers(s) ==
  /\ ses[s].claudeProc # None => Started(ses[s].claudeProc)
  /\ ses[s].readTask # None => Begun(ses[s].readTask)

Awaited(h) ==
  /\ job[h].pc = "create_store" =>
       job[h].proc \in Procs /\ Started(job[h].proc) /\ ~Begun(job[h].proc)
  /\ job[h].pc = "abort_reader" => job[h].proc \in Procs /\ Started(job[h].proc)
  /\ job[h].pc \in {"abort_wait", "mode_wait", "close_wait"} => job[h].proc \in Procs /\ Signalled(job[h].proc)
  /\ job[h].pc = "mode_reader" => job[h].task \in Procs /\ Begun(job[h].task)
  /\ job[h].pc \in {"abort_reader", "mode_cancel", "close_reader"} => job[h].task \in Procs /\ Ending(job[h].task)

WaitInv ==
  /\ \A p \in Procs : Begun(p) => Started(p)
  /\ \A s \in Sessions : Refers(s)
  /\ \A h \in Actors : Awaited(h)

\* Every request is answered: no request waits forever for the lock, for a
\* read loop it cancelled or for a process it signalled.
RequestsFinish == \A h \in Actors : job[h].pc # "ready" ~> job[h].pc = "ready"

-----------------------------------------------------------------------------
(* What the documentation says of the code, and the code does not do *)

\* app.py:401: switching the mode restarts the Claude process, keeping the
\* session: when set_mode has stopped a process and returns with the new mode,
\* there is a process again.
ModeChangeRestarts ==
  [][\A h \in Clients :
       /\ job[h].pc \in Switching
       /\ job'[h].pc = "ready"
       /\ ses'[job[h].target].mode # job[h].oldMode
       /\ ses'[job[h].target].last # "error"
       => ses'[job[h].target].claudeProc # None]_vars
=============================================================================
