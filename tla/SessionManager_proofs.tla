----------------------- MODULE SessionManager_proofs -----------------------
(***************************************************************************)
(* Proofs about SessionManager, for every set of users, clients, sessions, *)
(* processes and modes.                                                    *)
(*                                                                         *)
(* The inductive invariant is IInv.  Most steps only move one request (or  *)
(* none) and leave the registration of sessions alone; for these it is     *)
(* enough to show what Quiet and Moves list, and QuietMove (or, for the    *)
(* read loops and processes, QuietEnvironment) concludes IInv'.  The four  *)
(* steps that create, discard, register and unregister a session are       *)
(* proved conjunct by conjunct.                                            *)
(*                                                                         *)
(* WaitInv, proved on top of IInv, says what was started, signalled or     *)
(* cancelled before a request waits for it.  A step of a request keeps it  *)
(* (WaitStep) when what was started, signalled, begun or ending stays so   *)
(* (Onward), the session refers to what it referred to or to something new *)
(* (RefersOn), and the request's own wait is served.                       *)
(*                                                                         *)
(* The last part says what the lock is worth: as long as no request meets  *)
(* a lazy restart or an abort on its session (Apart), everything else may  *)
(* overlap.  Its invariant is ProcessInv: what the process and the read    *)
(* loop of a session have to do with each other, and what a suspended      *)
(* request still finds.  A step works on one session, so StepOnSession     *)
(* asks for that session only and for the frame around it.  Whoever else   *)
(* is at work on that session is a bystander, to whom the step does no     *)
(* harm (Bystanders).                                                      *)
(***************************************************************************)
EXTENDS SessionManager, TLAPS

USE ConstantsAssumption

-----------------------------------------------------------------------------
(* The records and how they are edited *)

\* An actor between two requests is well typed.
LEMMA ReadyTyped == Ready \in Job
BY DEF Ready, Job, PCs, Plans

\* A session id nobody created yet is well typed.
LEMMA UnbornTyped == Unborn \in ChatSession
BY DEF Unborn, ChatSession, Statuses, Events

\* A read loop not started yet is well typed.
LEMMA NoLoopTyped == NoLoop \in ReadLoop
BY DEF NoLoop, ReadLoop

\* r is what became of rec: same owner, same config file.
Same(r, rec) == r \in ChatSession /\ r.owner = rec.owner /\ r.config = rec.config

\* The assignments the manager makes to a ChatSession keep its type, its owner
\* and its config file.
LEMMA SessionEdits ==
  ASSUME NEW rec \in ChatSession
  PROVE  /\ Same(rec, rec)
         /\ \A x \in Statuses : Same([rec EXCEPT !.status = x], rec)
         /\ \A x \in Events : Same(Push(rec, x), rec)
         /\ Same(Announce(rec), rec)
         /\ \A x \in Modes : Same([rec EXCEPT !.mode = x], rec)
         /\ \A x \in Procs \cup {None} : Same([rec EXCEPT !.claudeProc = x], rec)
         /\ \A x \in Procs \cup {None} : Same([rec EXCEPT !.readTask = x], rec)
         /\ Same([rec EXCEPT !.stale = TRUE], rec)
         /\ Same(Record(rec), rec)
<1>1. \A x \in Statuses : Same([rec EXCEPT !.status = x], rec)
  BY DEF Same, ChatSession
<1>2. \A x \in Events : Same(Push(rec, x), rec)
  BY DEF Same, ChatSession, Push
<1>3. Same(Announce(rec), rec)
  BY <1>2 DEF Events, Announce
<1>4. \A x \in Modes : Same([rec EXCEPT !.mode = x], rec)
  BY DEF Same, ChatSession
<1>5. \A x \in Procs \cup {None} : Same([rec EXCEPT !.claudeProc = x], rec)
  BY DEF Same, ChatSession
<1>6. \A x \in Procs \cup {None} : Same([rec EXCEPT !.readTask = x], rec)
  BY DEF Same, ChatSession
<1>7. Same([rec EXCEPT !.stale = TRUE], rec)
  BY DEF Same, ChatSession
<1>8. Same(Record(rec), rec)
  <2> DEFINE r1 == [rec EXCEPT !.asked = @ + 1]
             r2 == [r1 EXCEPT !.status = "active"]
             r3 == [r2 EXCEPT !.stale = FALSE]
  <2>1. Same(r1, rec)
    BY DEF ChatSession, Same
  <2>2. Same(r2, r1)
    BY <2>1 DEF ChatSession, Same, Statuses
  <2>3. Same(r3, r2)
    BY <2>2 DEF ChatSession, Same
  <2>4. Record(rec) = r3
    BY DEF Record, ChatSession
  <2> QED BY <2>1, <2>2, <2>3, <2>4 DEF Same
<1> QED BY <1>1, <1>2, <1>3, <1>4, <1>5, <1>6, <1>7, <1>8 DEF Same

\* The same of a record that stands in for the one of the session.
LEMMA SameCleared ==
  ASSUME NEW r, NEW rec, Same(r, rec)
  PROVE  Same([r EXCEPT !.readTask = None], rec) /\ Same([r EXCEPT !.claudeProc = None], rec)
<1>1. r \in ChatSession
  BY DEF Same
<1>2. Same([r EXCEPT !.readTask = None], r) /\ Same([r EXCEPT !.claudeProc = None], r)
  BY <1>1, SessionEdits
<1> HIDE DEF ChatSession
<1> QED BY <1>2, Zenon DEF Same

\* No session is created, discarded or registered.
SesQuiet ==
  /\ ses' \in [Sessions -> ChatSession]
  /\ \A t \in Sessions : ses'[t].owner = ses[t].owner /\ ses'[t].config = ses[t].config

\* An edit of one session changes no owner and no config file.
LEMMA SesEdit ==
  ASSUME ses \in [Sessions -> ChatSession], NEW s, NEW r,
         s \in Sessions => Same(r, ses[s]),
         ses' = [ses EXCEPT ![s] = r]
  PROVE  SesQuiet
BY DEF SesQuiet, Same

\* Neither does no edit at all.
LEMMA SesKept ==
  ASSUME ses \in [Sessions -> ChatSession], UNCHANGED ses PROVE SesQuiet
BY DEF SesQuiet

-----------------------------------------------------------------------------
(* Steps that leave the registration of sessions alone *)

\* Only h moves.
JobOnly(h) ==
  /\ job' \in [Actors -> Job]
  /\ \A g \in Actors \ {h} : job'[g] = job[g]

\* Replacing the job of h moves h only.
LEMMA JobEdit ==
  ASSUME job \in [Actors -> Job], NEW h \in Actors, NEW r \in Job,
         job' = [job EXCEPT ![h] = r]
  PROVE  JobOnly(h) /\ job'[h] = r
BY DEF JobOnly

\* A request in which only h moves, and no session is registered,
\* unregistered, created or discarded.
Quiet(h) ==
  /\ UNCHANGED sessions
  /\ \/ UNCHANGED activePerUser
     \/ \E t \in sessions : /\ h \in Clients /\ ses[t].owner = UserOf[h]
                           /\ activePerUser' = [activePerUser EXCEPT ![UserOf[h]] = t]
  /\ SesQuiet
  /\ JobOnly(h)
  /\ procs' \in [Procs -> Process]
  /\ rd' \in [Procs -> ReadLoop]
  /\ LoopTargets'
  /\ expired' \subseteq Sessions

\* h moves outside create_spawn, takes and gives the lock as Critical says,
\* and turns to a registered session of its user only.
Moves(h) ==
  /\ job[h].pc # "create_spawn" /\ job'[h].pc # "create_spawn"
  /\ IF job'[h].pc \in Critical THEN lock \in {None, h} /\ lock' = h
     ELSE lock' = IF lock = h THEN None ELSE lock
  /\ job'[h].target \in {None, job[h].target} \cup sessions
  /\ job'[h].pc = "ready" => job'[h].target = None
  /\ job'[h].pc \notin {"ready", "reset_create"} => job'[h].target \in Sessions
  /\ job'[h].pc \in Closing => job'[h].target \in sessions
  /\ job'[h].pc \in Switching => job'[h].oldMode \in Modes
  /\ h \in Cleaners => job'[h].pc \in Closing \cup {"ready"} /\ job'[h].plan # "reset"
  /\ h \in Clients /\ job'[h].target # None /\ job'[h].target # job[h].target
       => ses[job'[h].target].owner = UserOf[h]

\* A quiet step of h that moves h as Moves allows preserves the invariant.
LEMMA QuietMove ==
  ASSUME IInv, NEW h \in Actors, Quiet(h), Moves(h)
  PROVE  IInv'
<1> USE DEF IInv
<1>0. job \in [Actors -> Job] /\ sessions \subseteq Sessions
  BY DEF TypeOK
<1>1. TypeOK'
  <2>1. activePerUser' \in [Users -> Sessions \cup {None}]
    BY <1>0 DEF TypeOK, Quiet
  <2> QED BY <2>1 DEF TypeOK, Quiet, JobOnly, SesQuiet, Moves, Actors
<1>2. LockDiscipline'
  BY DEF TypeOK, Quiet, JobOnly, Moves, LockDiscipline, Actors
<1>3. Targets'
  <2> SUFFICES ASSUME NEW g \in Actors PROVE
    /\ job'[g].pc = "ready" => job'[g].target = None
    /\ job'[g].pc \notin {"ready", "reset_create"} => job'[g].target \in Sessions
    /\ job'[g].pc \in Closing => job'[g].target \in sessions'
    /\ job'[g].pc = "create_spawn" =>
         /\ job'[g].target \notin sessions'
         /\ ses'[job'[g].target].owner = UserOf[g]
         /\ \A k \in Actors \ {g} : job'[k].target # job'[g].target
    /\ job'[g].pc \in Switching => job'[g].oldMode \in Modes
    /\ g \in Cleaners => job'[g].pc \in Closing \cup {"ready"} /\ job'[g].plan # "reset"
    BY DEF Targets
  <2>1. CASE g = h
    BY <2>1 DEF Quiet, Moves
  <2>2. CASE g # h /\ job'[g].pc # "create_spawn"
    BY <2>2 DEF Quiet, JobOnly, Targets
  <2>3. CASE g # h /\ job'[g].pc = "create_spawn"
    <3>1. job'[g] = job[g] /\ job[g].target \in Sessions /\ job[g].target \notin sessions
      BY <2>3 DEF Quiet, JobOnly, Targets
    <3>2. \A k \in Actors \ {g} : job'[k].target # job'[g].target
      BY <2>3, <3>1 DEF Quiet, JobOnly, Targets, Moves
    <3> QED BY <2>3, <3>1, <3>2 DEF Quiet, JobOnly, SesQuiet, Targets, Closing, Switching
  <2> QED BY <2>1, <2>2, <2>3
<1>4. LoopTargets'
  BY DEF Quiet
<1>5. \A g \in Actors, s \in Sessions : Creating(g, s)' <=> Creating(g, s)
  BY DEF Quiet, JobOnly, Moves, Creating
<1>6. ConfigLifetime'
  BY <1>5 DEF Quiet, SesQuiet, ConfigLifetime
<1>7. ActivePointerLive'
  <2> SUFFICES ASSUME NEW u \in Users, activePerUser'[u] # None
               PROVE  activePerUser'[u] \in sessions /\ ses[activePerUser'[u]].owner = u
    BY <1>0 DEF Quiet, SesQuiet, ActivePointerLive
  <2> QED BY DEF Quiet, ActivePointerLive, TypeOK
<1>8. Isolation'
  <2> SUFFICES ASSUME NEW g \in Clients, job'[g].target # None
               PROVE  ses'[job'[g].target].owner = UserOf[g]
    BY DEF Isolation
  <2>1. job'[g].target \in Sessions
    BY <1>1 DEF TypeOK, Job, Actors
  <2>2. ses[job'[g].target].owner = UserOf[g]
    BY <2>1, <1>0 DEF Quiet, JobOnly, Moves, Isolation, Actors
  <2> QED BY <2>1, <2>2 DEF Quiet, SesQuiet
<1> QED BY <1>1, <1>2, <1>3, <1>4, <1>6, <1>7, <1>8

\* The assignments that come in pairs: _restart_proc_if_needed, create_session
\* and abort_session.
LEMMA SessionEditPairs ==
  ASSUME NEW rec \in ChatSession
  PROVE  /\ \A p \in Procs : Same([rec EXCEPT !.claudeProc = p, !.readTask = p], rec)
         /\ \A p \in Procs : Same([rec EXCEPT !.claudeProc = p, !.status = "idle"], rec)
         /\ Same([rec EXCEPT !.claudeProc = None, !.status = "idle"], rec)
<1>1. ASSUME NEW p \in Procs \cup {None}
      PROVE  Same([rec EXCEPT !.claudeProc = p, !.readTask = p], rec)
  <2> DEFINE r1 == [rec EXCEPT !.claudeProc = p]
             r2 == [r1 EXCEPT !.readTask = p]
  <2>1. Same(r1, rec)
    BY DEF ChatSession, Same
  <2>2. Same(r2, r1)
    BY <2>1 DEF ChatSession, Same
  <2>3. [rec EXCEPT !.claudeProc = p, !.readTask = p] = r2
    BY DEF ChatSession
  <2> QED BY <2>1, <2>2, <2>3 DEF Same
<1>2. ASSUME NEW p \in Procs \cup {None}
      PROVE  Same([rec EXCEPT !.claudeProc = p, !.status = "idle"], rec)
  <2> DEFINE r1 == [rec EXCEPT !.claudeProc = p]
             r2 == [r1 EXCEPT !.status = "idle"]
  <2>1. Same(r1, rec)
    BY DEF ChatSession, Same
  <2>2. Same(r2, r1)
    BY <2>1 DEF ChatSession, Same, Statuses
  <2>3. [rec EXCEPT !.claudeProc = p, !.status = "idle"] = r2
    BY DEF ChatSession
  <2> QED BY <2>1, <2>2, <2>3 DEF Same
<1> QED BY <1>1, <1>2

\* terminate() and kill() keep the processes well typed.
LEMMA SignalTyped ==
  ASSUME procs \in [Procs -> Process], NEW p, Signal(p)
  PROVE  procs' \in [Procs -> Process]
BY DEF Signal, Process

\* The read loops are well typed.
RdQuiet == rd' \in [Procs -> ReadLoop] /\ LoopTargets'

\* task.cancel() keeps the read loops well typed, and their sessions.
LEMMA CancelTyped ==
  ASSUME rd \in [Procs -> ReadLoop], LoopTargets, NEW t, Cancel(t)
  PROVE  RdQuiet
<1>1. ASSUME NEW q \in Procs
      PROVE  /\ [rd[q] EXCEPT !.cancel = TRUE] \in ReadLoop
             /\ [rd[q] EXCEPT !.cancel = TRUE].st = rd[q].st
             /\ [rd[q] EXCEPT !.cancel = TRUE].session = rd[q].session
  BY DEF ReadLoop
<1>2. rd' \in [Procs -> ReadLoop]
  BY <1>1 DEF Cancel
<1>3. \A q \in Procs : rd'[q].st = rd[q].st /\ rd'[q].session = rd[q].session
  BY <1>1 DEF Cancel
<1> QED BY <1>2, <1>3 DEF RdQuiet, LoopTargets

\* Untouched read loops stay well typed.
LEMMA RdKept ==
  ASSUME rd \in [Procs -> ReadLoop], LoopTargets, UNCHANGED rd
  PROVE  RdQuiet
BY DEF RdQuiet, LoopTargets

\* create_task(_read_loop(session)) starts a read loop of a session.
LEMMA StartTyped ==
  ASSUME rd \in [Procs -> ReadLoop], LoopTargets, NEW p, NEW s \in Sessions,
         rd' = [rd EXCEPT ![p] = [NoLoop EXCEPT !.st = "scheduled", !.session = s]]
  PROVE  RdQuiet
<1>1. [NoLoop EXCEPT !.st = "scheduled", !.session = s] \in ReadLoop
  BY DEF NoLoop, ReadLoop
<1>2. [NoLoop EXCEPT !.st = "scheduled", !.session = s].session = s
  BY DEF NoLoop
<1> QED BY <1>1, <1>2 DEF RdQuiet, LoopTargets

-----------------------------------------------------------------------------
(* The requests *)

\* send_message, its check under the lock.
LEMMA SendCheckPreserves ==
  ASSUME IInv, NEW h \in Clients, NEW s \in Sessions,
         NEW w \in {"text", "local", "switch", "reset"}, SendCheck(h, s, w)
  PROVE  IInv'
<1> DEFINE r == [Ready EXCEPT !.target = s, !.plan = w,
                   !.pc = IF ses[s].claudeProc = None THEN "send_spawn" ELSE "dispatch"]
<1>1. r \in Job /\ r.target = s /\ r.pc \in {"send_spawn", "dispatch"}
  BY DEF Ready, Job, PCs, Plans
<1>2. JobOnly(h) /\ job'[h] = r
  BY <1>1, JobEdit DEF SendCheck, IInv, TypeOK, Actors
<1>3. Quiet(h)
  BY <1>2, SesKept, RdKept DEF SendCheck, Quiet, RdQuiet, IInv, TypeOK
<1>4. Moves(h)
  BY <1>1, <1>2 DEF SendCheck, Moves, Owns, LockFree, At, Closing, Critical, Switching, Actors
<1> QED BY <1>3, <1>4, QuietMove DEF Actors

\* abort_session up to its first await.
LEMMA AbortBeginPreserves ==
  ASSUME IInv, NEW h \in Clients, NEW s \in Sessions, AbortBegin(h, s)
  PROVE  IInv'
<1> DEFINE p == ses[s].claudeProc
           t == ses[s].readTask
           r == IF Done(t) THEN [Ready EXCEPT !.target = s, !.proc = p, !.pc = "abort_wait"]
                ELSE [Ready EXCEPT !.target = s, !.proc = p, !.pc = "abort_reader", !.task = t]
<1>1. p \in Procs \cup {None} /\ t \in Procs \cup {None}
  BY DEF IInv, TypeOK, ChatSession
<1>2. r \in Job /\ r.target = s /\ r.pc \in {"abort_wait", "abort_reader"}
  BY <1>1 DEF Ready, Job, PCs, Plans
<1>3. job' = [job EXCEPT ![h] = r]
  BY DEF AbortBegin, Ready
<1>4. JobOnly(h) /\ job'[h] = r
  BY <1>2, <1>3, JobEdit DEF IInv, TypeOK, Actors
<1>5. RdQuiet
  BY CancelTyped, RdKept DEF AbortBegin, IInv, TypeOK
<1>6. procs' \in [Procs -> Process]
  BY SignalTyped DEF AbortBegin, IInv, TypeOK
<1>7. Quiet(h)
  BY <1>4, <1>5, <1>6, SesKept DEF AbortBegin, Quiet, RdQuiet, IInv, TypeOK
<1>8. Moves(h)
  BY <1>2, <1>4 DEF AbortBegin, Moves, Owns, LockFree, At, Closing, Critical, Switching, Actors
<1> QED BY <1>7, <1>8, QuietMove DEF Actors

\* set_mode, from _restart_proc_if_needed on: it returns, or keeps the lock.
LEMMA ModeRestartMoves ==
  ASSUME IInv, NEW h \in Actors, NEW s \in Sessions, NEW old \in Modes, NEW rec,
         Same(rec, ses[s]), ModeRestart(h, s, old, rec)
  PROVE  /\ SesQuiet /\ JobOnly(h)
         /\ \/ job'[h] = Ready /\ lock' = None
            \/ job'[h].pc = "mode_spawn" /\ job'[h].target = s /\ job'[h].oldMode = old /\ lock' = h
<1> DEFINE r == [Ready EXCEPT !.pc = "mode_spawn", !.target = s, !.oldMode = old]
<1>1. r \in Job /\ r.pc = "mode_spawn" /\ r.target = s /\ r.oldMode = old
  BY DEF Ready, Job, PCs, Plans
<1>2. SesQuiet
  BY SesEdit DEF ModeRestart, IInv, TypeOK
<1>3. CASE job' = [job EXCEPT ![h] = r] /\ lock' = h
  BY <1>1, <1>2, <1>3, JobEdit DEF IInv, TypeOK
<1>4. CASE job' = [job EXCEPT ![h] = Ready] /\ lock' = None
  BY <1>2, <1>4, JobEdit, ReadyTyped DEF IInv, TypeOK
<1> QED BY <1>3, <1>4 DEF ModeRestart, Return

\* set_mode, after the exit of the old process: it returns, or keeps the lock.
LEMMA ModeAwaitReaderMoves ==
  ASSUME IInv, NEW h \in Actors, NEW s \in Sessions, NEW old \in Modes, NEW rec,
         Same(rec, ses[s]), ModeAwaitReader(h, s, old, rec)
  PROVE  /\ SesQuiet /\ JobOnly(h)
         /\ \/ job'[h] = Ready /\ lock' = None
            \/ /\ job'[h].pc \in {"mode_spawn", "mode_reader"}
               /\ job'[h].target = s /\ job'[h].oldMode = old /\ lock' = h
<1> DEFINE r == [Ready EXCEPT !.pc = "mode_reader", !.target = s, !.task = rec.readTask,
                              !.oldMode = old]
<1>1. CASE Done(rec.readTask)
  <2>1. Same([rec EXCEPT !.readTask = None], ses[s])
    BY SameCleared
  <2> QED BY <1>1, <2>1, ModeRestartMoves DEF ModeAwaitReader
<1>2. CASE ~Done(rec.readTask)
  <2>1. rec.readTask \in Procs \cup {None}
    BY DEF Same, ChatSession
  <2>2. r \in Job /\ r.pc = "mode_reader" /\ r.target = s /\ r.oldMode = old
    BY <2>1 DEF Ready, Job, PCs, Plans
  <2>3. SesQuiet
    BY <1>2, SesEdit DEF ModeAwaitReader, IInv, TypeOK
  <2> QED BY <1>2, <2>2, <2>3, JobEdit DEF ModeAwaitReader, IInv, TypeOK
<1> QED BY <1>1, <1>2

\* set_mode up to its first await.
LEMMA ModeBeginPreserves ==
  ASSUME IInv, NEW h \in Clients, NEW s \in Sessions, NEW m \in Modes, ModeBegin(h, s, m)
  PROVE  IInv'
<1> DEFINE p   == ses[s].claudeProc
           old == ses[s].mode
           rec == [ses[s] EXCEPT !.mode = m]
           r   == [Ready EXCEPT !.pc = "mode_wait", !.target = s, !.proc = p, !.oldMode = old]
<1>1. ses[s] \in ChatSession /\ p \in Procs \cup {None} /\ old \in Modes /\ h \in Actors
  BY DEF IInv, TypeOK, ChatSession, Actors
<1>2. Same(rec, ses[s]) /\ Same([rec EXCEPT !.claudeProc = None], ses[s])
  <2>1. Same(rec, ses[s])
    BY <1>1, SessionEdits
  <2> HIDE DEF rec
  <2> QED BY <2>1, SameCleared
<1>3. procs' \in [Procs -> Process]
  BY SignalTyped DEF ModeBegin, IInv, TypeOK
<1>4. /\ SesQuiet /\ JobOnly(h)
      /\ \/ job'[h] = Ready /\ lock' = None
         \/ /\ job'[h].pc \in {"mode_wait", "mode_spawn", "mode_reader"}
            /\ job'[h].target = s /\ job'[h].oldMode = old /\ lock' = h
  <2>1. CASE ModeRestart(h, s, old, rec)
    BY <1>1, <1>2, <2>1, ModeRestartMoves
  <2>2. CASE ModeAwaitReader(h, s, old, [rec EXCEPT !.claudeProc = None])
    BY <1>1, <1>2, <2>2, ModeAwaitReaderMoves
  <2>3. CASE ses' = [ses EXCEPT ![s] = rec] /\ job' = [job EXCEPT ![h] = r] /\ lock' = h
    <3>1. r \in Job /\ r.pc = "mode_wait" /\ r.target = s /\ r.oldMode = old
      BY <1>1 DEF Ready, Job, PCs, Plans
    <3>2. SesQuiet
      BY <1>2, <2>3, SesEdit DEF IInv, TypeOK
    <3> QED BY <1>1, <2>3, <3>1, <3>2, JobEdit DEF IInv, TypeOK
  <2> QED BY <2>1, <2>2, <2>3 DEF ModeBegin
<1>5. Quiet(h)
  BY <1>3, <1>4, RdKept DEF ModeBegin, Quiet, RdQuiet, IInv, TypeOK
<1>6. Moves(h)
  BY <1>1, <1>4 DEF ModeBegin, Moves, Owns, LockFree, At, Closing, Critical, Switching, Actors, Ready
<1> QED BY <1>1, <1>5, <1>6, QuietMove

\* set_mode, resumed by the exit of the process.
LEMMA ModeProcGonePreserves ==
  ASSUME IInv, NEW h \in Actors, ModeProcGone(h)
  PROVE  IInv'
<1> DEFINE s == job[h].target
<1>1. s \in Sessions /\ job[h].oldMode \in Modes /\ h \notin Cleaners
  BY DEF ModeProcGone, At, IInv, Targets, Closing, Switching
<1>2. Same([ses[s] EXCEPT !.claudeProc = None], ses[s])
  BY <1>1, SessionEdits DEF IInv, TypeOK
<1>3. /\ SesQuiet /\ JobOnly(h)
      /\ \/ job'[h] = Ready /\ lock' = None
         \/ /\ job'[h].pc \in {"mode_spawn", "mode_reader"}
            /\ job'[h].target = s /\ job'[h].oldMode = job[h].oldMode /\ lock' = h
  BY <1>1, <1>2, ModeAwaitReaderMoves DEF ModeProcGone
<1>4. Quiet(h)
  BY <1>3, RdKept DEF ModeProcGone, Quiet, RdQuiet, IInv, TypeOK
<1>5. lock = h
  BY DEF ModeProcGone, At, IInv, LockDiscipline, Critical
<1>6. Moves(h)
  BY <1>1, <1>3, <1>5 DEF ModeProcGone, Moves, At, Closing, Critical, Switching, Ready
<1> QED BY <1>4, <1>6, QuietMove

\* set_mode, resumed by the end of the read loop.
LEMMA ModeReaderDonePreserves ==
  ASSUME IInv, NEW h \in Actors, ModeReaderDone(h) \/ ModeReaderTimedOut(h)
  PROVE  IInv'
<1> DEFINE s == job[h].target
<1>1. s \in Sessions /\ job[h].oldMode \in Modes /\ h \notin Cleaners
  BY DEF ModeReaderDone, ModeReaderTimedOut, At, IInv, Targets, Closing, Switching
<1>2. Same([ses[s] EXCEPT !.readTask = None], ses[s])
  BY <1>1, SessionEdits DEF IInv, TypeOK
<1>3. /\ SesQuiet /\ JobOnly(h)
      /\ \/ job'[h] = Ready /\ lock' = None
         \/ /\ job'[h].pc = "mode_spawn"
            /\ job'[h].target = s /\ job'[h].oldMode = job[h].oldMode /\ lock' = h
  BY <1>1, <1>2, ModeRestartMoves DEF ModeReaderDone, ModeReaderTimedOut
<1>4. RdQuiet
  BY RdKept, CancelTyped DEF ModeReaderDone, ModeReaderTimedOut, IInv, TypeOK
<1>5. Quiet(h)
  BY <1>3, <1>4 DEF ModeReaderDone, ModeReaderTimedOut, Quiet, RdQuiet, IInv, TypeOK
<1>6. lock = h
  BY DEF ModeReaderDone, ModeReaderTimedOut, At, IInv, LockDiscipline, Critical
<1>7. Moves(h)
  BY <1>1, <1>3, <1>6 DEF ModeReaderDone, ModeReaderTimedOut, Moves, At, Closing, Critical, Switching, Ready
<1> QED BY <1>5, <1>7, QuietMove

\* A step that moves no request, and leaves the registration of sessions alone,
\* preserves the invariant.
LEMMA QuietEnvironment ==
  ASSUME IInv, UNCHANGED <<sessions, activePerUser, lock, job>>, SesQuiet, RdQuiet,
         procs' \in [Procs -> Process], expired' \subseteq Sessions
  PROVE  IInv'
<1> USE DEF IInv
<1>1. TypeOK'
  BY DEF TypeOK, SesQuiet, RdQuiet
<1>2. LockDiscipline'
  BY DEF LockDiscipline
<1>3. Targets'
  BY DEF Targets, SesQuiet, Closing, Switching
<1>4. LoopTargets'
  BY DEF RdQuiet
<1>5. ConfigLifetime'
  BY DEF ConfigLifetime, SesQuiet, Creating
<1>6. ActivePointerLive'
  BY DEF ActivePointerLive, SesQuiet, TypeOK
<1>7. Isolation'
  <2> SUFFICES ASSUME NEW g \in Clients, job[g].target # None
               PROVE  ses'[job[g].target].owner = UserOf[g]
    BY DEF Isolation
  <2>1. job[g].target \in Sessions
    BY DEF TypeOK, Job, Actors
  <2> QED BY <2>1 DEF Isolation, SesQuiet
<1> QED BY <1>1, <1>2, <1>3, <1>4, <1>5, <1>6, <1>7

\* A request that ends gives the lock up if it had it.
LEMMA ReturnMoves ==
  ASSUME IInv, NEW h \in Actors, Return(h), job[h].pc # "create_spawn",
         lock' = IF lock = h THEN None ELSE lock
  PROVE  JobOnly(h) /\ Moves(h)
<1>1. JobOnly(h) /\ job'[h] = Ready
  BY JobEdit, ReadyTyped DEF Return, IInv, TypeOK
<1> QED BY <1>1 DEF Moves, Ready, Closing, Critical, Switching

\* A request that goes on keeps its session.
LEMMA GoesOn ==
  ASSUME IInv, NEW h \in Actors, NEW pc \in PCs, job' = [job EXCEPT ![h].pc = pc]
  PROVE  /\ JobOnly(h) /\ job'[h].pc = pc /\ job'[h].target = job[h].target
         /\ job'[h].oldMode = job[h].oldMode
<1> DEFINE r == [job[h] EXCEPT !.pc = pc]
<1>1. r \in Job /\ r.pc = pc /\ r.target = job[h].target /\ r.oldMode = job[h].oldMode
  BY DEF IInv, TypeOK, Job
<1>2. job' = [job EXCEPT ![h] = r]
  OBVIOUS
<1> QED BY <1>1, <1>2, JobEdit DEF IInv, TypeOK

\* _restart_proc_if_needed: the new process and read loop of a session.
LEMMA RestartTyped ==
  ASSUME IInv, NEW s \in Sessions, NEW p \in Procs, Restart(s, p)
  PROVE  SesQuiet /\ RdQuiet /\ procs' \in [Procs -> Process]
<1>1. SesQuiet
  <2>1. Same([ses[s] EXCEPT !.claudeProc = p, !.readTask = p], ses[s])
    BY SessionEditPairs DEF IInv, TypeOK
  <2> QED BY <2>1, SesEdit DEF Restart, IInv, TypeOK
<1>2. RdQuiet
  BY StartTyped DEF Restart, IInv, TypeOK
<1>3. procs' \in [Procs -> Process]
  BY DEF Restart, IInv, TypeOK, Process
<1> QED BY <1>1, <1>2, <1>3

\* send_message, resumed with a new process.
LEMMA SendRestartedPreserves ==
  ASSUME IInv, NEW h \in Actors, NEW p \in Procs, SendRestarted(h, p)
  PROVE  IInv'
<1>1. job[h].target \in Sessions /\ h \notin Cleaners
  BY DEF SendRestarted, At, IInv, Targets, Closing, Switching
<1>2. "dispatch" \in PCs
  BY DEF PCs
<1>3. /\ JobOnly(h) /\ job'[h].pc = "dispatch" /\ job'[h].target = job[h].target
      /\ job'[h].oldMode = job[h].oldMode
  BY <1>2, GoesOn DEF SendRestarted
<1>4. Quiet(h)
  BY <1>1, <1>3, RestartTyped DEF SendRestarted, Quiet, RdQuiet, IInv, TypeOK
<1>5. lock # h
  BY DEF SendRestarted, At, IInv, LockDiscipline, Critical
<1>6. Moves(h)
  BY <1>1, <1>3, <1>5 DEF SendRestarted, Moves, At, Closing, Critical, Switching
<1> QED BY <1>4, <1>6, QuietMove

\* set_mode, resumed with a new process.
LEMMA ModeSpawnedPreserves ==
  ASSUME IInv, NEW h \in Actors, NEW p \in Procs, ModeSpawned(h, p)
  PROVE  IInv'
<1>1. job[h].target \in Sessions /\ lock = h
  BY DEF ModeSpawned, At, IInv, Targets, LockDiscipline, Critical
<1>2. JobOnly(h) /\ Moves(h)
  BY <1>1, ReturnMoves DEF ModeSpawned, At
<1>3. Quiet(h)
  BY <1>1, <1>2, RestartTyped DEF ModeSpawned, Quiet, RdQuiet, IInv, TypeOK
<1> QED BY <1>2, <1>3, QuietMove

\* set_mode takes the mode back when the process does not start.
LEMMA ModeSpawnFailedPreserves ==
  ASSUME IInv, NEW h \in Actors, ModeSpawnFailed(h)
  PROVE  IInv'
<1> DEFINE s == job[h].target
<1>1. s \in Sessions /\ job[h].oldMode \in Modes /\ lock = h
  BY DEF ModeSpawnFailed, At, IInv, Targets, LockDiscipline, Critical, Switching
<1>2. JobOnly(h) /\ Moves(h)
  BY <1>1, ReturnMoves DEF ModeSpawnFailed, At
<1>3. SesQuiet
  <2>1. Same([ses[s] EXCEPT !.mode = job[h].oldMode], ses[s])
    BY <1>1, SessionEdits DEF IInv, TypeOK
  <2> QED BY <2>1, SesEdit DEF ModeSpawnFailed, IInv, TypeOK
<1>4. Quiet(h)
  BY <1>2, <1>3, RdKept DEF ModeSpawnFailed, Quiet, RdQuiet, IInv, TypeOK
<1> QED BY <1>2, <1>4, QuietMove

\* set_mode cancels a read loop that takes too long.
LEMMA ModeReaderTimeoutPreserves ==
  ASSUME IInv, NEW h \in Actors, ModeReaderTimeout(h)
  PROVE  IInv'
<1>1. job[h].target \in Sessions /\ job[h].oldMode \in Modes /\ h \notin Cleaners /\ lock = h
  BY DEF ModeReaderTimeout, At, IInv, Targets, LockDiscipline, Critical, Closing, Switching
<1>2. "mode_cancel" \in PCs
  BY DEF PCs
<1>3. /\ JobOnly(h) /\ job'[h].pc = "mode_cancel" /\ job'[h].target = job[h].target
      /\ job'[h].oldMode = job[h].oldMode
  BY <1>2, GoesOn DEF ModeReaderTimeout
<1>4. Quiet(h)
  BY <1>3, CancelTyped, SesKept DEF ModeReaderTimeout, Quiet, RdQuiet, IInv, TypeOK
<1>5. Moves(h)
  BY <1>1, <1>3 DEF ModeReaderTimeout, Moves, At, Closing, Critical, Switching, Switching
<1> QED BY <1>4, <1>5, QuietMove

\* set_mode dies with the CancelledError of its read loop.
LEMMA ModeReaderCancelledPreserves ==
  ASSUME IInv, NEW h \in Actors, ModeReaderCancelled(h)
  PROVE  IInv'
<1>1. lock = h
  BY DEF ModeReaderCancelled, At, IInv, LockDiscipline, Critical
<1>2. JobOnly(h) /\ Moves(h)
  BY <1>1, ReturnMoves DEF ModeReaderCancelled, At
<1>3. Quiet(h)
  BY <1>2, SesKept, RdKept DEF ModeReaderCancelled, Quiet, RdQuiet, IInv, TypeOK
<1> QED BY <1>2, <1>3, QuietMove

\* A request that ends outside the critical sections and changes no session.
LEMMA PlainReturn ==
  ASSUME IInv, NEW h \in Actors, Return(h), job[h].pc \notin Critical,
         UNCHANGED <<sessions, ses, activePerUser, lock, procs, rd, expired>>
  PROVE  IInv'
<1>1. lock # h /\ job[h].pc # "create_spawn"
  BY DEF IInv, LockDiscipline, Critical
<1>2. JobOnly(h) /\ Moves(h)
  BY <1>1, ReturnMoves
<1>3. Quiet(h)
  BY <1>2, SesKept, RdKept DEF Quiet, RdQuiet, IInv, TypeOK
<1> QED BY <1>2, <1>3, QuietMove

\* send_message fails when the process does not start.
LEMMA SendRestartFailedPreserves ==
  ASSUME IInv, NEW h \in Actors, SendRestartFailed(h) PROVE IInv'
BY PlainReturn DEF SendRestartFailed, At, Critical

\* _handle_local_command, the commands that only read.
LEMMA LocalCommandPreserves ==
  ASSUME IInv, NEW h \in Actors, LocalCommand(h) PROVE IInv'
BY PlainReturn DEF LocalCommand, At, Critical

\* reset_session fails when the config file cannot be written.
LEMMA ResetCreateFailedPreserves ==
  ASSUME IInv, NEW h \in Actors, ResetCreateFailed(h) PROVE IInv'
BY PlainReturn DEF ResetCreateFailed, At, Critical

\* switch_session points at a registered session of the user.
LEMMA SwitchActivePreserves ==
  ASSUME IInv, NEW h \in Clients, NEW t \in Sessions, SwitchActive(h, t)
  PROVE  IInv'
<1>1. lock = None /\ None # h /\ job[h].pc # "create_spawn" /\ h \in Actors
  BY DEF SwitchActive, LockFree, At, Actors
<1>2. JobOnly(h) /\ Moves(h)
  BY <1>1, ReturnMoves DEF SwitchActive
<1>3. Quiet(h)
  BY <1>2, SesKept, RdKept DEF SwitchActive, Owns, Quiet, RdQuiet, IInv, TypeOK
<1> QED BY <1>1, <1>2, <1>3, QuietMove

\* _send_user_message up to its first await.
LEMMA SendRecordPreserves ==
  ASSUME IInv, NEW h \in Clients, SendRecord(h)
  PROVE  IInv'
<1>1. job[h].target \in Sessions /\ lock = None /\ h \notin Cleaners /\ h \in Actors
  BY DEF SendRecord, LockFree, At, IInv, Targets, Actors
<1>2. "send_write" \in PCs
  BY DEF PCs
<1>3. /\ JobOnly(h) /\ job'[h].pc = "send_write" /\ job'[h].target = job[h].target
  BY <1>1, <1>2, GoesOn DEF SendRecord
<1>4. SesQuiet
  <2>1. Same(Record(ses[job[h].target]), ses[job[h].target])
    BY <1>1, SessionEdits DEF IInv, TypeOK
  <2> QED BY <2>1, SesEdit DEF SendRecord, IInv, TypeOK
<1>5. Quiet(h)
  BY <1>3, <1>4, RdKept DEF SendRecord, Quiet, RdQuiet, IInv, TypeOK
<1>6. Moves(h)
  BY <1>1, <1>3 DEF SendRecord, Moves, At, Closing, Critical, Switching
<1> QED BY <1>1, <1>5, <1>6, QuietMove

\* _write_to_stdin, at the end of _send_user_message.
LEMMA SendWritePreserves ==
  ASSUME IInv, NEW h \in Actors, SendWrite(h)
  PROVE  IInv'
<1> DEFINE s == job[h].target
           p == ses[s].claudeProc
<1>1. s \in Sessions /\ lock = h
  BY DEF SendWrite, At, IInv, Targets, LockDiscipline, Critical
<1>2. JobOnly(h) /\ Moves(h)
  BY <1>1, ReturnMoves DEF SendWrite, At
<1>3. SesQuiet /\ procs' \in [Procs -> Process]
  <2>1. CASE UNCHANGED <<ses, procs>>
    BY <2>1, SesKept DEF IInv, TypeOK
  <2>2. CASE procs' = [procs EXCEPT ![p].inbox = @ + 1] /\ UNCHANGED ses
    <3>1. \A q \in Procs : [procs[q] EXCEPT !.inbox = @ + 1] \in Process
      BY DEF IInv, TypeOK, Process
    <3>2. procs' \in [Procs -> Process]
      BY <2>2, <3>1 DEF IInv, TypeOK
    <3> QED BY <2>2, <3>2, SesKept DEF IInv, TypeOK
  <2>3. CASE ses' = [ses EXCEPT ![s] = Push(@, "error")] /\ UNCHANGED procs
    <3>1. Same(Push(ses[s], "error"), ses[s])
      BY <1>1, SessionEdits DEF IInv, TypeOK, Events
    <3> QED BY <2>3, <3>1, SesEdit DEF IInv, TypeOK
  <2> QED BY <2>1, <2>2, <2>3 DEF SendWrite, WriteToStdin
<1>4. Quiet(h)
  BY <1>2, <1>3, RdKept DEF SendWrite, Quiet, RdQuiet, IInv, TypeOK
<1> QED BY <1>2, <1>4, QuietMove

\* abort_session, resumed by the end of the read loop.
LEMMA AbortReaderDonePreserves ==
  ASSUME IInv, NEW h \in Actors, AbortReaderDone(h)
  PROVE  IInv'
<1>1. job[h].target \in Sessions /\ h \notin Cleaners /\ lock # h
  BY DEF AbortReaderDone, At, IInv, Targets, LockDiscipline, Critical, Closing, Switching
<1>2. "abort_wait" \in PCs
  BY DEF PCs
<1>3. /\ JobOnly(h) /\ job'[h].pc = "abort_wait" /\ job'[h].target = job[h].target
  BY <1>2, GoesOn DEF AbortReaderDone
<1>4. SesQuiet
  <2>1. Same([ses[job[h].target] EXCEPT !.readTask = None], ses[job[h].target])
    BY <1>1, SessionEdits DEF IInv, TypeOK
  <2> QED BY <2>1, SesEdit DEF AbortReaderDone, IInv, TypeOK
<1>5. procs' \in [Procs -> Process]
  BY SignalTyped DEF AbortReaderDone, IInv, TypeOK
<1>6. Quiet(h)
  BY <1>3, <1>4, <1>5, RdKept DEF AbortReaderDone, Quiet, RdQuiet, IInv, TypeOK
<1>7. Moves(h)
  BY <1>1, <1>3 DEF AbortReaderDone, Moves, At, Closing, Critical, Switching
<1> QED BY <1>6, <1>7, QuietMove

\* abort_session, resumed by the exit of the process.
LEMMA AbortFinishPreserves ==
  ASSUME IInv, NEW h \in Actors, AbortFinish(h)
  PROVE  IInv'
<1> DEFINE s == job[h].target
<1>1. s \in Sessions /\ lock # h
  BY DEF AbortFinish, At, IInv, Targets, LockDiscipline, Critical
<1>2. JobOnly(h) /\ Moves(h)
  BY <1>1, ReturnMoves DEF AbortFinish, At
<1>3. SesQuiet
  <2>1. Same([ses[s] EXCEPT !.claudeProc = None, !.status = "idle"], ses[s])
    BY <1>1, SessionEditPairs DEF IInv, TypeOK
  <2>2. ASSUME NEW q, Same(q, ses[s]) PROVE Same(Push(q, "aborted"), ses[s])
    BY <2>2, SessionEdits DEF Same, Events
  <2>3. Same(Push([ses[s] EXCEPT !.claudeProc = None, !.status = "idle"], "aborted"), ses[s])
    BY <2>1, <2>2
  <2> QED BY <2>3, SesEdit DEF AbortFinish, IInv, TypeOK
<1>4. Quiet(h)
  BY <1>2, <1>3, RdKept DEF AbortFinish, Quiet, RdQuiet, IInv, TypeOK
<1> QED BY <1>2, <1>4, QuietMove

\* _close_session_internal after the read loop: the closing request goes on, with
\* its session.
LEMMA CloseKillMoves ==
  ASSUME IInv, NEW h \in Actors, NEW s \in Sessions, NEW w \in Plans, NEW rec,
         Same(rec, ses[s]), CloseKill(h, s, w, rec)
  PROVE  /\ SesQuiet /\ JobOnly(h) /\ procs' \in [Procs -> Process]
         /\ job'[h].pc \in {"close_drop", "close_wait"} /\ job'[h].target = s
         /\ job'[h].plan = w
<1> DEFINE p == rec.claudeProc
           r == IF p = None THEN [Ready EXCEPT !.target = s, !.plan = w, !.pc = "close_drop"]
                ELSE [Ready EXCEPT !.target = s, !.plan = w, !.pc = "close_wait", !.proc = p]
<1>1. p \in Procs \cup {None}
  BY DEF Same, ChatSession
<1>2. r \in Job /\ r.pc \in {"close_drop", "close_wait"} /\ r.target = s /\ r.plan = w
  BY <1>1 DEF Ready, Job, PCs
<1>3. job' = [job EXCEPT ![h] = r]
  BY DEF CloseKill, Ready
<1>4. JobOnly(h) /\ job'[h] = r
  BY <1>2, <1>3, JobEdit DEF IInv, TypeOK
<1>5. SesQuiet
  <2>1. Same(Announce(rec), ses[s])
    BY SessionEdits DEF Same
  <2> QED BY <2>1, SesEdit DEF CloseKill, IInv, TypeOK
<1>6. procs' \in [Procs -> Process]
  BY SignalTyped DEF CloseKill, IInv, TypeOK
<1> QED BY <1>2, <1>4, <1>5, <1>6

\* _close_session_internal up to its first await, for a request that may close
\* the session.
LEMMA CloseBeginPreserves ==
  ASSUME IInv, NEW h \in Actors, NEW s \in Sessions, NEW w \in Plans, CloseBegin(h, s, w),
         job[h].pc \notin Critical, h \in Clients => Owns(h, s), expired' \subseteq Sessions,
         h \in Cleaners => w # "reset"
  PROVE  IInv'
<1> DEFINE t   == ses[s].readTask
           rec == [ses[s] EXCEPT !.status = "closed"]
           r   == [Ready EXCEPT !.pc = "close_reader", !.target = s, !.plan = w, !.task = t]
<1>1. ses[s] \in ChatSession /\ t \in Procs \cup {None} /\ "closed" \in Statuses
  BY DEF IInv, TypeOK, ChatSession, Statuses
<1>2. Same(rec, ses[s])
  BY <1>1, SessionEdits
<1>3. /\ SesQuiet /\ JobOnly(h) /\ procs' \in [Procs -> Process]
      /\ job'[h].pc \in Closing /\ job'[h].target = s /\ job'[h].plan = w
  <2>1. CASE CloseKill(h, s, w, rec)
    BY <1>2, <2>1, CloseKillMoves DEF Closing, Switching
  <2>2. CASE ses' = [ses EXCEPT ![s] = rec] /\ job' = [job EXCEPT ![h] = r] /\ UNCHANGED procs
    <3>1. r \in Job /\ r.pc = "close_reader" /\ r.target = s /\ r.plan = w
      BY <1>1 DEF Ready, Job, PCs
    <3>2. SesQuiet
      BY <1>2, <2>2, SesEdit DEF IInv, TypeOK
    <3> QED BY <2>2, <3>1, <3>2, JobEdit DEF IInv, TypeOK, Closing, Switching
  <2> QED BY <2>1, <2>2 DEF CloseBegin
<1>4. RdQuiet
  BY CancelTyped, RdKept DEF CloseBegin, IInv, TypeOK
<1>5. Quiet(h)
  BY <1>3, <1>4 DEF CloseBegin, Quiet, RdQuiet
<1>6. Moves(h)
  BY <1>3 DEF CloseBegin, LockFree, Owns, Moves, Closing, Critical, Switching
<1> QED BY <1>5, <1>6, QuietMove

\* close_session.
LEMMA ClosePreserves ==
  ASSUME IInv, NEW h \in Clients, NEW s \in Sessions, Close(h, s)
  PROVE  IInv'
BY CloseBeginPreserves DEF Close, At, Critical, Plans, Actors, IInv, TypeOK

\* reset_session, which closes the session if it is the user's.
LEMMA ResetPreserves ==
  ASSUME IInv, NEW h \in Clients, NEW s \in Sessions, Reset(h, s)
  PROVE  IInv'
<1>1. job[h].pc \in {"ready", "dispatch"} /\ h \in Actors /\ h \notin Cleaners
  BY DEF Reset, At, Actors
<1>2. CASE Owns(h, s)
  BY <1>1, <1>2, CloseBeginPreserves DEF Reset, Critical, Plans, IInv, TypeOK
<1>3. CASE ~Owns(h, s)
  <2>1. [Ready EXCEPT !.pc = "reset_create"] \in Job
    BY DEF Ready, Job, PCs, Plans
  <2>2. [Ready EXCEPT !.pc = "reset_create"].pc = "reset_create"
        /\ [Ready EXCEPT !.pc = "reset_create"].target = None
    BY DEF Ready
  <2>3. JobOnly(h) /\ job'[h].pc = "reset_create" /\ job'[h].target = None
    BY <1>1, <1>3, <2>1, <2>2, JobEdit DEF Reset, IInv, TypeOK
  <2>4. Quiet(h)
    BY <1>3, <2>3, SesKept, RdKept DEF Reset, Quiet, RdQuiet, IInv, TypeOK
  <2>5. Moves(h)
    BY <1>1, <1>3, <2>3 DEF Reset, LockFree, Moves, Closing, Critical, Switching
  <2> QED BY <1>1, <2>4, <2>5, QuietMove
<1> QED BY <1>2, <1>3

\* _close_session_internal, resumed by the end of the read loop.
LEMMA CloseReaderDonePreserves ==
  ASSUME IInv, NEW h \in Actors, CloseReaderDone(h)
  PROVE  IInv'
<1> DEFINE s == job[h].target
<1>1. s \in sessions /\ s \in Sessions /\ lock = h /\ job[h].plan \in Plans
      /\ (h \in Cleaners => job[h].plan # "reset")
  BY DEF CloseReaderDone, At, IInv, Targets, LockDiscipline, Critical, Closing, Switching, TypeOK, Job
<1>2. Same([ses[s] EXCEPT !.readTask = None], ses[s])
  BY <1>1, SessionEdits DEF IInv, TypeOK
<1>3. /\ SesQuiet /\ JobOnly(h) /\ procs' \in [Procs -> Process]
      /\ job'[h].pc \in {"close_drop", "close_wait"} /\ job'[h].target = s
      /\ job'[h].plan = job[h].plan
  BY <1>1, <1>2, CloseKillMoves DEF CloseReaderDone
<1>4. Quiet(h)
  BY <1>3, RdKept DEF CloseReaderDone, Quiet, RdQuiet, IInv, TypeOK
<1>5. Moves(h)
  BY <1>1, <1>3 DEF CloseReaderDone, At, Moves, Closing, Critical, Switching
<1> QED BY <1>4, <1>5, QuietMove

\* _close_session_internal, resumed by the exit of the process.
LEMMA CloseProcGonePreserves ==
  ASSUME IInv, NEW h \in Actors, CloseProcGone(h)
  PROVE  IInv'
<1> DEFINE s == job[h].target
           r == [job[h] EXCEPT !.pc = "close_drop", !.proc = None]
<1>1. s \in sessions /\ s \in Sessions /\ lock = h /\ job[h] \in Job
      /\ (h \in Cleaners => job[h].plan # "reset")
  BY DEF CloseProcGone, At, IInv, Targets, LockDiscipline, Critical, Closing, Switching, TypeOK
<1>2. r \in Job /\ r.pc = "close_drop" /\ r.target = s /\ r.plan = job[h].plan
  <2> DEFINE r1 == [job[h] EXCEPT !.pc = "close_drop"]
             r2 == [r1 EXCEPT !.proc = None]
  <2>1. r1 \in Job /\ r1.pc = "close_drop" /\ r1.target = s /\ r1.plan = job[h].plan
    BY <1>1 DEF Job, PCs
  <2>2. r2 \in Job /\ r2.pc = "close_drop" /\ r2.target = s /\ r2.plan = job[h].plan
    BY <2>1 DEF Job
  <2>3. r = r2
    BY <1>1 DEF Job
  <2> QED BY <2>2, <2>3
<1>3. JobOnly(h) /\ job'[h] = r
  BY <1>2, JobEdit DEF CloseProcGone, IInv, TypeOK
<1>4. SesQuiet
  <2>1. Same([ses[s] EXCEPT !.claudeProc = None], ses[s])
    BY <1>1, SessionEdits DEF IInv, TypeOK
  <2>2. ASSUME NEW q, Same(q, ses[s]) PROVE Same(Announce(q), ses[s])
    BY <2>2, SessionEdits DEF Same
  <2>3. Same(Announce([ses[s] EXCEPT !.claudeProc = None]), ses[s])
    BY <2>1, <2>2
  <2> QED BY <2>3, SesEdit DEF CloseProcGone, IInv, TypeOK
<1>5. Quiet(h)
  BY <1>3, <1>4, RdKept DEF CloseProcGone, Quiet, RdQuiet, IInv, TypeOK
<1>6. Moves(h)
  BY <1>1, <1>2, <1>3 DEF CloseProcGone, At, Moves, Closing, Critical, Switching
<1> QED BY <1>5, <1>6, QuietMove

\* _cleanup_loop, whose closes never reset.
LEMMA CleanupPreserves ==
  ASSUME IInv, NEW c \in Cleaners, Cleanup(c)
  PROVE  IInv'
<1>1. c \in Actors /\ c \notin Clients
  BY DEF Actors
<1>2. CASE CleanupSnapshot(c)
  BY <1>2, QuietEnvironment, SesKept, RdKept DEF CleanupSnapshot, IInv, TypeOK
<1>3. ASSUME NEW s \in Sessions, CleanupClose(c, s) PROVE IInv'
  <2>1. CASE s \in sessions
    BY <1>1, <1>3, <2>1, CloseBeginPreserves DEF CleanupClose, At, Critical, Plans, IInv, TypeOK
  <2>2. CASE s \notin sessions
    BY <1>3, <2>2, QuietEnvironment, SesKept, RdKept DEF CleanupClose, IInv, TypeOK
  <2> QED BY <2>1, <2>2
<1> QED BY <1>2, <1>3 DEF Cleanup

\* Two hours pass for one session.
LEMMA ExpirePreserves ==
  ASSUME IInv, NEW s \in Sessions, Expire(s)
  PROVE  IInv'
<1>1. Same([ses[s] EXCEPT !.stale = TRUE], ses[s])
  BY SessionEdits DEF IInv, TypeOK
<1>2. SesQuiet
  BY <1>1, SesEdit DEF Expire, IInv, TypeOK
<1> QED BY <1>2, QuietEnvironment, RdKept DEF Expire, IInv, TypeOK

-----------------------------------------------------------------------------
(* The read loops and the processes *)

\* A read loop that ends keeps its session.
LEMMA OverTyped ==
  ASSUME IInv, NEW p \in Procs, rd[p].st # "none"
  PROVE  /\ Over(p) \in ReadLoop /\ Over(p).session = rd[p].session
         /\ [Over(p) EXCEPT !.cancel = TRUE] \in ReadLoop
         /\ [Over(p) EXCEPT !.cancel = TRUE].session = rd[p].session
         /\ rd[p].session \in Sessions
BY DEF IInv, TypeOK, LoopTargets, Over, NoLoop, ReadLoop

\* An edit of one read loop that keeps its session.
LEMMA LoopEdit ==
  ASSUME IInv, NEW p \in Procs, NEW r \in ReadLoop, rd[p].st # "none",
         r.session = rd[p].session, rd' = [rd EXCEPT ![p] = r]
  PROVE  RdQuiet
BY DEF IInv, TypeOK, LoopTargets, RdQuiet

\* _read_loop, its first step.
LEMMA ReaderStartPreserves ==
  ASSUME IInv, NEW p \in Procs, ReaderStart(p)
  PROVE  IInv'
<1> DEFINE b == ses[rd[p].session].claudeProc
           r == [rd[p] EXCEPT !.st = "reading", !.bound = b]
<1>1. rd[p].st # "none" /\ rd[p].session \in Sessions /\ rd[p] \in ReadLoop
  BY DEF ReaderStart, IInv, LoopTargets, TypeOK
<1>2. b \in Procs \cup {None}
  BY <1>1 DEF IInv, TypeOK, ChatSession
<1>3. r \in ReadLoop /\ r.session = rd[p].session
  <2> DEFINE r1 == [rd[p] EXCEPT !.st = "reading"]
             r2 == [r1 EXCEPT !.bound = b]
  <2>1. r1 \in ReadLoop /\ r1.session = rd[p].session
    BY <1>1 DEF ReadLoop
  <2>2. r2 \in ReadLoop /\ r2.session = rd[p].session
    BY <1>2, <2>1 DEF ReadLoop
  <2>3. r = r2
    BY <1>1 DEF ReadLoop
  <2> QED BY <2>2, <2>3
<1>4. RdQuiet
  <2>1. CASE rd' = [rd EXCEPT ![p] = r]
    BY <1>1, <1>3, <2>1, LoopEdit
  <2>2. CASE rd' = [rd EXCEPT ![p] = Over(p)]
    BY <1>1, <2>2, OverTyped, LoopEdit
  <2> QED BY <2>1, <2>2 DEF ReaderStart
<1> QED BY <1>4, QuietEnvironment, SesKept DEF ReaderStart, IInv, TypeOK

\* _read_loop, cancelled before it ran or inside its finally clause.
LEMMA ReaderDroppedPreserves ==
  ASSUME IInv, NEW p \in Procs, ReaderDropped(p)
  PROVE  IInv'
<1>1. RdQuiet
  BY OverTyped, LoopEdit DEF ReaderDropped
<1> QED BY <1>1, QuietEnvironment, SesKept DEF ReaderDropped, IInv, TypeOK

\* _read_loop, its last assignment.
LEMMA ReaderClosedPreserves ==
  ASSUME IInv, NEW p \in Procs, ReaderClosed(p)
  PROVE  IInv'
<1>1. RdQuiet /\ rd[p].session \in Sessions
  BY OverTyped, LoopEdit DEF ReaderClosed
<1>2. Same([ses[rd[p].session] EXCEPT !.status = "closed"], ses[rd[p].session])
  BY <1>1, SessionEdits DEF IInv, TypeOK, Statuses
<1>3. SesQuiet
  BY <1>1, <1>2, SesEdit DEF ReaderClosed, IInv, TypeOK
<1> QED BY <1>1, <1>3, QuietEnvironment DEF ReaderClosed, IInv, TypeOK

\* _read_loop, its finally clause up to the await.
LEMMA ReaderFinallyPreserves ==
  ASSUME IInv, NEW p \in Procs, NEW rec, rd[p].st # "none",
         Same(rec, ses[rd[p].session]), ReaderFinally(p, rec)
  PROVE  IInv'
<1> DEFINE s == rd[p].session
           r == [rd[p] EXCEPT !.st = "closing", !.cancel = FALSE]
<1>1. s \in Sessions /\ rd[p] \in ReadLoop
  BY OverTyped DEF IInv, TypeOK
<1>2. r \in ReadLoop /\ r.session = rd[p].session
  <2> DEFINE r1 == [rd[p] EXCEPT !.st = "closing"]
             r2 == [r1 EXCEPT !.cancel = FALSE]
  <2>1. r1 \in ReadLoop /\ r1.session = rd[p].session
    BY <1>1 DEF ReadLoop
  <2>2. r2 \in ReadLoop /\ r2.session = rd[p].session
    BY <2>1 DEF ReadLoop
  <2>3. r = r2
    BY <1>1 DEF ReadLoop
  <2> QED BY <2>2, <2>3
<1>3. RdQuiet
  <2>1. CASE rd' = [rd EXCEPT ![p] = r]
    BY <1>2, <2>1, LoopEdit
  <2>2. CASE rd' = [rd EXCEPT ![p] = Over(p)]
    BY <2>2, OverTyped, LoopEdit
  <2> QED BY <2>1, <2>2 DEF ReaderFinally
<1>4. SesQuiet
  <2>1. Same(Announce(rec), ses[s])
    BY SessionEdits DEF Same
  <2> QED BY <1>1, <2>1, SesEdit DEF ReaderFinally, IInv, TypeOK
<1> QED BY <1>3, <1>4, QuietEnvironment DEF ReaderFinally, IInv, TypeOK

\* _read_loop, the three ways into the finally clause.
LEMMA ReaderEndsPreserves ==
  ASSUME IInv, NEW p \in Procs, ReaderCancelled(p) \/ ReaderEof(p) \/ ReaderError(p)
  PROVE  IInv'
<1> DEFINE s == rd[p].session
<1>1. rd[p].st # "none" /\ s \in Sessions
  BY DEF ReaderCancelled, ReaderEof, ReaderError, IInv, LoopTargets
<1>2. Same(ses[s], ses[s]) /\ Same(Push(ses[s], "error"), ses[s])
  BY <1>1, SessionEdits DEF IInv, TypeOK, Events
<1> QED BY <1>1, <1>2, ReaderFinallyPreserves DEF ReaderCancelled, ReaderEof, ReaderError

\* _read_loop goes on with its session.
LEMMA LoopStatus ==
  ASSUME IInv, NEW p \in Procs, NEW x \in {"reading", "storing"}, rd[p].st # "none",
         rd' = [rd EXCEPT ![p].st = x]
  PROVE  RdQuiet
<1> DEFINE r == [rd[p] EXCEPT !.st = x]
<1>1. r \in ReadLoop /\ r.session = rd[p].session
  BY DEF IInv, TypeOK, ReadLoop
<1>2. rd' = [rd EXCEPT ![p] = r]
  OBVIOUS
<1> QED BY <1>1, <1>2, LoopEdit

\* _read_loop reads a result.
LEMMA ReaderResultPreserves ==
  ASSUME IInv, NEW p \in Procs, ReaderResult(p)
  PROVE  IInv'
<1> DEFINE b == rd[p].bound
<1>1. RdQuiet
  BY LoopStatus DEF ReaderResult
<1>2. procs' \in [Procs -> Process]
  <2>1. ASSUME b \in Procs PROVE [procs[b] EXCEPT !.inbox = @ - 1] \in Process
    BY <2>1 DEF ReaderResult, Answers, IInv, TypeOK, Process
  <2> QED BY <2>1 DEF ReaderResult, IInv, TypeOK
<1> QED BY <1>1, <1>2, QuietEnvironment, SesKept DEF ReaderResult, IInv, TypeOK

\* _read_loop, resumed when the result is stored.
LEMMA ReaderResultStoredPreserves ==
  ASSUME IInv, NEW p \in Procs, ReaderResultStored(p)
  PROVE  IInv'
<1> DEFINE s == rd[p].session
<1>1. RdQuiet
  BY LoopStatus DEF ReaderResultStored
<1>2. s \in Sessions
  BY DEF ReaderResultStored, IInv, LoopTargets
<1>3. Same([ses[s] EXCEPT !.status = "idle"], ses[s])
  BY <1>2, SessionEdits DEF IInv, TypeOK, Statuses
<1>4. ASSUME NEW q, Same(q, ses[s]) PROVE Same(Push(q, "result"), ses[s])
  BY <1>4, SessionEdits DEF Same, Events
<1>5. SesQuiet
  BY <1>3, <1>4, SesEdit DEF ReaderResultStored, IInv, TypeOK
<1> QED BY <1>1, <1>5, QuietEnvironment DEF ReaderResultStored, IInv, TypeOK

\* A Claude process exits.
LEMMA ProcExitPreserves ==
  ASSUME IInv, NEW p \in Procs, ProcExit(p)
  PROVE  IInv'
<1>1. [procs[p] EXCEPT !.st = "exited"] \in Process
  BY DEF IInv, TypeOK, Process
<1>2. procs' \in [Procs -> Process]
  BY <1>1 DEF ProcExit, IInv, TypeOK
<1> QED BY <1>2, QuietEnvironment, SesKept, RdKept DEF ProcExit, IInv, TypeOK

-----------------------------------------------------------------------------
(* The steps that create, discard, register and unregister a session *)

\* create_session up to its first await: the new session id is not registered,
\* and no request works on it.
LEMMA CreateBeginPreserves ==
  ASSUME IInv, NEW h \in Clients, NEW s \in Sessions, NEW m \in Modes, NEW w \in {"none", "prompt"},
         CreateBegin(h, s, m, w), job[h].pc \in {"ready", "reset_create"}
  PROVE  IInv'
<1> USE DEF IInv
<1> DEFINE rec == [Unborn EXCEPT !.owner = UserOf[h], !.mode = m, !.config = TRUE]
           r   == [Ready EXCEPT !.pc = "create_spawn", !.target = s, !.plan = w]
<1>1. /\ h \in Actors /\ h \notin Cleaners /\ UserOf[h] \in Users
      /\ lock = None /\ None \notin Actors /\ s # None
  BY DEF CreateBegin, LockFree, Actors
<1>2. rec \in ChatSession /\ rec.owner = UserOf[h] /\ rec.config = TRUE
  BY <1>1 DEF Unborn, ChatSession, Statuses, Events
<1>3. ses[s].owner = None /\ ses[s].config = FALSE
  BY DEF CreateBegin, Unborn
<1>4. s \notin sessions
  BY <1>3 DEF ConfigLifetime
<1>5. \A g \in Actors : job[g].target # s
  <2>1. ASSUME NEW g \in Clients PROVE job[g].target # s
    BY <1>1, <1>3 DEF Isolation
  <2>2. ASSUME NEW g \in Cleaners PROVE job[g].target # s
    BY <1>1, <1>4 DEF Targets, Actors
  <2> QED BY <2>1, <2>2 DEF Actors
<1>6. r \in Job /\ r.pc = "create_spawn" /\ r.target = s
  BY DEF Ready, Job, PCs, Plans
<1>7. JobOnly(h) /\ job'[h] = r
  BY <1>1, <1>6, JobEdit DEF CreateBegin, TypeOK
<1>8. /\ ses' \in [Sessions -> ChatSession] /\ ses'[s] = rec
      /\ \A t \in Sessions \ {s} : ses'[t] = ses[t]
  BY <1>2 DEF CreateBegin, TypeOK
<1>9. UNCHANGED <<sessions, activePerUser, procs, rd, expired>> /\ lock' = h
  BY DEF CreateBegin
<1>10. TypeOK'
  BY <1>1, <1>7, <1>8, <1>9 DEF TypeOK, JobOnly
<1>11. LockDiscipline'
  BY <1>1, <1>6, <1>7, <1>9 DEF JobOnly, LockDiscipline, Critical
<1>12. Targets'
  <2> SUFFICES ASSUME NEW g \in Actors PROVE
    /\ job'[g].pc = "ready" => job'[g].target = None
    /\ job'[g].pc \notin {"ready", "reset_create"} => job'[g].target \in Sessions
    /\ job'[g].pc \in Closing => job'[g].target \in sessions
    /\ job'[g].pc = "create_spawn" =>
         /\ job'[g].target \notin sessions
         /\ ses'[job'[g].target].owner = UserOf[g]
         /\ \A k \in Actors \ {g} : job'[k].target # job'[g].target
    /\ job'[g].pc \in Switching => job'[g].oldMode \in Modes
    /\ g \in Cleaners => job'[g].pc \in Closing \cup {"ready"} /\ job'[g].plan # "reset"
    BY <1>9 DEF Targets
  <2>1. CASE g = h
    <3>1. job'[h].pc = "create_spawn" /\ job'[h].target = s /\ ses'[s].owner = UserOf[h]
      BY <1>2, <1>6, <1>7, <1>8
    <3>2. \A k \in Actors \ {h} : job'[k].target # s
      BY <1>5, <1>7 DEF JobOnly
    <3> QED BY <2>1, <3>1, <3>2, <1>1, <1>4 DEF Closing, Switching
  <2>2. CASE g # h
    <3>1. job'[g] = job[g] /\ job[g].pc # "create_spawn"
      BY <2>2, <1>1, <1>7 DEF JobOnly, LockDiscipline, Critical
    <3> QED BY <3>1 DEF Targets
  <2> QED BY <2>1, <2>2
<1>13. LoopTargets'
  BY <1>9 DEF LoopTargets
<1>14. ConfigLifetime'
  <2> SUFFICES ASSUME NEW t \in Sessions
               PROVE  ses'[t].config <=> t \in sessions \/ \E g \in Actors : Creating(g, t)'
    BY <1>9 DEF ConfigLifetime
  <2>1. CASE t = s
    <3>1. ses'[t].config
      BY <1>2, <1>8, <2>1
    <3>2. Creating(h, t)'
      BY <1>6, <1>7, <2>1 DEF Creating
    <3> QED BY <1>1, <3>1, <3>2
  <2>2. CASE t # s
    <3>1. \A g \in Actors : Creating(g, t)' <=> Creating(g, t)
      BY <2>2, <1>6, <1>7 DEF Creating, JobOnly, CreateBegin
    <3> QED BY <2>2, <3>1, <1>8 DEF ConfigLifetime
  <2> QED BY <2>1, <2>2
<1>15. ActivePointerLive'
  BY <1>4, <1>8, <1>9 DEF ActivePointerLive, TypeOK
<1>16. Isolation'
  <2> SUFFICES ASSUME NEW g \in Clients, job'[g].target # None
               PROVE  ses'[job'[g].target].owner = UserOf[g]
    BY DEF Isolation
  <2>1. CASE g = h
    <3>1. job'[h].target = s /\ ses'[s].owner = UserOf[h]
      BY <1>2, <1>6, <1>7, <1>8
    <3> QED BY <2>1, <3>1
  <2>2. CASE g # h
    <3>1. job'[g] = job[g] /\ job[g].target # s /\ job[g].target \in Sessions
      BY <2>2, <1>5, <1>7 DEF JobOnly, Actors, TypeOK, Job
    <3> QED BY <3>1, <1>8 DEF Isolation
  <2> QED BY <2>1, <2>2
<1> QED BY <1>10, <1>11, <1>12, <1>13, <1>14, <1>15, <1>16

\* A request inside a critical section holds the lock, so no other one is inside
\* one.
LEMMA Alone ==
  ASSUME IInv, NEW h \in Actors, job[h].pc \in Critical
  PROVE  lock = h /\ \A g \in Actors \ {h} : job[g].pc \notin Critical
BY DEF IInv, LockDiscipline

\* create_session registers the session and points the user at it.
LEMMA CreateSpawnedPreserves ==
  ASSUME IInv, NEW h \in Actors, NEW p \in Procs, CreateSpawned(h, p)
  PROVE  IInv'
<1> USE DEF IInv
<1> DEFINE s   == job[h].target
           rec == [ses[s] EXCEPT !.claudeProc = p, !.status = "idle"]
           r   == [job[h] EXCEPT !.pc = "create_store", !.proc = p]
<1>1. /\ job[h].pc = "create_spawn" /\ s \in Sessions /\ s \notin sessions
      /\ ses[s].owner = UserOf[h] /\ \A g \in Actors \ {h} : job[g].target # s
      /\ h \in Clients /\ UserOf[h] \in Users
  BY DEF CreateSpawned, At, Targets, Closing, Switching, Actors
<1>2. lock = h /\ \A g \in Actors \ {h} : job[g].pc \notin Critical
  BY <1>1, Alone DEF Critical
<1>3. Same(rec, ses[s])
  BY <1>1, SessionEditPairs DEF TypeOK
<1>4. SesQuiet
  BY <1>3, SesEdit DEF CreateSpawned, TypeOK
<1>5. r \in Job /\ r.pc = "create_store" /\ r.target = s
  <2> DEFINE r1 == [job[h] EXCEPT !.pc = "create_store"]
             r2 == [r1 EXCEPT !.proc = p]
  <2>1. r1 \in Job /\ r1.pc = "create_store" /\ r1.target = s
    <3>1. "create_store" \in PCs
      BY DEF PCs
    <3> QED BY <3>1 DEF Job, TypeOK
  <2>2. r2 \in Job /\ r2.pc = "create_store" /\ r2.target = s
    BY <2>1 DEF Job
  <2>3. r = r2
    BY DEF Job, TypeOK
  <2> QED BY <2>2, <2>3
<1>6. JobOnly(h) /\ job'[h] = r
  BY <1>5, JobEdit DEF CreateSpawned, TypeOK
<1>7. /\ sessions' = sessions \cup {s} /\ UNCHANGED <<lock, rd, expired>>
      /\ activePerUser' = [activePerUser EXCEPT ![UserOf[h]] = s]
  BY DEF CreateSpawned
<1>8. TypeOK'
  <2>1. procs' \in [Procs -> Process]
    BY DEF CreateSpawned, TypeOK, Process
  <2>2. activePerUser' \in [Users -> Sessions \cup {None}]
    BY <1>1, <1>7 DEF TypeOK
  <2> QED BY <2>1, <2>2, <1>1, <1>4, <1>6, <1>7 DEF TypeOK, JobOnly, SesQuiet
<1>9. LockDiscipline'
  BY <1>2, <1>5, <1>6, <1>7 DEF JobOnly, LockDiscipline, Critical
<1>10. Targets'
  <2> SUFFICES ASSUME NEW g \in Actors PROVE
    /\ job'[g].pc = "ready" => job'[g].target = None
    /\ job'[g].pc \notin {"ready", "reset_create"} => job'[g].target \in Sessions
    /\ job'[g].pc \in Closing => job'[g].target \in sessions'
    /\ job'[g].pc # "create_spawn"
    /\ job'[g].pc \in Switching => job'[g].oldMode \in Modes
    /\ g \in Cleaners => job'[g].pc \in Closing \cup {"ready"} /\ job'[g].plan # "reset"
    BY DEF Targets
  <2>1. CASE g = h
    <3>1. job'[g].pc = "create_store" /\ job'[g].target = s
      BY <2>1, <1>5, <1>6
    <3> QED BY <2>1, <3>1, <1>1 DEF Closing, Switching
  <2>2. CASE g # h
    <3>1. job'[g] = job[g] /\ job[g].pc # "create_spawn"
      BY <2>2, <1>2, <1>6 DEF JobOnly, Critical
    <3> QED BY <3>1, <1>7 DEF Targets
  <2> QED BY <2>1, <2>2
<1>11. LoopTargets'
  BY <1>7 DEF LoopTargets
<1>12. ConfigLifetime'
  <2> SUFFICES ASSUME NEW t \in Sessions
               PROVE  ses'[t].config <=> t \in sessions' \/ \E g \in Actors : Creating(g, t)'
    BY DEF ConfigLifetime
  <2>1. \A g \in Actors : ~Creating(g, t)'
    BY <1>2, <1>5, <1>6 DEF JobOnly, Creating, Critical
  <2>2. CASE t = s
    <3>1. ses[s].config
      BY <1>1 DEF ConfigLifetime, Creating
    <3> QED BY <2>2, <3>1, <1>1, <1>4, <1>7 DEF SesQuiet
  <2>3. CASE t # s
    <3>1. \A g \in Actors : ~Creating(g, t)
      BY <2>3, <1>2 DEF Creating, Critical
    <3> QED BY <2>1, <2>3, <3>1, <1>4, <1>7 DEF SesQuiet, ConfigLifetime
  <2> QED BY <2>2, <2>3
<1>13. ActivePointerLive'
  <2> SUFFICES ASSUME NEW u \in Users, activePerUser'[u] # None
               PROVE  activePerUser'[u] \in sessions' /\ ses'[activePerUser'[u]].owner = u
    BY DEF ActivePointerLive
  <2>1. CASE u = UserOf[h]
    BY <2>1, <1>1, <1>4, <1>7 DEF SesQuiet, TypeOK
  <2>2. CASE u # UserOf[h]
    BY <2>2, <1>4, <1>7 DEF SesQuiet, TypeOK, ActivePointerLive
  <2> QED BY <2>1, <2>2
<1>14. Isolation'
  <2> SUFFICES ASSUME NEW g \in Clients, job'[g].target # None
               PROVE  ses'[job'[g].target].owner = UserOf[g]
    BY DEF Isolation
  <2>1. job'[g].target = job[g].target
    BY <1>5, <1>6 DEF JobOnly, Actors
  <2>2. job[g].target \in Sessions
    BY <2>1 DEF TypeOK, Job, Actors
  <2>3. ses[job[g].target].owner = UserOf[g]
    BY <2>1 DEF Isolation
  <2>4. ses'[job[g].target].owner = ses[job[g].target].owner
    BY <2>2, <1>4 DEF SesQuiet
  <2> QED BY <2>1, <2>3, <2>4
<1> QED BY <1>8, <1>9, <1>10, <1>11, <1>12, <1>13, <1>14

\* create_session removes the config file when the process does not start.
LEMMA CreateSpawnFailedPreserves ==
  ASSUME IInv, NEW h \in Actors, CreateSpawnFailed(h)
  PROVE  IInv'
<1> USE DEF IInv
<1> DEFINE s == job[h].target
<1>1. /\ job[h].pc = "create_spawn" /\ s \in Sessions /\ s \notin sessions
      /\ \A g \in Actors \ {h} : job[g].target # s
      /\ h \in Clients /\ s # None
  BY DEF CreateSpawnFailed, At, Targets, Closing, Switching, Actors
<1>2. lock = h /\ \A g \in Actors \ {h} : job[g].pc \notin Critical
  BY <1>1, Alone DEF Critical
<1>3. Unborn.config = FALSE
  BY DEF Unborn
<1>4. /\ ses' \in [Sessions -> ChatSession] /\ ses'[s].config = FALSE
      /\ \A t \in Sessions \ {s} : ses'[t] = ses[t]
  BY <1>1, <1>3, UnbornTyped DEF CreateSpawnFailed, Discard, TypeOK
<1>5. JobOnly(h) /\ job'[h] = Ready
  BY JobEdit, ReadyTyped DEF CreateSpawnFailed, Return, TypeOK
<1>6. job'[h].pc = "ready" /\ job'[h].target = None
  BY <1>5 DEF Ready
<1>7. UNCHANGED <<sessions, activePerUser, procs, rd, expired>> /\ lock' = None
  BY DEF CreateSpawnFailed
<1>8. TypeOK'
  BY <1>4, <1>5, <1>7 DEF TypeOK, JobOnly
<1>9. LockDiscipline'
  BY <1>2, <1>6, <1>5, <1>7 DEF JobOnly, LockDiscipline, Critical
<1>10. Targets'
  <2> SUFFICES ASSUME NEW g \in Actors PROVE
    /\ job'[g].pc = "ready" => job'[g].target = None
    /\ job'[g].pc \notin {"ready", "reset_create"} => job'[g].target \in Sessions
    /\ job'[g].pc \in Closing => job'[g].target \in sessions'
    /\ job'[g].pc # "create_spawn"
    /\ job'[g].pc \in Switching => job'[g].oldMode \in Modes
    /\ g \in Cleaners => job'[g].pc \in Closing \cup {"ready"} /\ job'[g].plan # "reset"
    BY DEF Targets
  <2>1. CASE g = h
    BY <2>1, <1>1, <1>6 DEF Closing, Switching
  <2>2. CASE g # h
    <3>1. job'[g] = job[g] /\ job[g].pc # "create_spawn"
      BY <2>2, <1>2, <1>5 DEF JobOnly, Critical
    <3> QED BY <3>1, <1>7 DEF Targets
  <2> QED BY <2>1, <2>2
<1>11. LoopTargets'
  BY <1>7 DEF LoopTargets
<1>12. ConfigLifetime'
  <2> SUFFICES ASSUME NEW t \in Sessions
               PROVE  ses'[t].config <=> t \in sessions' \/ \E g \in Actors : Creating(g, t)'
    BY DEF ConfigLifetime
  <2>1. \A g \in Actors : ~Creating(g, t)'
    BY <1>2, <1>5, <1>6 DEF JobOnly, Creating, Critical
  <2>2. CASE t = s
    BY <2>1, <2>2, <1>1, <1>4, <1>7
  <2>3. CASE t # s
    <3>1. \A g \in Actors : ~Creating(g, t)
      BY <2>3, <1>2 DEF Creating, Critical
    <3> QED BY <2>1, <2>3, <3>1, <1>4, <1>7 DEF ConfigLifetime
  <2> QED BY <2>2, <2>3
<1>13. ActivePointerLive'
  BY <1>1, <1>4, <1>7 DEF ActivePointerLive, TypeOK
<1>14. Isolation'
  <2> SUFFICES ASSUME NEW g \in Clients, job'[g].target # None
               PROVE  ses'[job'[g].target].owner = UserOf[g]
    BY DEF Isolation
  <2>1. job'[g] = job[g] /\ job[g].target # s /\ job[g].target \in Sessions
    BY <1>1, <1>5, <1>6 DEF JobOnly, Actors, TypeOK, Job
  <2> QED BY <2>1, <1>4 DEF Isolation
<1> QED BY <1>8, <1>9, <1>10, <1>11, <1>12, <1>13, <1>14

\* create_session, its end.
LEMMA CreateStoredPreserves ==
  ASSUME IInv, NEW h \in Actors, CreateStored(h)
  PROVE  IInv'
<1> DEFINE s   == job[h].target
           p   == job[h].proc
           rec == [ses[s] EXCEPT !.readTask = p]
<1>1. /\ job[h].pc = "create_store" /\ s \in Sessions /\ h \notin Cleaners
      /\ p \in Procs \cup {None}
  BY DEF CreateStored, At, IInv, Targets, Closing, Switching, TypeOK, Job
<1>2. lock = h
  BY <1>1, Alone DEF Critical
<1>3. Same(rec, ses[s])
  BY <1>1, SessionEdits DEF IInv, TypeOK
<1>4. Same(Record(rec), ses[s])
  <2>1. ASSUME NEW q, Same(q, ses[s]) PROVE Same(Record(q), ses[s])
    BY <2>1, SessionEdits DEF Same
  <2> QED BY <1>3, <2>1
<1>5. SesQuiet
  BY <1>3, <1>4, SesEdit DEF CreateStored, IInv, TypeOK
<1>6. RdQuiet
  BY <1>1, StartTyped DEF CreateStored, IInv, TypeOK
<1>7. JobOnly(h) /\ Moves(h)
  <2>1. CASE job' = [job EXCEPT ![h].pc = "send_write"] /\ lock' = lock
    <3>1. "send_write" \in PCs
      BY DEF PCs
    <3>2. JobOnly(h) /\ job'[h].pc = "send_write" /\ job'[h].target = s
      BY <2>1, <3>1, GoesOn
    <3> QED BY <2>1, <3>2, <1>1, <1>2 DEF Moves, Closing, Critical, Switching
  <2>2. CASE Return(h) /\ lock' = None
    BY <2>2, <1>1, <1>2, ReturnMoves
  <2> QED BY <2>1, <2>2 DEF CreateStored
<1>8. Quiet(h)
  BY <1>5, <1>6, <1>7 DEF CreateStored, Quiet, RdQuiet, IInv, TypeOK
<1> QED BY <1>7, <1>8, QuietMove

\* _close_session_internal removes the config file, the session and the pointer.
LEMMA CloseDropPreserves ==
  ASSUME IInv, NEW h \in Actors, CloseDrop(h)
  PROVE  IInv'
<1> USE DEF IInv
<1> DEFINE s == job[h].target
           r == IF job[h].plan = "reset" THEN [Ready EXCEPT !.pc = "reset_create", !.target = s]
                ELSE Ready
<1>1. job[h].pc = "close_drop" /\ s \in Sessions /\ s \in sessions
      /\ (h \in Cleaners => job[h].plan # "reset")
  BY DEF CloseDrop, At, Targets, Closing, Switching
<1>2. lock = h /\ \A g \in Actors \ {h} : job[g].pc \notin Critical
  BY <1>1, Alone DEF Critical
<1>3. /\ ses' \in [Sessions -> ChatSession] /\ ses'[s].config = FALSE
      /\ \A t \in Sessions : ses'[t].owner = ses[t].owner
      /\ \A t \in Sessions \ {s} : ses'[t] = ses[t]
  <2>1. ASSUME NEW q \in ChatSession
        PROVE  /\ [q EXCEPT !.config = FALSE] \in ChatSession
               /\ [q EXCEPT !.config = FALSE].config = FALSE
               /\ [q EXCEPT !.config = FALSE].owner = q.owner
    BY DEF ChatSession
  <2> QED BY <1>1, <2>1 DEF CloseDrop, TypeOK
<1>4. r \in Job /\ r.pc \in {"ready", "reset_create"} /\ (r.pc = "ready" => r.target = None)
      /\ r.target \in {None, s} /\ r.plan # "reset" /\ (h \in Cleaners => r.pc = "ready")
  <2>1. CASE job[h].plan = "reset"
    <3>1. [Ready EXCEPT !.pc = "reset_create", !.target = s] \in Job
      BY <1>1 DEF Ready, Job, PCs, Plans
    <3> QED BY <1>1, <2>1, <3>1 DEF Ready
  <2>2. CASE job[h].plan # "reset"
    BY <2>2, ReadyTyped DEF Ready
  <2> QED BY <2>1, <2>2
<1>5. JobOnly(h) /\ job'[h] = r
  BY <1>4, JobEdit DEF CloseDrop, TypeOK
<1>6. /\ job'[h].pc \in {"ready", "reset_create"} /\ (job'[h].pc = "ready" => job'[h].target = None)
      /\ job'[h].target \in {None, s} /\ (h \in Cleaners => job'[h].pc = "ready")
      /\ job'[h].plan # "reset"
  BY <1>4, <1>5
<1>7. /\ sessions' = sessions \ {s} /\ lock' = None /\ UNCHANGED <<procs, rd, expired>>
      /\ activePerUser' = [activePerUser EXCEPT ![ses[s].owner] = IF @ = s THEN None ELSE @]
  BY DEF CloseDrop, ClearPointer
<1>8. TypeOK'
  <2>1. activePerUser' \in [Users -> Sessions \cup {None}]
    BY <1>7 DEF TypeOK
  <2> QED BY <2>1, <1>3, <1>5, <1>7 DEF TypeOK, JobOnly
<1>9. LockDiscipline'
  BY <1>2, <1>5, <1>6, <1>7 DEF JobOnly, LockDiscipline, Critical
<1>10. Targets'
  <2> SUFFICES ASSUME NEW g \in Actors PROVE
    /\ job'[g].pc = "ready" => job'[g].target = None
    /\ job'[g].pc \notin {"ready", "reset_create"} => job'[g].target \in Sessions
    /\ job'[g].pc \notin Closing /\ job'[g].pc # "create_spawn"
    /\ job'[g].pc \in Switching => job'[g].oldMode \in Modes
    /\ g \in Cleaners => job'[g].pc \in Closing \cup {"ready"} /\ job'[g].plan # "reset"
    BY DEF Targets
  <2>1. CASE g = h
    BY <2>1, <1>6 DEF Closing, Switching
  <2>2. CASE g # h
    <3>1. job'[g] = job[g] /\ job[g].pc # "create_spawn" /\ job[g].pc \notin Closing
      BY <2>2, <1>2, <1>5 DEF JobOnly, Critical, Closing, Switching
    <3> QED BY <3>1 DEF Targets
  <2> QED BY <2>1, <2>2
<1>11. LoopTargets'
  BY <1>7 DEF LoopTargets
<1>12. ConfigLifetime'
  <2> SUFFICES ASSUME NEW t \in Sessions
               PROVE  ses'[t].config <=> t \in sessions' \/ \E g \in Actors : Creating(g, t)'
    BY DEF ConfigLifetime
  <2>1. \A g \in Actors : ~Creating(g, t)'
    BY <1>2, <1>5, <1>6 DEF JobOnly, Creating, Critical
  <2>2. CASE t = s
    BY <2>1, <2>2, <1>3, <1>7
  <2>3. CASE t # s
    <3>1. \A g \in Actors : ~Creating(g, t)
      BY <1>1, <1>2 DEF Creating, Critical
    <3> QED BY <2>1, <2>3, <3>1, <1>3, <1>7 DEF ConfigLifetime
  <2> QED BY <2>2, <2>3
<1>13. ActivePointerLive'
  <2> SUFFICES ASSUME NEW u \in Users, activePerUser'[u] # None
               PROVE  activePerUser'[u] \in sessions' /\ ses'[activePerUser'[u]].owner = u
    BY DEF ActivePointerLive
  <2>1. activePerUser[u] # None /\ activePerUser'[u] = activePerUser[u]
    BY <1>7 DEF TypeOK
  <2>2. activePerUser[u] \in sessions /\ ses[activePerUser[u]].owner = u
    BY <2>1 DEF ActivePointerLive
  <2>3. activePerUser[u] # s
    BY <2>1, <2>2, <1>7 DEF TypeOK
  <2> QED BY <2>1, <2>2, <2>3, <1>3, <1>7 DEF TypeOK
<1>14. Isolation'
  <2> SUFFICES ASSUME NEW g \in Clients, job'[g].target # None
               PROVE  ses'[job'[g].target].owner = UserOf[g]
    BY DEF Isolation
  <2>1. job'[g].target = job[g].target /\ job[g].target \in Sessions
    BY <1>1, <1>5, <1>6 DEF JobOnly, Actors, TypeOK, Job
  <2> QED BY <2>1, <1>3 DEF Isolation
<1> QED BY <1>8, <1>9, <1>10, <1>11, <1>12, <1>13, <1>14

-----------------------------------------------------------------------------
(* The theorems *)

\* The invariant holds when the Bridge starts.
LEMMA InitIInv == Init => IInv
<1> SUFFICES ASSUME Init PROVE IInv
  OBVIOUS
<1>1. job = [h \in Actors |-> Ready] /\ ses = [s \in Sessions |-> Unborn] /\ sessions = {} /\ lock = None
  BY DEF Init
<1>2. Ready.pc = "ready" /\ Ready.target = None /\ Ready.plan = "none" /\ Unborn.config = FALSE
  BY DEF Ready, Unborn
<1>3. TypeOK
  <2>1. Unused \in Process
    BY DEF Unused, Process
  <2> QED BY <2>1, ReadyTyped, UnbornTyped, NoLoopTyped DEF Init, TypeOK
<1>4. LockDiscipline
  BY <1>1, <1>2 DEF LockDiscipline, Critical, Actors
<1>5. Targets
  BY <1>1, <1>2 DEF Targets, Closing, Switching
<1>6. LoopTargets
  BY DEF Init, LoopTargets, NoLoop
<1>7. ConfigLifetime
  BY <1>1, <1>2 DEF ConfigLifetime, Creating
<1>8. ActivePointerLive
  BY DEF Init, ActivePointerLive
<1>9. Isolation
  BY <1>1, <1>2 DEF Isolation, Actors
<1> QED BY <1>3, <1>4, <1>5, <1>6, <1>7, <1>8, <1>9 DEF IInv

\* Every step preserves the invariant.
LEMMA NextIInv == IInv /\ [Next]_vars => IInv'
<1> SUFFICES ASSUME IInv, [Next]_vars PROVE IInv'
  OBVIOUS
<1>1. ASSUME NEW h \in Clients, Request(h) PROVE IInv'
  <2>1. ASSUME NEW s \in Sessions, NEW m \in Modes, NEW w \in {"none", "prompt"}, Create(h, s, m, w)
        PROVE  IInv'
    BY <2>1, CreateBeginPreserves DEF Create, At
  <2> QED BY <1>1, <2>1, SendCheckPreserves, AbortBeginPreserves, ModeBeginPreserves, ClosePreserves,
             ResetPreserves DEF Request
<1>2. ASSUME NEW h \in Clients, ResumeLocked(h) PROVE IInv'
  <2>1. ASSUME NEW s \in Sessions, ResetCreate(h, s) PROVE IInv'
    BY <2>1, CreateBeginPreserves DEF ResetCreate, At
  <2>2. h \in Actors
    BY DEF Actors
  <2> QED BY <1>2, <2>1, <2>2, SendRecordPreserves, SwitchActivePreserves, ResetPreserves,
             ResetCreateFailedPreserves DEF ResumeLocked
<1>3. ASSUME NEW h \in Actors, Resume(h) PROVE IInv'
  BY <1>3, CreateSpawnedPreserves, CreateSpawnFailedPreserves, CreateStoredPreserves,
     SendRestartedPreserves, SendRestartFailedPreserves, LocalCommandPreserves, SendWritePreserves,
     AbortReaderDonePreserves, AbortFinishPreserves, ModeProcGonePreserves, ModeReaderCancelledPreserves,
     ModeReaderDonePreserves, ModeSpawnedPreserves, ModeSpawnFailedPreserves, CloseReaderDonePreserves,
     CloseProcGonePreserves, CloseDropPreserves DEF Resume
<1>4. ASSUME NEW p \in Procs, Reader(p) \/ Output(p) \/ ProcExit(p) PROVE IInv'
  BY <1>4, ReaderStartPreserves, ReaderDroppedPreserves, ReaderClosedPreserves, ReaderEndsPreserves,
     ReaderResultPreserves, ReaderResultStoredPreserves, ProcExitPreserves DEF Reader, Output
<1>5. CASE UNCHANGED vars
  BY <1>5, QuietEnvironment, SesKept, RdKept DEF vars, IInv, TypeOK
<1> QED BY <1>1, <1>2, <1>3, <1>4, <1>5, ModeReaderTimeoutPreserves, CleanupPreserves, ExpirePreserves
        DEF Next

\* IInv is an invariant of the session manager.
THEOREM Invariance == Spec => []IInv
BY InitIInv, NextIInv, PTL DEF Spec

\* The variables hold what TypeOK says: no step of the manager, however the
\* requests, read loops and the clean-up interleave, leaves a session, a request
\* or a read loop in a shape the code does not expect.
THEOREM Typing == Spec => []TypeOK
BY Invariance, PTL DEF IInv

\* The asyncio.Lock is held by exactly the request inside a critical section of
\* create_session, _send_user_message, set_mode or _close_session_internal, so
\* these never overlap.
THEOREM LockTheorem == Spec => []LockDiscipline
BY Invariance, PTL DEF IInv

\* The MCP config file of a session exists exactly while the session is
\* registered or being created.
THEOREM ConfigTheorem == Spec => []ConfigLifetime
BY Invariance, PTL DEF IInv

\* _active_per_user names a registered session of the user, or nothing.
THEOREM ActivePointerTheorem == Spec => []ActivePointerLive
BY Invariance, PTL DEF IInv

\* A request works on a session of its own user only, at every await, even if
\* the session is closed and dropped meanwhile.
THEOREM IsolationTheorem == Spec => []Isolation
BY Invariance, PTL DEF IInv

-----------------------------------------------------------------------------
(* What a request waits for *)

\* What was started, begun, signalled or about to end stays so.
Onward ==
  \A p \in Procs :
    /\ Started(p) => Started(p)'
    /\ Signalled(p) => Signalled(p)'
    /\ Begun(p) => Begun(p)'
    /\ Ending(p) => Ending(p)'

\* A read loop begins with its process, or for the session that h creates.
Begins(h) ==
  \A p \in Procs : Begun(p)' => Begun(p) \/ (Started(p)' /\ (Started(p) => job[h].pc = "create_store"))

\* A session refers to what it referred to, or to something new.
RefersOn ==
  \A s \in Sessions :
    /\ ses'[s].claudeProc \in {ses[s].claudeProc, None} \/ procs'[ses'[s].claudeProc].st # "none"
    /\ ses'[s].readTask \in {ses[s].readTask, None} \/ rd'[ses'[s].readTask].st # "none"

OthersStay(h) == \A g \in Actors \ {h} : job'[g] = job[g]

\* The points at which a request waits for a process or a read loop.
Waiting == {"create_store", "abort_reader", "abort_wait", "mode_wait", "close_wait",
            "mode_reader", "mode_cancel", "close_reader"}

\* A request that waits for neither a process nor a read loop.
LEMMA ElsewhereAwaited == ASSUME NEW h, job'[h].pc \notin Waiting PROVE Awaited(h)'
BY DEF Awaited, Waiting

\* The types of what a request waits for and of what refers to it.
LEMMA ProcsAndLoops ==
  ASSUME IInv
  PROVE  /\ procs \in [Procs -> Process] /\ rd \in [Procs -> ReadLoop] /\ ses \in [Sessions -> ChatSession]
         /\ job \in [Actors -> Job]
BY DEF IInv, TypeOK

\* What a session refers to is there.
LEMMA RefersStays ==
  ASSUME IInv, WaitInv, Onward, RefersOn, NEW s \in Sessions
  PROVE  Refers(s)'
<1>1. ses[s].claudeProc \in Procs \cup {None} /\ ses[s].readTask \in Procs \cup {None}
  BY ProcsAndLoops DEF ChatSession
<1>2. \A p \in Procs : (procs[p].st # "none" => procs'[p].st # "none") /\ (rd[p].st # "none" => rd'[p].st # "none")
  BY DEF Onward, Started, Begun
<1>3. /\ ses[s].claudeProc # None => procs[ses[s].claudeProc].st # "none"
      /\ ses[s].readTask # None => rd[ses[s].readTask].st # "none"
  BY DEF WaitInv, Refers, Started, Begun
<1>4. ses'[s].claudeProc # None => procs'[ses'[s].claudeProc].st # "none"
  BY <1>1, <1>2, <1>3 DEF RefersOn
<1>5. ses'[s].readTask # None => rd'[ses'[s].readTask].st # "none"
  BY <1>1, <1>2, <1>3 DEF RefersOn
<1> QED BY <1>4, <1>5 DEF Refers, Started, Begun

\* A request that does not move waits as before.
LEMMA AwaitedStays ==
  ASSUME NEW g \in Actors, Awaited(g), job'[g] = job[g], Onward,
         job[g].pc = "create_store" => rd'[job[g].proc].st = "none"
  PROVE  Awaited(g)'
<1> DEFINE p == job[g].proc
           t == job[g].task
<1>1. /\ p \in Procs => (Started(p) => Started(p)') /\ (Signalled(p) => Signalled(p)')
      /\ t \in Procs => (Begun(t) => Begun(t)') /\ (Ending(t) => Ending(t)')
  BY DEF Onward
<1>2. Awaited(g)' <=>
        /\ job[g].pc = "create_store" => p \in Procs /\ Started(p)' /\ ~Begun(p)'
        /\ job[g].pc = "abort_reader" => p \in Procs /\ Started(p)'
        /\ job[g].pc \in {"abort_wait", "mode_wait", "close_wait"} => p \in Procs /\ Signalled(p)'
        /\ job[g].pc = "mode_reader" => t \in Procs /\ Begun(t)'
        /\ job[g].pc \in {"abort_reader", "mode_cancel", "close_reader"} => t \in Procs /\ Ending(t)'
  BY DEF Awaited, Started, Signalled, Begun, Ending
<1> QED BY <1>1, <1>2 DEF Awaited, Begun

\* A step of a request keeps the invariant when it keeps what the others wait for.
LEMMA WaitStep ==
  ASSUME IInv, WaitInv, NEW h \in Actors, Onward, Begins(h), RefersOn, OthersStay(h), Awaited(h)'
  PROVE  WaitInv'
<1>1. ASSUME NEW p \in Procs, Begun(p)' PROVE Started(p)'
  BY <1>1 DEF WaitInv, Onward, Begins
<1>2. ASSUME NEW g \in Actors PROVE Awaited(g)'
  <2>1. CASE g = h
    BY <2>1
  <2>2. CASE g # h
    <3>1. Awaited(g) /\ job'[g] = job[g]
      BY <2>2 DEF WaitInv, OthersStay
    <3>2. ASSUME job[g].pc = "create_store" PROVE rd'[job[g].proc].st = "none"
      <4>1. job[g].proc \in Procs /\ Started(job[g].proc) /\ ~Begun(job[g].proc)
        BY <3>1, <3>2 DEF Awaited
      <4>2. job[h].pc # "create_store"
        <5>1. job[g].pc \in Critical
          BY <3>2 DEF Critical
        <5>2. job[h].pc \notin Critical
          BY <2>2, <5>1, Alone
        <5> QED BY <5>2 DEF Critical
      <4> QED BY <4>1, <4>2 DEF Begins, Begun
    <3> QED BY <3>1, <3>2, AwaitedStays
  <2> QED BY <2>1, <2>2
<1> QED BY <1>1, <1>2, RefersStays DEF WaitInv

\* So does a step of a read loop, of a process or of the clock.
LEMMA WaitAround ==
  ASSUME IInv, WaitInv, Onward, \A p \in Procs : Begun(p)' => Begun(p), RefersOn, UNCHANGED job
  PROVE  WaitInv'
<1>1. ASSUME NEW p \in Procs, Begun(p)' PROVE Started(p)'
  BY <1>1 DEF WaitInv, Onward
<1>2. ASSUME NEW g \in Actors PROVE Awaited(g)'
  <2>1. Awaited(g) /\ job'[g] = job[g]
    BY DEF WaitInv
  <2>2. job[g].pc = "create_store" => rd'[job[g].proc].st = "none"
    BY <2>1 DEF Awaited, Begun
  <2> QED BY <2>1, <2>2, AwaitedStays
<1> QED BY <1>1, <1>2, RefersStays DEF WaitInv

\* A step that touches neither processes nor read loops, and after which h waits for none.
LEMMA PlainWait ==
  ASSUME IInv, WaitInv, NEW h \in Actors, UNCHANGED <<procs, rd>>, RefersOn, OthersStay(h),
         job'[h].pc \notin Waiting
  PROVE  WaitInv'
<1>1. Onward /\ Begins(h)
  BY DEF Onward, Begins, Started, Signalled, Begun, Ending
<1> QED BY <1>1, WaitStep, ElsewhereAwaited

\* Signals and the exit of a process.
LEMMA SignalOnward ==
  ASSUME IInv, NEW q \in Procs, Signal(q), UNCHANGED rd
  PROVE  /\ Onward /\ (\A h : Begins(h)) /\ (\A p \in Procs : Begun(p)' => Begun(p))
         /\ Started(q) => Signalled(q)'
<1>1. \A p \in Procs : procs'[p].st = IF p = q /\ procs[p].st = "alive" THEN "killed" ELSE procs[p].st
  BY ProcsAndLoops DEF Signal, Process
<1>2. \A p \in Procs : procs[p].st \in {"none", "alive", "killed", "exited"}
  BY ProcsAndLoops DEF Process
<1> QED BY <1>1, <1>2 DEF Onward, Begins, Started, Signalled, Begun, Ending

\* A cancellation.
LEMMA CancelOnward ==
  ASSUME IInv, NEW q \in Procs, Cancel(q), UNCHANGED procs
  PROVE  Onward /\ (\A h : Begins(h)) /\ (Begun(q) => Ending(q)')
<1>1. \A p \in Procs : rd'[p].st = rd[p].st /\ rd'[p].cancel = (rd[p].cancel \/ p = q)
  <2>1. \A p \in Procs : rd[p].cancel \in BOOLEAN
    BY ProcsAndLoops DEF ReadLoop
  <2>2. rd'[q] = [rd[q] EXCEPT !.cancel = TRUE] /\ \A p \in Procs \ {q} : rd'[p] = rd[p]
    BY ProcsAndLoops DEF Cancel
  <2>3. rd[q] \in ReadLoop
    BY ProcsAndLoops
  <2>4. rd'[q].st = rd[q].st /\ rd'[q].cancel = TRUE
    BY <2>2, <2>3 DEF ReadLoop
  <2> QED BY <2>1, <2>2, <2>4
<1> QED BY <1>1 DEF Onward, Begins, Started, Signalled, Begun, Ending

\* A process is started, with its read loop or without.
LEMMA SpawnOnward ==
  ASSUME IInv, WaitInv, NEW q \in Procs, procs[q].st = "none", procs' = [procs EXCEPT ![q].st = "alive"],
         \/ UNCHANGED rd
         \/ \E l : rd' = [rd EXCEPT ![q] = l] /\ l.st = "scheduled"
  PROVE  Onward /\ (\A h : Begins(h)) /\ Started(q)'
<1>1. procs'[q].st = "alive" /\ \A p \in Procs \ {q} : procs'[p] = procs[p]
  BY ProcsAndLoops DEF Process
<1>2. \A p \in Procs \ {q} : rd'[p] = rd[p]
  BY ProcsAndLoops
<1>3. ~Started(q) /\ ~Begun(q)
  BY DEF WaitInv, Started
<1> QED BY <1>1, <1>2, <1>3 DEF Onward, Begins, Started, Signalled, Begun, Ending

\* What an edit of one session leaves of its references.
KeepsReferences(rec, s) ==
  /\ rec \in ChatSession
  /\ rec.claudeProc \in {ses[s].claudeProc, None} /\ rec.readTask \in {ses[s].readTask, None}

\* An edit of one session that keeps its references, whichever session it is.
LEMMA RefersEdit ==
  ASSUME IInv, NEW s, NEW r, s \in Sessions => KeepsReferences(r, s), ses' = [ses EXCEPT ![s] = r]
  PROVE  RefersOn
<1>1. \A t \in Sessions : ses'[t] = IF t = s THEN r ELSE ses[t]
  BY ProcsAndLoops
<1> QED BY <1>1 DEF RefersOn, KeepsReferences

\* A step that edits no session.
LEMMA RefersKept == ASSUME UNCHANGED ses PROVE RefersOn
BY DEF RefersOn

\* The assignments the manager makes to a record keep its references, or clear them.
LEMMA EditsKeep ==
  ASSUME NEW s, NEW rec, KeepsReferences(rec, s)
  PROVE  /\ \A x \in Statuses : KeepsReferences([rec EXCEPT !.status = x], s)
         /\ \A x \in Modes : KeepsReferences([rec EXCEPT !.mode = x], s)
         /\ \A x \in Events : KeepsReferences(Push(rec, x), s)
         /\ KeepsReferences(Announce(rec), s)
         /\ KeepsReferences([rec EXCEPT !.claudeProc = None], s)
         /\ KeepsReferences([rec EXCEPT !.readTask = None], s)
         /\ KeepsReferences([rec EXCEPT !.config = FALSE], s)
         /\ KeepsReferences([rec EXCEPT !.stale = TRUE], s)
         /\ KeepsReferences(Record(rec), s)
<1>1. rec \in ChatSession
  BY DEF KeepsReferences
<1>2. \A x \in Statuses : KeepsReferences([rec EXCEPT !.status = x], s)
  BY <1>1 DEF KeepsReferences, ChatSession
<1>3. \A x \in Modes : KeepsReferences([rec EXCEPT !.mode = x], s)
  BY <1>1 DEF KeepsReferences, ChatSession
<1>4. \A x \in Events : KeepsReferences(Push(rec, x), s)
  BY <1>1 DEF KeepsReferences, ChatSession, Push
<1>5. KeepsReferences(Announce(rec), s)
  BY <1>4 DEF Announce, Events
<1>6. KeepsReferences([rec EXCEPT !.claudeProc = None], s)
  BY <1>1 DEF KeepsReferences, ChatSession
<1>7. KeepsReferences([rec EXCEPT !.readTask = None], s)
  BY <1>1 DEF KeepsReferences, ChatSession
<1>8. KeepsReferences([rec EXCEPT !.config = FALSE], s)
  BY <1>1 DEF KeepsReferences, ChatSession
<1>9. KeepsReferences([rec EXCEPT !.stale = TRUE], s)
  BY <1>1 DEF KeepsReferences, ChatSession
<1>10. KeepsReferences(Record(rec), s)
  <2>1. Record(rec) \in ChatSession
    BY <1>1, SessionEdits DEF Same
  <2>2. Record(rec).claudeProc = rec.claudeProc /\ Record(rec).readTask = rec.readTask
    BY <1>1 DEF Record, ChatSession
  <2> QED BY <2>1, <2>2 DEF KeepsReferences
<1> QED BY <1>2, <1>3, <1>4, <1>5, <1>6, <1>7, <1>8, <1>9, <1>10

\* No edit at all.
LEMMA KeptAsIs == ASSUME IInv, NEW s \in Sessions PROVE KeepsReferences(ses[s], s)
BY ProcsAndLoops DEF KeepsReferences

\* How a request moves.
LEMMA JobSet ==
  ASSUME IInv, NEW h \in Actors, NEW r, job' = [job EXCEPT ![h] = r]
  PROVE  OthersStay(h) /\ job'[h] = r
BY ProcsAndLoops DEF OthersStay

\* It is suspended at another point, with the same targets.
LEMMA JobGoes ==
  ASSUME IInv, NEW h \in Actors, NEW l, job' = [job EXCEPT ![h].pc = l]
  PROVE  OthersStay(h) /\ job'[h].pc = l /\ job'[h].proc = job[h].proc /\ job'[h].task = job[h].task
<1>1. job[h] \in Job
  BY ProcsAndLoops
<1> QED BY <1>1, ProcsAndLoops DEF OthersStay, Job

\* It is answered.
LEMMA JobReturns ==
  ASSUME IInv, NEW h \in Actors, Return(h)
  PROVE  OthersStay(h) /\ job'[h].pc \notin Waiting
<1>1. OthersStay(h) /\ job'[h] = Ready
  BY JobSet DEF Return
<1> QED BY <1>1 DEF Ready, Waiting

\* The steps that answer a request, or move it to where it waits for nothing.
LEMMA CreateBeginWait ==
  ASSUME IInv, WaitInv, NEW h \in Actors, NEW s \in Sessions, NEW m \in Modes, NEW w, CreateBegin(h, s, m, w)
  PROVE  WaitInv'
<1> DEFINE r == [Unborn EXCEPT !.owner = UserOf[h], !.mode = m, !.config = TRUE]
<1>1. r.claudeProc = None /\ r.readTask = None
  BY DEF Unborn
<1>2. ses' = [ses EXCEPT ![s] = r]
  BY DEF CreateBegin
<1> HIDE DEF r
<1>3. RefersOn
  <2>1. \A t \in Sessions : ses'[t] = IF t = s THEN r ELSE ses[t]
    BY <1>2, ProcsAndLoops
  <2> QED BY <1>1, <2>1 DEF RefersOn
<1>4. OthersStay(h) /\ job'[h].pc = "create_spawn"
  <2>1. job' = [job EXCEPT ![h] = [Ready EXCEPT !.pc = "create_spawn", !.target = s, !.plan = w]]
    BY DEF CreateBegin
  <2>2. OthersStay(h) /\ job'[h] = [Ready EXCEPT !.pc = "create_spawn", !.target = s, !.plan = w]
    BY <2>1, JobSet
  <2> QED BY <2>2 DEF Ready
<1> QED BY <1>3, <1>4, PlainWait DEF CreateBegin, Waiting

\* The start of a new session fails: nothing refers to it any more.
LEMMA CreateSpawnFailedWait ==
  ASSUME IInv, WaitInv, NEW h \in Actors, CreateSpawnFailed(h)
  PROVE  WaitInv'
<1>1. Unborn.claudeProc = None /\ Unborn.readTask = None
  BY DEF Unborn
<1>2. RefersOn
  <2>1. \A t \in Sessions : ses'[t] \in {ses[t], Unborn}
    BY ProcsAndLoops DEF CreateSpawnFailed, Discard
  <2> QED BY <1>1, <2>1 DEF RefersOn
<1> QED BY <1>2, JobReturns, PlainWait DEF CreateSpawnFailed

\* A request is answered from what is there.
LEMMA AnsweredWait ==
  ASSUME IInv, WaitInv, NEW h \in Actors, UNCHANGED <<ses, procs, rd>>, Return(h)
  PROVE  WaitInv'
BY JobReturns, RefersKept, PlainWait

\* send_message looks at the session and decides whether to restart its process.
LEMMA SendCheckWait ==
  ASSUME IInv, WaitInv, NEW h \in Actors, NEW s, NEW w, SendCheck(h, s, w)
  PROVE  WaitInv'
<1>1. OthersStay(h) /\ job'[h].pc \in {"send_spawn", "dispatch"}
  <2>1. PICK l \in {"send_spawn", "dispatch"} :
          job' = [job EXCEPT ![h] = [Ready EXCEPT !.target = s, !.plan = w, !.pc = l]]
    BY DEF SendCheck
  <2>2. OthersStay(h) /\ job'[h] = [Ready EXCEPT !.target = s, !.plan = w, !.pc = l]
    BY <2>1, JobSet
  <2> QED BY <2>2 DEF Ready
<1> QED BY <1>1, RefersKept, PlainWait DEF SendCheck, Waiting

\* _send_user_message notes the message in the session.
LEMMA SendRecordWait ==
  ASSUME IInv, WaitInv, NEW h \in Actors, SendRecord(h)
  PROVE  WaitInv'
<1> DEFINE s == job[h].target
<1>1. ses' = [ses EXCEPT ![s] = Record(ses[s])]
  BY DEF SendRecord
<1>2. s \in Sessions => KeepsReferences(Record(ses[s]), s)
  BY KeptAsIs, EditsKeep
<1>3. RefersOn
  BY <1>1, <1>2, RefersEdit
<1>4. OthersStay(h) /\ job'[h].pc = "send_write"
  BY JobGoes DEF SendRecord
<1> QED BY <1>3, <1>4, PlainWait DEF SendRecord, Waiting

\* The process abort_session waited for is gone: the session drops its reference.
LEMMA AbortFinishWait ==
  ASSUME IInv, WaitInv, NEW h \in Actors, AbortFinish(h)
  PROVE  WaitInv'
<1> DEFINE s == job[h].target
           a == [ses[s] EXCEPT !.claudeProc = None]
           b == [a EXCEPT !.status = "idle"]
<1>1. ses' = [ses EXCEPT ![s] = Push(b, "aborted")]
  BY DEF AbortFinish
<1>2. s \in Sessions => KeepsReferences(Push(b, "aborted"), s)
  <2>1. s \in Sessions => KeepsReferences(a, s)
    BY KeptAsIs, EditsKeep
  <2> HIDE DEF a
  <2>2. s \in Sessions => KeepsReferences(b, s)
    BY <2>1, EditsKeep DEF Statuses
  <2> HIDE DEF b
  <2> QED BY <2>2, EditsKeep DEF Events
<1>3. RefersOn
  BY <1>1, <1>2, RefersEdit
<1> QED BY <1>3, JobReturns, PlainWait DEF AbortFinish

\* set_mode could not start a process: the mode goes back, the references stay empty.
LEMMA ModeSpawnFailedWait ==
  ASSUME IInv, WaitInv, NEW h \in Actors, ModeSpawnFailed(h)
  PROVE  WaitInv'
<1> DEFINE s == job[h].target
           r == [ses[s] EXCEPT !.mode = job[h].oldMode]
<1>1. ses' = [ses EXCEPT ![s] = r]
  BY DEF ModeSpawnFailed
<1>2. job[h].oldMode \in Modes
  BY DEF ModeSpawnFailed, At, IInv, Targets, Switching
<1>3. s \in Sessions => KeepsReferences(r, s)
  BY <1>2, KeptAsIs, EditsKeep
<1>4. RefersOn
  BY <1>1, <1>3, RefersEdit
<1> QED BY <1>4, JobReturns, PlainWait DEF ModeSpawnFailed

\* The process a close waited for is gone.
LEMMA CloseProcGoneWait ==
  ASSUME IInv, WaitInv, NEW h \in Actors, CloseProcGone(h)
  PROVE  WaitInv'
<1> DEFINE s == job[h].target
           a == [ses[s] EXCEPT !.claudeProc = None]
<1>1. ses' = [ses EXCEPT ![s] = Announce(a)]
  BY DEF CloseProcGone
<1>2. s \in Sessions => KeepsReferences(Announce(a), s)
  <2>1. s \in Sessions => KeepsReferences(a, s)
    BY KeptAsIs, EditsKeep
  <2> HIDE DEF a
  <2> QED BY <2>1, EditsKeep
<1>3. RefersOn
  BY <1>1, <1>2, RefersEdit
<1>4. OthersStay(h) /\ job'[h].pc = "close_drop"
  <2>1. job' = [job EXCEPT ![h] = [job[h] EXCEPT !.pc = "close_drop", !.proc = None]]
    BY DEF CloseProcGone
  <2>2. job[h] \in Job
    BY ProcsAndLoops
  <2>3. OthersStay(h) /\ job'[h] = [job[h] EXCEPT !.pc = "close_drop", !.proc = None]
    BY <2>1, JobSet
  <2> QED BY <2>2, <2>3 DEF Job
<1> QED BY <1>3, <1>4, PlainWait DEF CloseProcGone, Waiting

\* A close unregisters the session.
LEMMA CloseDropWait ==
  ASSUME IInv, WaitInv, NEW h \in Actors, CloseDrop(h)
  PROVE  WaitInv'
<1> DEFINE s == job[h].target
<1>1. ses' = [ses EXCEPT ![s] = [ses[s] EXCEPT !.config = FALSE]]
  BY DEF CloseDrop
<1>2. s \in Sessions => KeepsReferences([ses[s] EXCEPT !.config = FALSE], s)
  BY KeptAsIs, EditsKeep
<1>3. RefersOn
  BY <1>1, <1>2, RefersEdit
<1>4. OthersStay(h) /\ job'[h].pc \in {"ready", "reset_create"}
  <2>1. job' = [job EXCEPT ![h] = IF job[h].plan = "reset"
                                  THEN [Ready EXCEPT !.pc = "reset_create", !.target = s]
                                  ELSE Ready]
    BY DEF CloseDrop
  <2>2. OthersStay(h)
        /\ job'[h] = IF job[h].plan = "reset" THEN [Ready EXCEPT !.pc = "reset_create", !.target = s] ELSE Ready
    BY <2>1, JobSet
  <2> QED BY <2>2 DEF Ready
<1> QED BY <1>3, <1>4, PlainWait DEF CloseDrop, Waiting

\* What a session refers to can be signalled, cancelled and awaited.
LEMMA Referred ==
  ASSUME IInv, WaitInv, NEW s \in Sessions
  PROVE  /\ ses[s].claudeProc # None => ses[s].claudeProc \in Procs /\ Started(ses[s].claudeProc)
         /\ ~Done(ses[s].readTask) => ses[s].readTask \in Procs /\ Begun(ses[s].readTask)
<1>1. ses[s].claudeProc \in Procs \cup {None} /\ ses[s].readTask \in Procs \cup {None}
  BY ProcsAndLoops DEF ChatSession
<1>2. Refers(s)
  BY DEF WaitInv
<1>3. ~Done(ses[s].readTask) => ses[s].readTask # None
  BY DEF Done
<1> QED BY <1>1, <1>2, <1>3 DEF Refers

\* A request that waits for the exit of a signalled process.
LEMMA AwaitsExit ==
  ASSUME NEW h, NEW p \in Procs, job'[h].pc \in {"abort_wait", "mode_wait", "close_wait"}, job'[h].proc = p, Signalled(p)'
  PROVE  Awaited(h)'
BY DEF Awaited, Signalled

\* A request that waits for the end of a cancelled read loop.
LEMMA AwaitsEnd ==
  ASSUME NEW h, NEW t \in Procs, job'[h].pc \in {"mode_cancel", "close_reader"}, job'[h].task = t, Ending(t)'
  PROVE  Awaited(h)'
BY DEF Awaited, Ending, Begun

\* A step that signals a started process and waits for its exit.
LEMMA SignalWait ==
  ASSUME IInv, WaitInv, NEW h \in Actors, NEW p \in Procs, Started(p), Signal(p), UNCHANGED rd, RefersOn,
         OthersStay(h), job'[h].pc \in {"abort_wait", "mode_wait", "close_wait"}, job'[h].proc = p
  PROVE  WaitInv'
<1>1. Onward /\ Begins(h) /\ Signalled(p)'
  BY SignalOnward
<1>2. Awaited(h)'
  BY <1>1, AwaitsExit
<1> QED BY <1>1, <1>2, WaitStep

\* A step that cancels a read loop and waits for its end.
LEMMA CancelWait ==
  ASSUME IInv, WaitInv, NEW h \in Actors, NEW t \in Procs, Begun(t), Cancel(t), UNCHANGED procs, RefersOn,
         OthersStay(h), job'[h].pc \in {"mode_cancel", "close_reader"}, job'[h].task = t
  PROVE  WaitInv'
<1>1. Onward /\ Begins(h) /\ Ending(t)'
  BY CancelOnward
<1>2. Awaited(h)'
  BY <1>1, AwaitsEnd
<1> QED BY <1>1, <1>2, WaitStep

\* abort_session cancels the read loop of the session, or signals its process at once.
LEMMA AbortBeginWait ==
  ASSUME IInv, WaitInv, NEW h \in Actors, NEW s, AbortBegin(h, s)
  PROVE  WaitInv'
<1> DEFINE p == ses[s].claudeProc
           t == ses[s].readTask
           j == [Ready EXCEPT !.target = s, !.proc = p]
<1>1. s \in Sessions /\ p # None /\ UNCHANGED ses
  BY DEF AbortBegin, Owns, IInv, TypeOK
<1>2. p \in Procs /\ Started(p) /\ (~Done(t) => t \in Procs /\ Begun(t))
  BY <1>1, Referred
<1>3. RefersOn
  BY <1>1, RefersKept
<1>4. CASE Signal(p) /\ job' = [job EXCEPT ![h] = [j EXCEPT !.pc = "abort_wait"]] /\ UNCHANGED rd
  <2>1. OthersStay(h) /\ job'[h] = [j EXCEPT !.pc = "abort_wait"]
    BY <1>4, JobSet
  <2>2. job'[h].pc = "abort_wait" /\ job'[h].proc = p
    BY <2>1 DEF Ready
  <2> HIDE DEF p
  <2> QED BY <1>2, <1>3, <1>4, <2>1, <2>2, SignalWait
<1>5. CASE ~Done(t) /\ Cancel(t) /\ job' = [job EXCEPT ![h] = [j EXCEPT !.pc = "abort_reader", !.task = t]] /\ UNCHANGED procs
  <2>1. OthersStay(h) /\ job'[h] = [j EXCEPT !.pc = "abort_reader", !.task = t]
    BY <1>5, JobSet
  <2>2. job'[h].pc = "abort_reader" /\ job'[h].proc = p /\ job'[h].task = t
    BY <2>1 DEF Ready
  <2> HIDE DEF p, t
  <2>3. PICK q, r : q = p /\ r = t
    OBVIOUS
  <2>4. q \in Procs /\ r \in Procs /\ Started(q) /\ Begun(r) /\ Cancel(r) /\ job'[h].proc = q /\ job'[h].task = r
    BY <1>2, <1>5, <2>2, <2>3
  <2>5. Onward /\ Begins(h) /\ Ending(r)'
    BY <1>5, <2>4, CancelOnward
  <2>6. Started(q)'
    BY <2>4, <2>5 DEF Onward
  <2>7. Awaited(h)'
    BY <2>2, <2>4, <2>5, <2>6 DEF Awaited, Started, Ending, Begun
  <2> QED BY <1>3, <2>1, <2>5, <2>7, WaitStep
<1> QED BY <1>4, <1>5 DEF AbortBegin

\* The read loop has ended: abort_session signals the process it found at the beginning.
LEMMA AbortReaderDoneWait ==
  ASSUME IInv, WaitInv, NEW h \in Actors, AbortReaderDone(h)
  PROVE  WaitInv'
<1> DEFINE s == job[h].target
<1>1. ses' = [ses EXCEPT ![s] = [ses[s] EXCEPT !.readTask = None]]
  BY DEF AbortReaderDone
<1>2. s \in Sessions => KeepsReferences([ses[s] EXCEPT !.readTask = None], s)
  BY KeptAsIs, EditsKeep
<1>3. RefersOn
  BY <1>1, <1>2, RefersEdit
<1>4. OthersStay(h) /\ job'[h].pc = "abort_wait" /\ job'[h].proc = job[h].proc
  BY JobGoes DEF AbortReaderDone
<1>5. job[h].proc \in Procs /\ Started(job[h].proc)
  BY DEF WaitInv, Awaited, AbortReaderDone, At
<1> QED BY <1>3, <1>4, <1>5, SignalWait DEF AbortReaderDone

\* _restart_proc_if_needed, whatever the session is edited to before it.
LEMMA ModeRestartWait ==
  ASSUME IInv, WaitInv, NEW h \in Actors, NEW s, NEW old, NEW rec, s \in Sessions => KeepsReferences(rec, s),
         ModeRestart(h, s, old, rec), UNCHANGED <<procs, rd>>
  PROVE  WaitInv'
<1>1. RefersOn
  BY RefersEdit DEF ModeRestart
<1>2. CASE Return(h)
  BY <1>1, <1>2, JobReturns, PlainWait
<1>3. CASE job' = [job EXCEPT ![h] = [Ready EXCEPT !.pc = "mode_spawn", !.target = s, !.oldMode = old]]
  <2>1. OthersStay(h) /\ job'[h] = [Ready EXCEPT !.pc = "mode_spawn", !.target = s, !.oldMode = old]
    BY <1>3, JobSet
  <2>2. job'[h].pc = "mode_spawn"
    BY <2>1 DEF Ready
  <2> QED BY <1>1, <2>1, <2>2, PlainWait DEF Waiting
<1> QED BY <1>2, <1>3 DEF ModeRestart

\* set_mode waits for the read loop of the process that is gone.
LEMMA ModeAwaitReaderWait ==
  ASSUME IInv, WaitInv, NEW h \in Actors, NEW s \in Sessions, NEW old, NEW rec, KeepsReferences(rec, s),
         rec.readTask = ses[s].readTask, ModeAwaitReader(h, s, old, rec), UNCHANGED <<procs, rd>>
  PROVE  WaitInv'
<1>1. CASE Done(rec.readTask)
  <2>1. ModeRestart(h, s, old, [rec EXCEPT !.readTask = None])
    BY <1>1 DEF ModeAwaitReader
  <2>2. KeepsReferences([rec EXCEPT !.readTask = None], s)
    BY EditsKeep
  <2> QED BY <2>1, <2>2, ModeRestartWait
<1>2. CASE ~Done(rec.readTask)
  <2>1. RefersOn
    BY <1>2, RefersEdit DEF ModeAwaitReader
  <2> DEFINE r == [Ready EXCEPT !.pc = "mode_reader", !.target = s, !.task = rec.readTask, !.oldMode = old]
  <2>2. OthersStay(h) /\ job'[h] = r
    BY <1>2, JobSet DEF ModeAwaitReader
  <2>3. job'[h].pc = "mode_reader" /\ job'[h].task = ses[s].readTask
    BY <2>2 DEF Ready
  <2>4. ses[s].readTask \in Procs /\ Begun(ses[s].readTask)
    BY <1>2, Referred
  <2>5. Awaited(h)'
    BY <2>3, <2>4 DEF Awaited, Begun
  <2>6. Onward /\ Begins(h)
    BY DEF Onward, Begins, Started, Signalled, Begun, Ending
  <2> QED BY <2>1, <2>2, <2>5, <2>6, WaitStep
<1> QED BY <1>1, <1>2

\* set_mode signals the process of the session, or finds none or one that has exited.
LEMMA ModeBeginWait ==
  ASSUME IInv, WaitInv, NEW h \in Actors, NEW s, NEW m \in Modes, ModeBegin(h, s, m)
  PROVE  WaitInv'
<1> DEFINE p   == ses[s].claudeProc
           old == ses[s].mode
           rec == [ses[s] EXCEPT !.mode = m]
<1>1. s \in Sessions /\ ses[s] \in ChatSession
  BY ProcsAndLoops DEF ModeBegin, Owns, IInv, TypeOK
<1>2. KeepsReferences(rec, s) /\ rec.readTask = ses[s].readTask
  <2>1. KeepsReferences(rec, s)
    BY <1>1, KeptAsIs, EditsKeep
  <2> QED BY <1>1, <2>1 DEF ChatSession
<1> HIDE DEF rec
<1>3. CASE ModeRestart(h, s, old, rec) /\ UNCHANGED <<procs, rd>>
  BY <1>2, <1>3, ModeRestartWait
<1>4. CASE ModeAwaitReader(h, s, old, [rec EXCEPT !.claudeProc = None]) /\ UNCHANGED <<procs, rd>>
  <2> DEFINE cleared == [rec EXCEPT !.claudeProc = None]
  <2>1. KeepsReferences(cleared, s)
    BY <1>2, EditsKeep
  <2>2. cleared.readTask = ses[s].readTask
    BY <1>2 DEF KeepsReferences, ChatSession
  <2> HIDE DEF cleared
  <2>3. ModeAwaitReader(h, s, old, cleared)
    BY <1>4 DEF cleared
  <2> QED BY <1>1, <1>4, <2>1, <2>2, <2>3, ModeAwaitReaderWait
<1>5. CASE /\ p # None /\ Signal(p) /\ UNCHANGED rd
           /\ ses' = [ses EXCEPT ![s] = rec]
           /\ job' = [job EXCEPT ![h] = [Ready EXCEPT !.pc = "mode_wait", !.target = s, !.proc = p, !.oldMode = old]]
  <2>1. RefersOn
    BY <1>2, <1>5, RefersEdit
  <2>2. OthersStay(h) /\ job'[h] = [Ready EXCEPT !.pc = "mode_wait", !.target = s, !.proc = p, !.oldMode = old]
    BY <1>5, JobSet
  <2>3. job'[h].pc = "mode_wait" /\ job'[h].proc = p
    BY <2>2 DEF Ready
  <2>4. p \in Procs /\ Started(p)
    BY <1>1, <1>5, Referred
  <2> HIDE DEF p
  <2> QED BY <1>5, <2>1, <2>2, <2>3, <2>4, SignalWait
<1> QED BY <1>3, <1>4, <1>5 DEF ModeBegin, rec

\* The process set_mode waited for is gone.
LEMMA ModeProcGoneWait ==
  ASSUME IInv, WaitInv, NEW h \in Actors, ModeProcGone(h)
  PROVE  WaitInv'
<1>1. PICK s : s = job[h].target
  OBVIOUS
<1> DEFINE cleared == [ses[s] EXCEPT !.claudeProc = None]
<1>2. s \in Sessions
  BY <1>1 DEF ModeProcGone, At, IInv, Targets
<1>3. KeepsReferences(cleared, s)
  BY <1>2, KeptAsIs, EditsKeep
<1>4. cleared.readTask = ses[s].readTask
  BY <1>2, ProcsAndLoops DEF ChatSession
<1>5. ModeAwaitReader(h, s, job[h].oldMode, cleared) /\ UNCHANGED <<procs, rd>>
  BY <1>1 DEF ModeProcGone
<1> HIDE DEF cleared
<1> QED BY <1>2, <1>3, <1>4, <1>5, ModeAwaitReaderWait

\* The two seconds are over: wait_for cancels the read loop, and waits on.
LEMMA ModeReaderTimeoutWait ==
  ASSUME IInv, WaitInv, NEW h \in Actors, ModeReaderTimeout(h)
  PROVE  WaitInv'
<1>1. PICK t : t = job[h].task
  OBVIOUS
<1>2. t \in Procs /\ Begun(t)
  BY <1>1 DEF WaitInv, Awaited, ModeReaderTimeout, At
<1>3. OthersStay(h) /\ job'[h].pc = "mode_cancel" /\ job'[h].task = t
  BY <1>1, JobGoes DEF ModeReaderTimeout
<1>4. Cancel(t) /\ UNCHANGED procs /\ RefersOn
  BY <1>1, RefersKept DEF ModeReaderTimeout
<1> QED BY <1>2, <1>3, <1>4, CancelWait

\* The read loop set_mode waited for has ended.
LEMMA ModeReaderDoneWait ==
  ASSUME IInv, WaitInv, NEW h \in Actors, ModeReaderDone(h)
  PROVE  WaitInv'
<1>1. PICK s : s = job[h].target
  OBVIOUS
<1> DEFINE cleared == [ses[s] EXCEPT !.readTask = None]
<1>2. s \in Sessions => KeepsReferences(cleared, s)
  BY KeptAsIs, EditsKeep
<1>3. ModeRestart(h, s, job[h].oldMode, cleared) /\ UNCHANGED <<procs, rd>>
  BY <1>1 DEF ModeReaderDone
<1> HIDE DEF cleared
<1> QED BY <1>2, <1>3, ModeRestartWait

\* The same after two seconds, when set_mode cancels the session's read loop of now.
LEMMA ModeReaderTimedOutWait ==
  ASSUME IInv, WaitInv, NEW h \in Actors, ModeReaderTimedOut(h)
  PROVE  WaitInv'
<1>1. PICK s, t : s = job[h].target /\ t = ses[s].readTask
  OBVIOUS
<1> DEFINE cleared == [ses[s] EXCEPT !.readTask = None]
           r == [Ready EXCEPT !.pc = "mode_spawn", !.target = s, !.oldMode = job[h].oldMode]
<1>2. s \in Sessions
  BY <1>1 DEF ModeReaderTimedOut, At, IInv, Targets
<1>3. KeepsReferences(cleared, s)
  BY <1>2, KeptAsIs, EditsKeep
<1>4. ModeRestart(h, s, job[h].oldMode, cleared) /\ UNCHANGED procs
  BY <1>1 DEF ModeReaderTimedOut
<1>5. Onward /\ Begins(h)
  <2>1. CASE UNCHANGED rd
    BY <1>4, <2>1 DEF Onward, Begins, Started, Signalled, Begun, Ending
  <2>2. CASE ~Done(t) /\ Cancel(t)
    <3>1. t \in Procs /\ Begun(t)
      BY <1>1, <1>2, <2>2, Referred
    <3> QED BY <1>4, <2>2, <3>1, CancelOnward
  <2> QED BY <1>1, <2>1, <2>2 DEF ModeReaderTimedOut
<1> HIDE DEF cleared, r
<1>6. RefersOn
  BY <1>2, <1>3, <1>4, RefersEdit DEF ModeRestart
<1>7. OthersStay(h) /\ job'[h].pc \notin Waiting
  <2>1. CASE Return(h)
    BY <2>1, JobReturns
  <2>2. CASE job' = [job EXCEPT ![h] = r]
    <3>1. OthersStay(h) /\ job'[h] = r
      BY <2>2, JobSet
    <3>2. job'[h].pc = "mode_spawn"
      BY <3>1 DEF Ready, r
    <3> QED BY <3>1, <3>2 DEF Waiting
  <2> QED BY <1>4, <2>1, <2>2 DEF ModeRestart, r
<1>8. Awaited(h)'
  BY <1>7 DEF Awaited, Waiting
<1> QED BY <1>5, <1>6, <1>7, <1>8, WaitStep

\* Another request cancelled that read loop: set_mode fails.
LEMMA ModeReaderCancelledWait ==
  ASSUME IInv, WaitInv, NEW h \in Actors, ModeReaderCancelled(h)
  PROVE  WaitInv'
BY AnsweredWait DEF ModeReaderCancelled

\* A close kills the process, or has none to kill.
LEMMA CloseKillWait ==
  ASSUME IInv, WaitInv, NEW h \in Actors, NEW s \in Sessions, NEW w, NEW rec, KeepsReferences(rec, s),
         rec.claudeProc = ses[s].claudeProc, CloseKill(h, s, w, rec), UNCHANGED rd
  PROVE  WaitInv'
<1>1. PICK p : p = rec.claudeProc
  OBVIOUS
<1> DEFINE j == [Ready EXCEPT !.target = s, !.plan = w]
<1>2. CASE p = None
  <2>1. ses' = [ses EXCEPT ![s] = Announce(rec)] /\ UNCHANGED procs
        /\ job' = [job EXCEPT ![h] = [j EXCEPT !.pc = "close_drop"]]
    BY <1>1, <1>2 DEF CloseKill
  <2>2. RefersOn
    <3>1. KeepsReferences(Announce(rec), s)
      BY EditsKeep
    <3> QED BY <2>1, <3>1, RefersEdit
  <2>3. OthersStay(h) /\ job'[h] = [j EXCEPT !.pc = "close_drop"]
    BY <2>1, JobSet
  <2>4. job'[h].pc = "close_drop"
    BY <2>3 DEF Ready
  <2> QED BY <2>1, <2>2, <2>3, <2>4, PlainWait DEF Waiting
<1>3. CASE p # None
  <2>1. ses' = [ses EXCEPT ![s] = rec] /\ Signal(p)
        /\ job' = [job EXCEPT ![h] = [j EXCEPT !.pc = "close_wait", !.proc = p]]
    BY <1>1, <1>3 DEF CloseKill
  <2>2. RefersOn
    BY <2>1, RefersEdit
  <2>3. OthersStay(h) /\ job'[h] = [j EXCEPT !.pc = "close_wait", !.proc = p]
    BY <2>1, JobSet
  <2>4. job'[h].pc = "close_wait" /\ job'[h].proc = p
    BY <2>3 DEF Ready
  <2>5. p \in Procs /\ Started(p)
    BY <1>1, <1>3, Referred
  <2> QED BY <2>1, <2>2, <2>3, <2>4, <2>5, SignalWait
<1> QED BY <1>2, <1>3

\* A close cancels the read loop of the session, or goes on to the process.
LEMMA CloseBeginWait ==
  ASSUME IInv, WaitInv, NEW h \in Actors, NEW s, NEW w, CloseBegin(h, s, w)
  PROVE  WaitInv'
<1> DEFINE rec == [ses[s] EXCEPT !.status = "closed"]
<1>1. PICK t : t = ses[s].readTask
  OBVIOUS
<1>2. s \in Sessions /\ ses[s] \in ChatSession
  BY ProcsAndLoops DEF CloseBegin, IInv, TypeOK
<1>3. KeepsReferences(rec, s) /\ rec.claudeProc = ses[s].claudeProc
  <2>1. KeepsReferences(rec, s)
    BY <1>2, KeptAsIs, EditsKeep DEF Statuses
  <2> QED BY <1>2, <2>1 DEF ChatSession
<1>4. CASE CloseKill(h, s, w, rec) /\ UNCHANGED rd
  <2> HIDE DEF rec
  <2> QED BY <1>2, <1>3, <1>4, CloseKillWait
<1>5. CASE /\ ~Done(t) /\ Cancel(t) /\ ses' = [ses EXCEPT ![s] = rec] /\ UNCHANGED procs
           /\ job' = [job EXCEPT ![h] = [Ready EXCEPT !.pc = "close_reader", !.target = s, !.plan = w, !.task = t]]
  <2> HIDE DEF rec
  <2>1. RefersOn
    BY <1>3, <1>5, RefersEdit
  <2>2. OthersStay(h) /\ job'[h] = [Ready EXCEPT !.pc = "close_reader", !.target = s, !.plan = w, !.task = t]
    BY <1>5, JobSet
  <2>3. job'[h].pc = "close_reader" /\ job'[h].task = t
    BY <2>2 DEF Ready
  <2>4. t \in Procs /\ Begun(t)
    BY <1>1, <1>2, <1>5, Referred
  <2> QED BY <1>5, <2>1, <2>2, <2>3, <2>4, CancelWait
<1> QED BY <1>1, <1>4, <1>5 DEF CloseBegin

\* The read loop a close waited for has ended.
LEMMA CloseReaderDoneWait ==
  ASSUME IInv, WaitInv, NEW h \in Actors, CloseReaderDone(h)
  PROVE  WaitInv'
<1>1. PICK s : s = job[h].target
  OBVIOUS
<1> DEFINE cleared == [ses[s] EXCEPT !.readTask = None]
<1>2. s \in Sessions
  BY <1>1 DEF CloseReaderDone, At, IInv, Targets
<1>3. KeepsReferences(cleared, s)
  BY <1>2, KeptAsIs, EditsKeep
<1>4. cleared.claudeProc = ses[s].claudeProc
  BY <1>2, ProcsAndLoops DEF ChatSession
<1>5. CloseKill(h, s, job[h].plan, cleared) /\ UNCHANGED rd
  BY <1>1 DEF CloseReaderDone
<1> HIDE DEF cleared
<1> QED BY <1>2, <1>3, <1>4, <1>5, CloseKillWait

\* reset_session: the close, or no session to close.
LEMMA ResetWait ==
  ASSUME IInv, WaitInv, NEW h \in Actors, NEW s, Reset(h, s)
  PROVE  WaitInv'
<1>1. CASE CloseBegin(h, s, "reset")
  BY <1>1, CloseBeginWait
<1>2. CASE job' = [job EXCEPT ![h] = [Ready EXCEPT !.pc = "reset_create"]] /\ UNCHANGED <<ses, procs, rd>>
  <2>1. OthersStay(h) /\ job'[h] = [Ready EXCEPT !.pc = "reset_create"]
    BY <1>2, JobSet
  <2>2. job'[h].pc = "reset_create"
    BY <2>1 DEF Ready
  <2> QED BY <1>2, <2>1, <2>2, RefersKept, PlainWait DEF Waiting
<1> QED BY <1>1, <1>2 DEF Reset

\* A process is started for a session that exists, with its read loop.
LEMMA RestartOnward ==
  ASSUME IInv, WaitInv, NEW s, NEW p \in Procs, Restart(s, p)
  PROVE  Onward /\ (\A h : Begins(h)) /\ RefersOn
<1> DEFINE l == [NoLoop EXCEPT !.st = "scheduled", !.session = s]
           r == [ses[s] EXCEPT !.claudeProc = p, !.readTask = p]
<1>1. procs[p].st = "none" /\ procs' = [procs EXCEPT ![p].st = "alive"] /\ rd' = [rd EXCEPT ![p] = l]
      /\ ses' = [ses EXCEPT ![s] = r]
  BY DEF Restart
<1>2. l.st = "scheduled"
  BY DEF NoLoop
<1> HIDE DEF l
<1>3. Onward /\ (\A h : Begins(h)) /\ Started(p)'
  BY <1>1, <1>2, SpawnOnward
<1>4. rd'[p].st # "none"
  BY <1>1, <1>2, ProcsAndLoops
<1>5. \A t \in Sessions : ses[t] \in ChatSession /\ ses'[t] = IF t = s THEN r ELSE ses[t]
  BY <1>1, ProcsAndLoops
<1>6. s \in Sessions => r.claudeProc = p /\ r.readTask = p
  BY <1>5 DEF ChatSession
<1> HIDE DEF r
<1>7. RefersOn
  BY <1>3, <1>4, <1>5, <1>6 DEF RefersOn, Started
<1> QED BY <1>3, <1>7

\* The lazy restart of send_message.
LEMMA SendRestartedWait ==
  ASSUME IInv, WaitInv, NEW h \in Actors, NEW p \in Procs, SendRestarted(h, p)
  PROVE  WaitInv'
<1>1. Onward /\ Begins(h) /\ RefersOn
  BY RestartOnward DEF SendRestarted
<1>2. OthersStay(h) /\ job'[h].pc = "dispatch"
  BY JobGoes DEF SendRestarted
<1> QED BY <1>1, <1>2, ElsewhereAwaited, WaitStep DEF Waiting

\* The restart of set_mode.
LEMMA ModeSpawnedWait ==
  ASSUME IInv, WaitInv, NEW h \in Actors, NEW p \in Procs, ModeSpawned(h, p)
  PROVE  WaitInv'
<1>1. Onward /\ Begins(h) /\ RefersOn
  BY RestartOnward DEF ModeSpawned
<1>2. OthersStay(h) /\ job'[h].pc \notin Waiting
  BY JobReturns DEF ModeSpawned
<1> QED BY <1>1, <1>2, ElsewhereAwaited, WaitStep

\* The process of a new session is up; its read loop is not there yet.
LEMMA CreateSpawnedWait ==
  ASSUME IInv, WaitInv, NEW h \in Actors, NEW p \in Procs, CreateSpawned(h, p)
  PROVE  WaitInv'
<1> DEFINE s == job[h].target
           r == [ses[s] EXCEPT !.claudeProc = p, !.status = "idle"]
<1>1. procs[p].st = "none" /\ procs' = [procs EXCEPT ![p].st = "alive"] /\ UNCHANGED rd
      /\ ses' = [ses EXCEPT ![s] = r]
  BY DEF CreateSpawned
<1>2. Onward /\ Begins(h) /\ Started(p)'
  BY <1>1, SpawnOnward
<1>3. \A t \in Sessions : ses[t] \in ChatSession /\ ses'[t] = IF t = s THEN r ELSE ses[t]
  BY <1>1, ProcsAndLoops
<1>4. s \in Sessions => r.claudeProc = p /\ r.readTask = ses[s].readTask
  BY <1>3 DEF ChatSession
<1> HIDE DEF r
<1>5. RefersOn
  BY <1>2, <1>3, <1>4 DEF RefersOn, Started
<1>6. OthersStay(h) /\ job'[h].pc = "create_store" /\ job'[h].proc = p
  <2>1. OthersStay(h) /\ job'[h] = [job[h] EXCEPT !.pc = "create_store", !.proc = p]
    BY JobSet DEF CreateSpawned
  <2>2. job[h] \in Job
    BY ProcsAndLoops
  <2> QED BY <2>1, <2>2 DEF Job
<1>7. rd'[p].st = "none"
  BY <1>1 DEF WaitInv, Started, Begun
<1>8. Awaited(h)'
  BY <1>2, <1>6, <1>7 DEF Awaited, Started, Begun
<1> QED BY <1>2, <1>5, <1>6, <1>8, WaitStep

\* The new session is stored: its read loop is started.
LEMMA CreateStoredWait ==
  ASSUME IInv, WaitInv, NEW h \in Actors, CreateStored(h)
  PROVE  WaitInv'
<1> DEFINE s == job[h].target
           l == [NoLoop EXCEPT !.st = "scheduled", !.session = s]
<1>0. PICK p : p = job[h].proc
  OBVIOUS
<1> DEFINE rec == [ses[s] EXCEPT !.readTask = p]
<1>1. p \in Procs /\ Started(p) /\ ~Begun(p) /\ job[h].pc = "create_store"
  BY <1>0 DEF WaitInv, Awaited, CreateStored, At
<1>2. rd' = [rd EXCEPT ![p] = l] /\ UNCHANGED procs /\ ses' \in {[ses EXCEPT ![s] = rec], [ses EXCEPT ![s] = Record(rec)]}
  BY <1>0 DEF CreateStored
<1>3. l.st = "scheduled"
  BY DEF NoLoop
<1> HIDE DEF l
<1>4. rd'[p].st = "scheduled" /\ \A q \in Procs \ {p} : rd'[q] = rd[q]
  BY <1>1, <1>2, <1>3, ProcsAndLoops
<1>5. Onward /\ Begins(h)
  BY <1>1, <1>2, <1>4 DEF Onward, Begins, Started, Signalled, Begun, Ending
<1>6. RefersOn
  <2>1. \A t \in Sessions : ses[t] \in ChatSession /\ (ses'[t] = ses[t] \/ (t = s /\ ses'[t] \in {rec, Record(rec)}))
    BY <1>2, ProcsAndLoops
  <2>2. s \in Sessions => /\ rec.claudeProc = ses[s].claudeProc /\ rec.readTask = p
                          /\ Record(rec).claudeProc = rec.claudeProc /\ Record(rec).readTask = rec.readTask
    <3>1. s \in Sessions => rec \in ChatSession /\ rec.claudeProc = ses[s].claudeProc /\ rec.readTask = p
      BY <1>1, <2>1 DEF ChatSession
    <3> HIDE DEF rec
    <3> QED BY <3>1 DEF Record, ChatSession
  <2> HIDE DEF rec
  <2> QED BY <1>4, <2>1, <2>2 DEF RefersOn
<1>7. OthersStay(h) /\ job'[h].pc \notin Waiting
  <2>1. CASE job' = [job EXCEPT ![h].pc = "send_write"]
    <3>1. OthersStay(h) /\ job'[h].pc = "send_write"
      BY <2>1, JobGoes
    <3> QED BY <3>1 DEF Waiting
  <2>2. CASE Return(h)
    BY <2>2, JobReturns
  <2> QED BY <2>1, <2>2 DEF CreateStored
<1> QED BY <1>5, <1>6, <1>7, ElsewhereAwaited, WaitStep

\* Processes keep what became of them.
LEMMA SameProcs ==
  ASSUME IInv, \A p \in Procs : procs'[p].st = procs[p].st, UNCHANGED rd
  PROVE  Onward /\ (\A h : Begins(h)) /\ \A p \in Procs : Begun(p)' => Begun(p)
BY DEF Onward, Begins, Started, Signalled, Begun, Ending

\* A message is written to a process, which counts it or not.
LEMMA SendWriteWait ==
  ASSUME IInv, WaitInv, NEW h \in Actors, SendWrite(h)
  PROVE  WaitInv'
<1>1. PICK s : s = job[h].target
  OBVIOUS
<1>2. \A p \in Procs : procs'[p].st = procs[p].st
  <2>1. CASE procs' = procs
    BY <2>1
  <2>2. CASE \E p : procs' = [procs EXCEPT ![p].inbox = @ + 1]
    BY <2>2, ProcsAndLoops DEF Process
  <2> QED BY <2>1, <2>2 DEF SendWrite, WriteToStdin
<1>3. RefersOn
  <2>1. CASE UNCHANGED ses
    BY <2>1, RefersKept
  <2>2. CASE ses' = [ses EXCEPT ![s] = Push(ses[s], "error")]
    <3>1. s \in Sessions => KeepsReferences(Push(ses[s], "error"), s)
      BY KeptAsIs, EditsKeep DEF Events
    <3> QED BY <2>2, <3>1, RefersEdit
  <2> QED BY <1>1, <2>1, <2>2 DEF SendWrite, WriteToStdin
<1>4. Onward /\ Begins(h)
  BY <1>2, SameProcs DEF SendWrite
<1> QED BY <1>3, <1>4, JobReturns, ElsewhereAwaited, WaitStep DEF SendWrite

\* A read loop goes on, or ends.
LEMMA LoopWait ==
  ASSUME IInv, WaitInv, NEW p \in Procs, NEW l, rd' = [rd EXCEPT ![p] = l], Begun(p), l.st # "none",
         Ending(p) => l.cancel \/ l.st \in {"closing", "done"},
         \A q \in Procs : procs'[q].st = procs[q].st, RefersOn, UNCHANGED job
  PROVE  WaitInv'
<1>1. rd'[p] = l /\ \A q \in Procs \ {p} : rd'[q] = rd[q]
  BY ProcsAndLoops
<1>2. Onward /\ \A q \in Procs : Begun(q)' => Begun(q)
  BY <1>1 DEF Onward, Started, Signalled, Begun, Ending
<1> QED BY <1>2, WaitAround

\* A read loop that has ended by itself.
LEMMA OverEnds == ASSUME NEW p PROVE Over(p).st = "done"
BY DEF Over, NoLoop

\* A read loop runs for the first time.
LEMMA ReaderStartWait ==
  ASSUME IInv, WaitInv, NEW p \in Procs, ReaderStart(p)
  PROVE  WaitInv'
<1>1. rd[p] \in ReadLoop /\ rd[p].st = "scheduled" /\ ~rd[p].cancel
  BY ProcsAndLoops DEF ReaderStart
<1>2. PICK l : rd' = [rd EXCEPT ![p] = l] /\ l.st # "none"
  <2>1. CASE rd' = [rd EXCEPT ![p] = Over(p)]
    BY <2>1, OverEnds
  <2>2. CASE \E b : rd' = [rd EXCEPT ![p] = [rd[p] EXCEPT !.st = "reading", !.bound = b]]
    <3>1. PICK b : rd' = [rd EXCEPT ![p] = [rd[p] EXCEPT !.st = "reading", !.bound = b]]
      BY <2>2
    <3>2. [rd[p] EXCEPT !.st = "reading", !.bound = b].st = "reading"
      BY <1>1 DEF ReadLoop
    <3> QED BY <3>1, <3>2
  <2> QED BY <2>1, <2>2 DEF ReaderStart
<1>3. Begun(p) /\ ~Ending(p)
  BY <1>1 DEF Begun, Ending
<1> QED BY <1>2, <1>3, RefersKept, LoopWait DEF ReaderStart

\* A read loop is cancelled where it changes nothing any more.
LEMMA ReaderDroppedWait ==
  ASSUME IInv, WaitInv, NEW p \in Procs, ReaderDropped(p)
  PROVE  WaitInv'
<1> DEFINE l == [Over(p) EXCEPT !.cancel = TRUE]
<1>1. rd' = [rd EXCEPT ![p] = l] /\ Begun(p)
  BY DEF ReaderDropped, Begun
<1>2. l.st = "done"
  BY DEF Over, NoLoop
<1> HIDE DEF l
<1> QED BY <1>1, <1>2, RefersKept, LoopWait DEF ReaderDropped

\* A read loop has closed its session.
LEMMA ReaderClosedWait ==
  ASSUME IInv, WaitInv, NEW p \in Procs, ReaderClosed(p)
  PROVE  WaitInv'
<1> DEFINE s == rd[p].session
<1>1. rd' = [rd EXCEPT ![p] = Over(p)] /\ Begun(p)
  BY DEF ReaderClosed, Begun
<1>2. ses' = [ses EXCEPT ![s] = [ses[s] EXCEPT !.status = "closed"]]
  BY DEF ReaderClosed
<1>3. s \in Sessions => KeepsReferences([ses[s] EXCEPT !.status = "closed"], s)
  BY KeptAsIs, EditsKeep DEF Statuses
<1>4. RefersOn
  BY <1>2, <1>3, RefersEdit
<1> QED BY <1>1, <1>4, OverEnds, LoopWait DEF ReaderClosed

\* The finally clause of a read loop, up to its await.
LEMMA ReaderFinallyWait ==
  ASSUME IInv, WaitInv, NEW p \in Procs, NEW rec, rd[p].session \in Sessions => KeepsReferences(rec, rd[p].session),
         Begun(p), UNCHANGED procs, ReaderFinally(p, rec)
  PROVE  WaitInv'
<1>1. PICK s : s = rd[p].session
  OBVIOUS
<1>2. RefersOn
  <2>1. s \in Sessions => KeepsReferences(rec, s) /\ KeepsReferences(Announce(rec), s)
    BY <1>1, EditsKeep
  <2>2. ses' = [ses EXCEPT ![s] = rec] \/ ses' = [ses EXCEPT ![s] = Announce(rec)]
    BY <1>1 DEF ReaderFinally
  <2> QED BY <2>1, <2>2, RefersEdit
<1>3. PICK l : rd' = [rd EXCEPT ![p] = l] /\ l.st \in {"closing", "done"}
  <2>1. CASE rd' = [rd EXCEPT ![p] = Over(p)]
    BY <2>1, OverEnds
  <2>2. CASE rd' = [rd EXCEPT ![p] = [rd[p] EXCEPT !.st = "closing", !.cancel = FALSE]]
    <3>1. rd[p] \in ReadLoop
      BY ProcsAndLoops
    <3>2. [rd[p] EXCEPT !.st = "closing", !.cancel = FALSE].st = "closing"
      BY <3>1 DEF ReadLoop
    <3> QED BY <2>2, <3>2
  <2> QED BY <2>1, <2>2 DEF ReaderFinally
<1>4. UNCHANGED job
  BY DEF ReaderFinally
<1> QED BY <1>2, <1>3, <1>4, LoopWait

\* The ways into the finally clause.
LEMMA ReaderEndsWait ==
  ASSUME IInv, WaitInv, NEW p \in Procs, ReaderCancelled(p) \/ ReaderEof(p) \/ ReaderError(p)
  PROVE  WaitInv'
<1>1. PICK s : s = rd[p].session
  OBVIOUS
<1>2. Begun(p)
  BY DEF ReaderCancelled, ReaderEof, ReaderError, Begun
<1>3. s \in Sessions => KeepsReferences(ses[s], s) /\ KeepsReferences(Push(ses[s], "error"), s)
  BY KeptAsIs, EditsKeep DEF Events
<1>4. UNCHANGED procs
  BY DEF ReaderCancelled, ReaderEof, ReaderError, ReaderFinally
<1>5. ReaderFinally(p, ses[s]) \/ ReaderFinally(p, Push(ses[s], "error"))
  BY <1>1 DEF ReaderCancelled, ReaderEof, ReaderError
<1> QED BY <1>1, <1>2, <1>3, <1>4, <1>5, ReaderFinallyWait

\* A read loop takes the result of a turn from its process.
LEMMA ReaderResultWait ==
  ASSUME IInv, WaitInv, NEW p \in Procs, ReaderResult(p)
  PROVE  WaitInv'
<1> DEFINE l == [rd[p] EXCEPT !.st = "storing"]
<1>1. rd' = [rd EXCEPT ![p] = l] /\ Begun(p) /\ ~Ending(p)
  BY DEF ReaderResult, Begun, Ending
<1>2. l.st = "storing"
  BY ProcsAndLoops DEF ReadLoop
<1> HIDE DEF l
<1>3. \A q \in Procs : procs'[q].st = procs[q].st
  BY ProcsAndLoops DEF ReaderResult, Process
<1> QED BY <1>1, <1>2, <1>3, RefersKept, LoopWait DEF ReaderResult

\* The result is stored: the session is idle again.
LEMMA ReaderResultStoredWait ==
  ASSUME IInv, WaitInv, NEW p \in Procs, ReaderResultStored(p)
  PROVE  WaitInv'
<1> DEFINE l == [rd[p] EXCEPT !.st = "reading"]
           s == rd[p].session
           a == [ses[s] EXCEPT !.status = "idle"]
<1>1. rd' = [rd EXCEPT ![p] = l] /\ Begun(p) /\ ~Ending(p)
  BY DEF ReaderResultStored, Begun, Ending
<1>2. l.st = "reading"
  BY ProcsAndLoops DEF ReadLoop
<1> HIDE DEF l
<1>3. RefersOn
  <2>1. ses' = [ses EXCEPT ![s] = Push(a, "result")]
    BY DEF ReaderResultStored
  <2>2. s \in Sessions => KeepsReferences(Push(a, "result"), s)
    <3>1. s \in Sessions => KeepsReferences(a, s)
      BY KeptAsIs, EditsKeep DEF Statuses
    <3> HIDE DEF a
    <3> QED BY <3>1, EditsKeep DEF Events
  <2> QED BY <2>1, <2>2, RefersEdit
<1> QED BY <1>1, <1>2, <1>3, LoopWait DEF ReaderResultStored

\* A process exits.
LEMMA ProcExitWait ==
  ASSUME IInv, WaitInv, NEW p \in Procs, ProcExit(p)
  PROVE  WaitInv'
<1>1. procs[p].st \in {"alive", "killed"} /\ procs'[p].st = "exited" /\ \A q \in Procs \ {p} : procs'[q] = procs[q]
  BY ProcsAndLoops DEF ProcExit, Process
<1>2. Onward /\ \A q \in Procs : Begun(q)' => Begun(q)
  BY <1>1 DEF ProcExit, Onward, Started, Signalled, Begun, Ending
<1> QED BY <1>2, RefersKept, WaitAround DEF ProcExit

\* A session becomes old enough to be cleaned up.
LEMMA ExpireWait ==
  ASSUME IInv, WaitInv, NEW s \in Sessions, Expire(s)
  PROVE  WaitInv'
<1>1. ses' = [ses EXCEPT ![s] = [ses[s] EXCEPT !.stale = TRUE]]
  BY DEF Expire
<1>2. RefersOn
  BY <1>1, KeptAsIs, EditsKeep, RefersEdit
<1>3. UNCHANGED <<job, procs, rd>>
  BY DEF Expire
<1> QED BY <1>2, <1>3, SameProcs, WaitAround

\* A step that changes nothing a request waits for or refers to.
LEMMA ElsewhereWait ==
  ASSUME IInv, WaitInv, UNCHANGED <<ses, job, procs, rd>>
  PROVE  WaitInv'
BY SameProcs, RefersKept, WaitAround

\* The clean-up lists old sessions, or closes one.
LEMMA CleanupWait ==
  ASSUME IInv, WaitInv, NEW c \in Cleaners, Cleanup(c)
  PROVE  WaitInv'
<1>1. CASE CleanupSnapshot(c)
  BY <1>1, ElsewhereWait DEF CleanupSnapshot
<1>2. ASSUME NEW s \in Sessions, CleanupClose(c, s) PROVE WaitInv'
  <2>1. CASE CloseBegin(c, s, "none")
    BY <2>1, CloseBeginWait DEF Actors
  <2>2. CASE UNCHANGED <<ses, job, procs, rd>>
    BY <2>2, ElsewhereWait
  <2> QED BY <1>2, <2>1, <2>2 DEF CleanupClose
<1> QED BY <1>1, <1>2 DEF Cleanup

\* Nobody waits for anything when the Bridge starts.
LEMMA InitWait == Init => WaitInv
<1> SUFFICES ASSUME Init PROVE WaitInv
  OBVIOUS
<1>1. job = [h \in Actors |-> Ready] /\ ses = [s \in Sessions |-> Unborn] /\ rd = [p \in Procs |-> NoLoop]
  BY DEF Init
<1>2. Ready.pc = "ready" /\ Unborn.claudeProc = None /\ Unborn.readTask = None /\ NoLoop.st = "none"
  BY DEF Ready, Unborn, NoLoop
<1>3. \A p \in Procs : Begun(p) => Started(p)
  BY <1>1, <1>2 DEF Begun
<1>4. \A s \in Sessions : Refers(s)
  BY <1>1, <1>2 DEF Refers
<1>5. \A h \in Actors : Awaited(h)
  BY <1>1, <1>2 DEF Awaited
<1> QED BY <1>3, <1>4, <1>5 DEF WaitInv

\* Every step keeps what the requests wait for.
LEMMA NextWait == IInv /\ WaitInv /\ [Next]_vars => WaitInv'
<1> SUFFICES ASSUME IInv, WaitInv, [Next]_vars PROVE WaitInv'
  OBVIOUS
<1>1. Clients \subseteq Actors
  BY DEF Actors
<1>2. ASSUME NEW h \in Clients, Request(h) PROVE WaitInv'
  <2>1. ASSUME NEW s \in Sessions, NEW m \in Modes, NEW w \in {"none", "prompt"}, Create(h, s, m, w)
        PROVE  WaitInv'
    BY <1>1, <2>1, CreateBeginWait DEF Create
  <2>2. ASSUME NEW s \in Sessions, Close(h, s) PROVE WaitInv'
    BY <1>1, <2>2, CloseBeginWait DEF Close
  <2> QED BY <1>1, <1>2, <2>1, <2>2, SendCheckWait, AbortBeginWait, ModeBeginWait, ResetWait DEF Request
<1>3. ASSUME NEW h \in Clients, ResumeLocked(h) PROVE WaitInv'
  <2>1. ASSUME NEW s \in Sessions, ResetCreate(h, s) PROVE WaitInv'
    <3>1. DefaultMode \in Modes
      BY ConstantsAssumption
    <3> QED BY <1>1, <2>1, <3>1, CreateBeginWait DEF ResetCreate
  <2>2. ASSUME NEW t \in Sessions, SwitchActive(h, t) PROVE WaitInv'
    BY <1>1, <2>2, AnsweredWait DEF SwitchActive
  <2>3. CASE ResetCreateFailed(h)
    BY <1>1, <2>3, AnsweredWait DEF ResetCreateFailed
  <2> QED BY <1>1, <1>3, <2>1, <2>2, <2>3, SendRecordWait, ResetWait DEF ResumeLocked
<1>4. ASSUME NEW h \in Actors, Resume(h) PROVE WaitInv'
  <2>1. CASE SendRestartFailed(h) \/ LocalCommand(h)
    BY <2>1, AnsweredWait DEF SendRestartFailed, LocalCommand
  <2> QED BY <1>4, <2>1, CreateSpawnedWait, CreateSpawnFailedWait, CreateStoredWait, SendRestartedWait,
             SendWriteWait, AbortReaderDoneWait, AbortFinishWait, ModeProcGoneWait, ModeReaderCancelledWait,
             ModeReaderDoneWait, ModeReaderTimedOutWait, ModeSpawnedWait, ModeSpawnFailedWait, CloseReaderDoneWait,
             CloseProcGoneWait, CloseDropWait DEF Resume
<1>5. ASSUME NEW p \in Procs, Reader(p) \/ Output(p) \/ ProcExit(p) PROVE WaitInv'
  BY <1>5, ReaderStartWait, ReaderDroppedWait, ReaderClosedWait, ReaderEndsWait, ReaderResultWait,
     ReaderResultStoredWait, ProcExitWait DEF Reader, Output
<1>6. CASE UNCHANGED vars
  BY <1>6, ElsewhereWait DEF vars
<1> QED BY <1>2, <1>3, <1>4, <1>5, <1>6, ModeReaderTimeoutWait, CleanupWait, ExpireWait DEF Next

\* What a session refers to was started, and what a request waits for was signalled or
\* cancelled before it began to wait, at every await of every interleaving.
THEOREM WaitInvariance == Spec => []WaitInv
<1>1. Init => IInv /\ WaitInv
  BY InitIInv, InitWait
<1>2. IInv /\ WaitInv /\ [Next]_vars => (IInv /\ WaitInv)'
  BY NextIInv, NextWait
<1> QED BY <1>1, <1>2, PTL DEF Spec

\* No request waits for the exit of a process nobody signalled or for the end of a read
\* loop nobody cancelled: what abort_session, set_mode and close_session wait for,
\* the manager's lock possibly held, is always under way.
THEOREM WaitsTheorem == Spec => []WaitsAreServed
<1>1. WaitInv => WaitsAreServed
  BY DEF WaitInv, Awaited, WaitsAreServed
<1> QED BY <1>1, WaitInvariance, PTL

-----------------------------------------------------------------------------
(* What the lock is worth (Apart): the process and the read loop of a session *)

\* A process that has not exited.
Running == {"alive", "killed"}

\* A read loop that has not ended.
Live(p) == rd[p].st \notin {"none", "done"}

\* A loop that has not ended is the one its session refers to, and the process
\* of that session is still the one whose start created the loop, or none.
LoopServes(p) ==
  /\ rd[p].session = None <=> rd[p].st = "none"
  /\ procs[p].st = "none" => rd[p].st = "none"
  /\ Live(p) => /\ rd[p].session \in sessions
                /\ ses[rd[p].session].readTask = p
                /\ ses[rd[p].session].claudeProc \in {p, None}
  /\ rd[p].st \in {"reading", "storing"} => rd[p].bound = p

\* A request that waits for the read loop to end after the process has.
AwaitsLoop(h) == job[h].pc \in {"mode_reader", "mode_cancel"}

\* The process of a session was started and the session is registered; its loop
\* is its own; without a process that loop has ended, or a request waits for
\* its end.
SessionOwns(s) ==
  LET p == ses[s].claudeProc
      t == ses[s].readTask
  IN
  /\ p # None => s \in sessions /\ procs[p].st # "none"
  /\ t # None => rd[t].session = s
  /\ p = None /\ ~Done(t) => \E h \in Actors : job[h].target = s /\ AwaitsLoop(h)

\* No two sessions share a process.
OwnProcess ==
  \A r, s \in Sessions :
    ses[r].claudeProc = ses[s].claudeProc /\ ses[r].claudeProc # None => r = s

\* What a suspended request still finds as it left it.
RequestFinds(h) ==
  LET j == job[h]
      p == ses[j.target].claudeProc
      t == ses[j.target].readTask
  IN
  /\ j.pc \notin {"ready", "reset_create", "create_spawn", "dispatch"} => j.target \in sessions
  /\ j.pc = "dispatch" /\ j.plan = "text" => j.target \in sessions
  /\ j.pc \in {"create_spawn", "send_spawn", "mode_spawn", "mode_reader", "mode_cancel", "close_drop"}
       => p = None
  /\ j.pc \in {"create_store", "mode_wait", "close_wait"} => p = j.proc /\ p # None
  /\ j.pc \in {"abort_reader", "abort_wait"} => p \in {j.proc, None} /\ j.proc # None
  /\ j.pc \in {"create_spawn", "create_store"} => t = None
  /\ j.pc = "create_store" => rd[p].st = "none"
  /\ j.pc \in {"abort_wait", "close_wait", "close_drop"} => Done(t)
  /\ j.pc \in {"mode_reader", "mode_cancel", "close_reader"} => t = j.task /\ t # None
  /\ j.pc = "abort_reader" => t \in {j.task, None} /\ j.task # None
  /\ j.pc = "close_reader" => p # None /\ (rd[t].cancel \/ Done(t))
  /\ j.pc \in Closing => ses[j.target].status = "closed"
  /\ j.pc = "close_drop" => ses[j.target].last = "session_closed"

\* A session that was removed was closed, and announced so.
DroppedIsOver(s) == Dropped(s) => ses[s].status = "closed" /\ ses[s].last = "session_closed"

\* The inductive invariant, next to IInv.
ProcessInv ==
  /\ \A p \in Procs : LoopServes(p)
  /\ \A s \in Sessions : SessionOwns(s) /\ DroppedIsOver(s)
  /\ OwnProcess
  /\ \A h \in Actors : RequestFinds(h)
  /\ NoOrphanProcess

-----------------------------------------------------------------------------
(* A step works on one session *)

\* What a request must not be moved away from by a step on another session.
Pinned(h) == AwaitsLoop(h) \/ job[h].pc = "create_spawn"

\* No other session is touched.
OtherSessionsKept(s) ==
  \A r \in Sessions \ {s} : ses'[r] = ses[r] /\ (r \in sessions' <=> r \in sessions)

\* A request is left alone, or finds afterwards what it needs; only a request on s
\* leaves a place where others rely on it.
RequestsFollow(s) ==
  \A g \in Actors :
    \/ job'[g] = job[g] /\ (job[g].target # s \/ RequestFinds(g)')
    \/ RequestFinds(g)' /\ (Pinned(g) => job[g].target = s)

\* A loop is left alone, or is a loop of s and in order afterwards.
LoopsFollow(s) ==
  \A p \in Procs :
    \/ rd'[p] = rd[p] /\ rd[p].session # s
    \/ LoopServes(p)' /\ (rd[p].session = s \/ (rd[p].st = "none" /\ ses'[s].claudeProc = p))

\* A process comes to life for s only, and one that s gives up is not running.
ProcessesFollow(s) ==
  /\ \A p \in Procs : procs'[p].st = "none" => procs[p].st = "none"
  /\ \A p \in Procs : procs'[p].st \in Running =>
       \/ ses'[s].claudeProc = p /\ s \in sessions'
       \/ procs[p].st \in Running /\ ses[s].claudeProc # p
  /\ ses'[s].claudeProc \in {None, ses[s].claudeProc} \/ procs[ses'[s].claudeProc].st = "none"

\* A step that works on s only, and leaves s, its loops and its request in order.
LEMMA StepOnSession ==
  ASSUME IInv, IInv', ProcessInv, NEW s \in Sessions, OtherSessionsKept(s), RequestsFollow(s),
         LoopsFollow(s), ProcessesFollow(s), SessionOwns(s)', DroppedIsOver(s)'
  PROVE  ProcessInv'
<1> USE DEF ProcessInv
<1>1. ASSUME NEW r \in Sessions, NEW q \in Sessions, ses'[r].claudeProc = ses'[q].claudeProc,
             ses'[r].claudeProc # None
      PROVE  r = q
  BY <1>1 DEF OtherSessionsKept, ProcessesFollow, OwnProcess, SessionOwns
<1>2. OwnProcess'
  BY <1>1 DEF OwnProcess
<1>3. ASSUME NEW p \in Procs PROVE LoopServes(p)'
  <2>1. CASE rd'[p] = rd[p] /\ rd[p].session # s
    <3>1. rd[p].session = None <=> rd[p].st = "none"
      BY DEF LoopServes
    <3>2. procs'[p].st = "none" => rd'[p].st = "none"
      BY <2>1 DEF LoopServes, ProcessesFollow
    <3>3. Live(p)' => Live(p)
      BY <2>1 DEF Live
    <3>4. ASSUME Live(p)
          PROVE  /\ rd[p].session \in sessions'
                 /\ ses'[rd[p].session] = ses[rd[p].session]
      BY <2>1, <3>4 DEF LoopServes, OtherSessionsKept, IInv, TypeOK
    <3> QED BY <2>1, <3>1, <3>2, <3>3, <3>4 DEF LoopServes
  <2> QED BY <2>1 DEF LoopsFollow
<1>4. ASSUME NEW r \in Sessions, r # s PROVE SessionOwns(r)'
  <2> DEFINE t == ses[r].readTask
  <2>1. ses'[r] = ses[r] /\ (r \in sessions' <=> r \in sessions)
    BY <1>4 DEF OtherSessionsKept
  <2>2. t # None => rd'[t] = rd[t]
    <3>1. t # None => t \in Procs /\ rd[t].session = r /\ rd[t].session # None
      BY <1>4 DEF SessionOwns, IInv, TypeOK, ChatSession
    <3> QED BY <1>4, <3>1 DEF LoopsFollow, LoopServes
  <2>3. ses'[r].claudeProc # None => r \in sessions' /\ procs'[ses'[r].claudeProc].st # "none"
    BY <2>1 DEF SessionOwns, ProcessesFollow, IInv, TypeOK, ChatSession
  <2>4. ASSUME ses'[r].claudeProc = None, ~Done(t)'
        PROVE  \E h \in Actors : job'[h].target = r /\ AwaitsLoop(h)'
    <3>1. PICK h \in Actors : job[h].target = r /\ AwaitsLoop(h)
      BY <2>1, <2>2, <2>4 DEF SessionOwns, Done
    <3>2. job'[h] = job[h]
      BY <1>4, <3>1 DEF RequestsFollow, Pinned
    <3> QED BY <3>1, <3>2 DEF AwaitsLoop
  <2> QED BY <2>1, <2>2, <2>3, <2>4 DEF SessionOwns, Done
<1>5. ASSUME NEW r \in Sessions, r # s PROVE DroppedIsOver(r)'
  <2>1. ses'[r] = ses[r] /\ (r \in sessions' <=> r \in sessions)
    BY <1>5 DEF OtherSessionsKept
  <2>2. ASSUME NEW h \in Actors, Creating(h, r) PROVE Creating(h, r)'
    BY <1>5, <2>2 DEF RequestsFollow, Pinned, Creating
  <2> QED BY <2>1, <2>2 DEF DroppedIsOver, Dropped
<1>6. ASSUME NEW g \in Actors PROVE RequestFinds(g)'
  <2>1. CASE job'[g] = job[g] /\ job[g].target # s
    <3> DEFINE r == job[g].target
               t == ses[r].readTask
               p == ses[r].claudeProc
    <3>1. CASE job[g].pc \in {"ready", "reset_create"}
      BY <2>1, <3>1 DEF RequestFinds, Closing
    <3>2. CASE job[g].pc \notin {"ready", "reset_create"}
      <4>1. r \in Sessions /\ r # s
        BY <2>1, <3>2 DEF IInv, Targets
      <4>2. ses'[r] = ses[r] /\ (r \in sessions' <=> r \in sessions)
        BY <4>1 DEF OtherSessionsKept
      <4>3. t # None => rd'[t] = rd[t]
        <5>1. t # None => t \in Procs /\ rd[t].session = r /\ rd[t].session # None
          BY <4>1 DEF SessionOwns, IInv, TypeOK, ChatSession
        <5> QED BY <4>1, <5>1 DEF LoopsFollow, LoopServes
      <4>5. ASSUME p # None, rd[p].st = "none" PROVE rd'[p].st = "none"
        <5>1. p \in Procs /\ ses'[s].claudeProc # p
          BY <4>1, <4>2, <4>5, <1>1 DEF IInv, TypeOK, ChatSession
        <5>2. rd[p].session # s
          BY <4>5, <5>1 DEF LoopServes
        <5> QED BY <4>5, <5>1, <5>2 DEF LoopsFollow
      <4> HIDE DEF r, t, p, ProcessInv
      <4>6. RequestFinds(g)
        BY DEF ProcessInv
      <4> QED BY <2>1, <4>2, <4>3, <4>5, <4>6 DEF RequestFinds, Done, r, t, p
    <3> QED BY <3>1, <3>2
  <2> QED BY <2>1 DEF RequestsFollow
<1>7. ASSUME NEW p \in Procs, procs'[p].st \in Running
      PROVE  \E r \in sessions' : ses'[r].claudeProc = p
  <2>1. CASE procs[p].st \in Running /\ ses[s].claudeProc # p
    BY <2>1 DEF NoOrphanProcess, Running, OtherSessionsKept, IInv, TypeOK
  <2> QED BY <1>7, <2>1 DEF ProcessesFollow
<1>8. NoOrphanProcess'
  BY <1>7 DEF NoOrphanProcess, Running
<1> QED BY <1>2, <1>3, <1>4, <1>5, <1>6, <1>8


\* A step that moves requests only.
LEMMA StepOnRequests ==
  ASSUME IInv, ProcessInv, UNCHANGED <<sessions, ses, procs, rd>>,
         \A g \in Actors : job'[g] = job[g] \/ (RequestFinds(g)' /\ ~Pinned(g))
  PROVE  ProcessInv'
<1> USE DEF ProcessInv
<1>1. ASSUME NEW p \in Procs PROVE LoopServes(p)'
  BY DEF LoopServes, Live
<1>2. ASSUME NEW s \in Sessions PROVE SessionOwns(s)'
  BY DEF SessionOwns, Done, AwaitsLoop, Pinned
<1>3. ASSUME NEW s \in Sessions PROVE DroppedIsOver(s)'
  BY DEF DroppedIsOver, Dropped, Creating, Pinned
<1>4. OwnProcess'
  BY DEF OwnProcess
<1>5. ASSUME NEW g \in Actors PROVE RequestFinds(g)'
  <2>1. RequestFinds(g)
    OBVIOUS
  <2>2. job'[g] = job[g] => RequestFinds(g)'
    BY <2>1 DEF RequestFinds, Done
  <2> QED BY <2>2
<1>6. NoOrphanProcess'
  BY DEF NoOrphanProcess
<1> QED BY <1>1, <1>2, <1>3, <1>4, <1>5, <1>6

\* What another request on s may do while a step changes the process of s or removes s.
Unharmed(g, s) ==
  \/ job[g].target # s
  \/ job[g].pc = "reset_create"
  \/ job[g].pc = "dispatch" /\ job[g].plan # "text"
  \/ job[g].pc \in OnItsWay /\ s \in sessions'

\* The points of a request that are not in a critical section.
LEMMA OpenPoints ==
  ASSUME IInv, NEW g \in Actors, job[g].pc \notin Critical, job[g].target # None
  PROVE  job[g].pc \in Unlocked \cup {"dispatch", "reset_create"}
<1>1. job[g].pc \in PCs /\ job[g].pc # "ready"
  BY DEF IInv, TypeOK, Job, Targets
<1> QED BY <1>1 DEF PCs, Critical, Unlocked

\* Where a request changes the process of its session: not while it is created or written to.
AtWork == (Critical \cup Unlocked) \ {"create_spawn", "send_write"}

\* Nobody meets a request at work on its session but messages on their way.
LEMMA Bystanders ==
  ASSUME Apart, IInv, NEW h \in Actors, job[h].pc \in AtWork, NEW g \in Actors \ {h},
         job[g].target = job[h].target
  PROVE  /\ job[g].pc \in OnItsWay \cup {"reset_create"}
         /\ job[h].pc \in Closing => job[g].pc # "send_write" /\ ~(job[g].pc = "dispatch" /\ job[g].plan = "text")
<1>1. job[h].target \in Sessions /\ job[h].target # None
  BY DEF IInv, Targets, AtWork, Critical, Unlocked
<1>2. job[h].pc \notin OnItsWay
  BY DEF AtWork, Critical, Unlocked, OnItsWay
<1>3. job[g].pc \notin Unlocked
  BY <1>1, <1>2 DEF Apart
<1>4. job[h].pc \in Critical => job[g].pc \notin Critical
  BY DEF IInv, LockDiscipline
<1>5. job[h].pc \in Unlocked => job[g].pc \in OnItsWay
  BY <1>1 DEF Apart
<1>6. job[h].pc \in Closing => job[h].pc \in Critical /\ ~(job[g].pc = "dispatch" /\ job[g].plan = "text")
  BY <1>1 DEF Apart, Closing, Critical
<1>7. job[h].pc \in Critical \/ job[h].pc \in Unlocked
  BY DEF AtWork
<1>8. "send_write" \in Critical
  BY DEF Critical
<1> QED BY <1>1, <1>3, <1>4, <1>5, <1>6, <1>7, <1>8, OpenPoints DEF OnItsWay

\* The same of a request that is at work after a step of its own.
LEMMA BystandersAfter ==
  ASSUME Apart', IInv, IInv', NEW h \in Actors, job'[h].pc \in AtWork, NEW g \in Actors \ {h},
         job'[g] = job[g], job[g].target = job'[h].target
  PROVE  /\ job[g].pc \in OnItsWay \cup {"reset_create"}
         /\ job'[h].pc \in Closing => job[g].pc # "send_write" /\ ~(job[g].pc = "dispatch" /\ job[g].plan = "text")
<1>1. job'[h].target \in Sessions /\ job'[h].target # None
  BY DEF IInv, Targets, AtWork, Critical, Unlocked
<1>2. job'[h].pc \notin OnItsWay
  BY DEF AtWork, Critical, Unlocked, OnItsWay
<1>3. job[g].pc \notin Unlocked
  BY <1>1, <1>2 DEF Apart
<1>4. job'[h].pc \in Critical => job[g].pc \notin Critical
  BY DEF IInv, LockDiscipline
<1>5. job'[h].pc \in Unlocked => job[g].pc \in OnItsWay
  BY <1>1 DEF Apart
<1>6. job'[h].pc \in Closing => job'[h].pc \in Critical /\ ~(job[g].pc = "dispatch" /\ job[g].plan = "text")
  BY <1>1 DEF Apart, Closing, Critical
<1>7. job'[h].pc \in Critical \/ job'[h].pc \in Unlocked
  BY DEF AtWork
<1>8. "send_write" \in Critical
  BY DEF Critical
<1> QED BY <1>1, <1>3, <1>4, <1>5, <1>6, <1>7, <1>8, OpenPoints DEF OnItsWay

\* Nobody else is in a critical section when a request is, or finds the lock free.
LEMMA NobodyElse ==
  ASSUME IInv, NEW h \in Actors, lock = None \/ job[h].pc \in Critical, NEW g \in Actors \ {h}
  PROVE  job[g].pc \notin Critical
BY DEF IInv, LockDiscipline

\* What a request finds that is at work, until it closes: its session is registered, and
\* nobody else is harmed as long as it stays so.
LEMMA WorksOn ==
  ASSUME Apart, IInv, ProcessInv, NEW h \in Actors, job[h].pc \in AtWork, UNCHANGED sessions
  PROVE  /\ job[h].target \in Sessions /\ job[h].target \in sessions
         /\ \A g \in Actors \ {h} : Unharmed(g, job[h].target)
<1>1. job[h].pc \notin {"ready", "reset_create", "create_spawn", "dispatch"}
  BY DEF AtWork, Critical, Unlocked
<1>2. job[h].target \in Sessions
  BY <1>1 DEF IInv, Targets
<1>3. job[h].target \in sessions
  BY <1>1 DEF ProcessInv, RequestFinds
<1> QED BY <1>2, <1>3, Bystanders DEF Unharmed

\* The same of a request that is at work after its step.
LEMMA TakesUp ==
  ASSUME Apart', IInv, IInv', NEW h \in Actors, job'[h].pc \in AtWork,
         \A g \in Actors \ {h} : job'[g] = job[g], job'[h].target \in sessions'
  PROVE  \A g \in Actors \ {h} : Unharmed(g, job'[h].target)
BY BystandersAfter DEF Unharmed

\* A step of a request on s, next to bystanders.
LEMMA OnlyMover ==
  ASSUME NEW h \in Actors, NEW s, \A g \in Actors \ {h} : Unharmed(g, s) /\ job'[g] = job[g],
         RequestFinds(h)', Pinned(h) => job[h].target = s
  PROVE  RequestsFollow(s)
<1>1. ASSUME NEW g \in Actors \ {h}, job[g].target = s PROVE RequestFinds(g)'
  BY <1>1 DEF Unharmed, OnItsWay, RequestFinds, Closing
<1> QED BY <1>1 DEF RequestsFollow

\* No process is started, and none comes back.
Alike ==
  \A p \in Procs : /\ procs'[p].st = "none" <=> procs[p].st = "none"
                   /\ procs'[p].st \in Running => procs[p].st \in Running

\* terminate() and kill() start no process.
LEMMA SignalAlike ==
  ASSUME procs \in [Procs -> Process], NEW p, Signal(p) PROVE Alike
<1>1. ASSUME NEW q \in Procs
      PROVE  procs'[q].st = procs[q].st \/ (procs[q].st = "alive" /\ procs'[q].st = "killed")
  BY DEF Signal, Process
<1> QED BY <1>1 DEF Alike, Running

\* A step that leaves the process and the loop of s alone.
LEMMA Assigned ==
  ASSUME IInv, ProcessInv, NEW s \in Sessions, s \in sessions, UNCHANGED <<sessions, rd>>, Alike,
         ses'[s].claudeProc = ses[s].claudeProc, ses'[s].readTask = ses[s].readTask,
         \A g \in Actors : job[g].target = s /\ AwaitsLoop(g)
                              => job'[g].target = s /\ AwaitsLoop(g)'
  PROVE  LoopsFollow(s) /\ ProcessesFollow(s) /\ SessionOwns(s)' /\ DroppedIsOver(s)'
<1> DEFINE t == ses[s].readTask
           p == ses[s].claudeProc
<1>0. t \in Procs \cup {None} /\ p \in Procs \cup {None}
  BY DEF IInv, TypeOK, ChatSession
<1>1. ASSUME NEW q \in Procs, rd[q].session = s PROVE LoopServes(q)'
  BY <1>1 DEF LoopServes, Live, ProcessInv, Alike
<1>2. LoopsFollow(s)
  BY <1>1 DEF LoopsFollow
<1>3. ProcessesFollow(s)
  BY DEF ProcessesFollow, Alike
<1>4. SessionOwns(s)'
  <2>1. SessionOwns(s)
    BY DEF ProcessInv
  <2> QED BY <1>0, <2>1 DEF SessionOwns, Alike, Done
<1>5. DroppedIsOver(s)'
  BY DEF DroppedIsOver, Dropped
<1> QED BY <1>2, <1>3, <1>4, <1>5

\* A restart starts a process for a session that has none, and its loop.
LEMMA Restarted ==
  ASSUME IInv, ProcessInv, NEW s \in Sessions, s \in sessions, NEW p \in Procs, Restart(s, p),
         UNCHANGED sessions, ses[s].claudeProc = None, Done(ses[s].readTask)
  PROVE  LoopsFollow(s) /\ ProcessesFollow(s) /\ SessionOwns(s)' /\ DroppedIsOver(s)'
<1>1. ses'[s].claudeProc = p /\ ses'[s].readTask = p
  BY DEF Restart, IInv, TypeOK, ChatSession
<1>2. /\ procs[p].st = "none" /\ procs'[p].st = "alive"
      /\ \A q \in Procs \ {p} : procs'[q] = procs[q] /\ rd'[q] = rd[q]
      /\ rd'[p].st = "scheduled" /\ rd'[p].session = s
  BY DEF Restart, IInv, TypeOK, Process, NoLoop
<1>3. rd[p].st = "none"
  BY <1>2 DEF ProcessInv, LoopServes
<1>4. LoopServes(p)'
  BY <1>1, <1>2 DEF LoopServes, Live
<1>5. ASSUME NEW q \in Procs, q # p, rd[q].session = s PROVE LoopServes(q)'
  <2>1. ~Live(q)
    BY <1>5 DEF ProcessInv, LoopServes, Done, Live
  <2> QED BY <1>2, <1>5, <2>1 DEF ProcessInv, LoopServes, Live
<1>6. LoopsFollow(s)
  BY <1>1, <1>2, <1>3, <1>4, <1>5 DEF LoopsFollow
<1>7. ProcessesFollow(s)
  BY <1>1, <1>2 DEF ProcessesFollow
<1>8. SessionOwns(s)'
  BY <1>1, <1>2 DEF SessionOwns
<1>9. DroppedIsOver(s)'
  BY DEF DroppedIsOver, Dropped
<1> QED BY <1>6, <1>7, <1>8, <1>9

\* A step that forgets the loop of s, which has ended, and changes no process.
LEMMA Unlinked ==
  ASSUME IInv, ProcessInv, NEW s \in Sessions, s \in sessions, UNCHANGED <<sessions, rd>>, Alike,
         Done(ses[s].readTask), ses'[s].claudeProc = ses[s].claudeProc,
         ses'[s].readTask \in {None, ses[s].readTask}
  PROVE  LoopsFollow(s) /\ ProcessesFollow(s) /\ SessionOwns(s)' /\ DroppedIsOver(s)'
<1>1. ASSUME NEW q \in Procs, rd[q].session = s PROVE LoopServes(q)'
  <2>1. ~Live(q)
    BY <1>1 DEF ProcessInv, LoopServes, Done, Live
  <2> QED BY <1>1, <2>1 DEF LoopServes, Live, ProcessInv, Alike
<1>2. LoopsFollow(s)
  BY <1>1 DEF LoopsFollow
<1>3. ProcessesFollow(s)
  BY DEF ProcessesFollow, Alike
<1>4. SessionOwns(s)'
  <2>1. SessionOwns(s)
    BY DEF ProcessInv
  <2>2. ses[s].readTask \in Procs \cup {None} /\ ses[s].claudeProc \in Procs \cup {None}
    BY DEF IInv, TypeOK, ChatSession
  <2> QED BY <2>1, <2>2 DEF SessionOwns, Alike, Done
<1>5. DroppedIsOver(s)'
  BY DEF DroppedIsOver, Dropped
<1> QED BY <1>2, <1>3, <1>4, <1>5

\* A step that forgets the process of s, which has exited, while the loop has
\* ended or a request waits for that.
LEMMA ProcessGone ==
  ASSUME IInv, ProcessInv, NEW s \in Sessions, s \in sessions, UNCHANGED <<sessions, rd, procs>>,
         ses'[s].claudeProc = None, ses'[s].readTask \in {None, ses[s].readTask},
         \/ Done(ses[s].readTask)
         \/ ses'[s].readTask # None /\ \E g \in Actors : job'[g].target = s /\ AwaitsLoop(g)',
         ses[s].claudeProc # None => procs[ses[s].claudeProc].st = "exited"
  PROVE  LoopsFollow(s) /\ ProcessesFollow(s) /\ SessionOwns(s)' /\ DroppedIsOver(s)'
<1>1. ASSUME NEW q \in Procs, rd[q].session = s PROVE LoopServes(q)'
  <2>1. Live(q) => ses'[s].readTask = q
    BY <1>1 DEF ProcessInv, LoopServes, Done, Live
  <2> QED BY <1>1, <2>1 DEF LoopServes, Live, ProcessInv
<1>2. LoopsFollow(s)
  BY <1>1 DEF LoopsFollow
<1>3. ProcessesFollow(s)
  BY DEF ProcessesFollow, Running
<1>4. SessionOwns(s)'
  <2>1. SessionOwns(s)
    BY DEF ProcessInv
  <2> QED BY <2>1 DEF SessionOwns, Done
<1>5. DroppedIsOver(s)'
  BY DEF DroppedIsOver, Dropped
<1> QED BY <1>2, <1>3, <1>4, <1>5

\* task.cancel() on the loop of s.
LEMMA LoopCancelled ==
  ASSUME IInv, ProcessInv, NEW s \in Sessions, s \in sessions, UNCHANGED <<sessions, procs>>,
         NEW t \in Procs, rd[t].session = s, Cancel(t),
         ses'[s].claudeProc = ses[s].claudeProc, ses'[s].readTask = ses[s].readTask,
         \A g \in Actors : job[g].target = s /\ AwaitsLoop(g)
                              => job'[g].target = s /\ AwaitsLoop(g)'
  PROVE  LoopsFollow(s) /\ ProcessesFollow(s) /\ SessionOwns(s)' /\ DroppedIsOver(s)'
<1>1. \A q \in Procs : rd'[q].st = rd[q].st /\ rd'[q].session = rd[q].session /\ rd'[q].bound = rd[q].bound
  <2>1. ASSUME NEW q \in Procs PROVE /\ [rd[q] EXCEPT !.cancel = TRUE].st = rd[q].st
                                     /\ [rd[q] EXCEPT !.cancel = TRUE].session = rd[q].session
                                     /\ [rd[q] EXCEPT !.cancel = TRUE].bound = rd[q].bound
    BY DEF IInv, TypeOK, ReadLoop
  <2> QED BY <2>1 DEF Cancel, IInv, TypeOK
<1>2. ASSUME NEW q \in Procs, rd[q].session = s PROVE LoopServes(q)'
  BY <1>1, <1>2 DEF LoopServes, Live, ProcessInv
<1>3. LoopsFollow(s)
  <2>1. \A q \in Procs \ {t} : rd'[q] = rd[q]
    BY DEF Cancel, IInv, TypeOK
  <2> QED BY <1>2, <2>1 DEF LoopsFollow
<1>4. ProcessesFollow(s)
  BY DEF ProcessesFollow
<1>5. SessionOwns(s)'
  <2>1. SessionOwns(s)
    BY DEF ProcessInv
  <2>2. ses[s].readTask \in Procs \cup {None}
    BY DEF IInv, TypeOK, ChatSession
  <2> QED BY <1>1, <2>1, <2>2 DEF SessionOwns, Done
<1>6. DroppedIsOver(s)'
  BY DEF DroppedIsOver, Dropped
<1> QED BY <1>3, <1>4, <1>5, <1>6

-----------------------------------------------------------------------------
(* The requests, one at a time for each session *)

\* create_session, its start.
LEMMA CreateBeginKeeps ==
  ASSUME Apart, Apart', IInv, IInv', ProcessInv, NEW h \in Actors, NEW s \in Sessions, NEW m \in Modes, NEW w,
         job[h].pc \in {"ready", "reset_create"}, CreateBegin(h, s, m, w)
  PROVE  ProcessInv'
<1>1. /\ ses[s].owner = None /\ ses[s].claudeProc = None /\ ses[s].config = FALSE
  BY DEF CreateBegin, Unborn
<1>2. s \notin sessions
  BY <1>1 DEF IInv, ConfigLifetime
<1>3. ASSUME NEW g \in Actors \ {h} PROVE job[g].target # s
  <2>1. CASE g \in Clients
    BY <1>1, <2>1 DEF IInv, Isolation
  <2>2. CASE g \in Cleaners
    BY <1>2, <2>2 DEF IInv, Targets
  <2> QED BY <2>1, <2>2 DEF Actors
<1>4. /\ ses'[s].claudeProc = None /\ ses'[s].readTask = None
      /\ OtherSessionsKept(s) /\ UNCHANGED <<sessions, procs, rd>>
  BY DEF CreateBegin, Unborn, OtherSessionsKept, IInv, TypeOK
<1>5. /\ job'[h].pc = "create_spawn" /\ job'[h].target = s
      /\ \A g \in Actors \ {h} : job'[g] = job[g]
  BY DEF CreateBegin, Ready, IInv, TypeOK, Actors
<1>6. RequestFinds(h)'
  BY <1>4, <1>5 DEF RequestFinds, Closing
<1>7. RequestsFollow(s)
  BY <1>3, <1>5, <1>6, OnlyMover DEF Unharmed, Pinned, AwaitsLoop
<1>8. LoopsFollow(s)
  <2> SUFFICES ASSUME NEW q \in Procs, rd[q].session = s PROVE LoopServes(q)'
    BY <1>4 DEF LoopsFollow
  <2> QED BY <1>2, <1>4 DEF LoopServes, ProcessInv, Live
<1>9. ProcessesFollow(s)
  BY <1>1, <1>4 DEF ProcessesFollow
<1>10. SessionOwns(s)'
  BY <1>4 DEF SessionOwns, Done
<1>11. DroppedIsOver(s)'
  BY <1>5 DEF DroppedIsOver, Dropped, Creating, Actors
<1> QED BY <1>4, <1>7, <1>8, <1>9, <1>10, <1>11, StepOnSession

\* create_session, its process: no loop is running for it yet.
LEMMA CreateSpawnedKeeps ==
  ASSUME Apart, Apart', IInv, IInv', ProcessInv, NEW h \in Actors, NEW p \in Procs, CreateSpawned(h, p)
  PROVE  ProcessInv'
<1>0. PICK s : s = job[h].target
  OBVIOUS
<1> USE <1>0
<1>1. job[h].pc = "create_spawn" /\ RequestFinds(h)
  BY DEF CreateSpawned, At, ProcessInv
<1>2. s \in Sessions /\ (\A g \in Actors \ {h} : Unharmed(g, s)) /\ s \notin sessions
  BY <1>1 DEF IInv, Targets, Unharmed
<1>3. ses[s].claudeProc = None /\ ses[s].readTask = None
  BY <1>1 DEF RequestFinds
<1>4. /\ procs[p].st = "none" /\ procs'[p].st = "alive"
      /\ \A q \in Procs \ {p} : procs'[q] = procs[q]
      /\ UNCHANGED rd /\ rd[p].st = "none"
  BY DEF CreateSpawned, IInv, TypeOK, Process, ProcessInv, LoopServes
<1>5. /\ ses'[s].claudeProc = p /\ ses'[s].readTask = None /\ s \in sessions'
      /\ OtherSessionsKept(s)
  BY <1>2, <1>3 DEF CreateSpawned, IInv, TypeOK, ChatSession, OtherSessionsKept
<1>6. /\ job'[h].pc = "create_store" /\ job'[h].target = s /\ job'[h].proc = p
      /\ \A g \in Actors \ {h} : job'[g] = job[g]
  BY DEF CreateSpawned, IInv, TypeOK, Job, Actors
<1>7. RequestFinds(h)'
  BY <1>4, <1>5, <1>6 DEF RequestFinds, Closing
<1>8. RequestsFollow(s)
  BY <1>1, <1>2, <1>6, <1>7, OnlyMover
<1>9. LoopsFollow(s)
  <2> SUFFICES ASSUME NEW q \in Procs, rd[q].session = s PROVE LoopServes(q)'
    BY <1>4 DEF LoopsFollow
  <2>1. q # p /\ ~Live(q)
    BY <1>2, <1>4 DEF LoopServes, ProcessInv
  <2> QED BY <1>4, <2>1 DEF LoopServes, ProcessInv, Live
<1>10. ProcessesFollow(s)
  BY <1>3, <1>4, <1>5 DEF ProcessesFollow
<1>11. SessionOwns(s)'
  BY <1>4, <1>5 DEF SessionOwns, Done
<1>12. DroppedIsOver(s)'
  BY <1>5 DEF DroppedIsOver, Dropped
<1> QED BY <1>2, <1>5, <1>8, <1>9, <1>10, <1>11, <1>12, StepOnSession

\* create_session, when the process does not start: the session never was.
LEMMA CreateSpawnFailedKeeps ==
  ASSUME Apart, Apart', IInv, IInv', ProcessInv, NEW h \in Actors, CreateSpawnFailed(h)
  PROVE  ProcessInv'
<1>0. PICK s : s = job[h].target
  OBVIOUS
<1> USE <1>0
<1>1. job[h].pc = "create_spawn" /\ RequestFinds(h)
  BY DEF CreateSpawnFailed, At, ProcessInv
<1>2. s \in Sessions /\ (\A g \in Actors \ {h} : Unharmed(g, s)) /\ s \notin sessions
  BY <1>1 DEF IInv, Targets, Unharmed
<1>3. ses[s].claudeProc = None /\ ses[s].readTask = None
  BY <1>1 DEF RequestFinds
<1>4. /\ ses'[s].claudeProc = None /\ ses'[s].readTask = None /\ ses'[s].owner = None
      /\ OtherSessionsKept(s) /\ UNCHANGED <<sessions, procs, rd>>
  BY <1>2 DEF CreateSpawnFailed, Discard, Unborn, IInv, TypeOK, OtherSessionsKept
<1>5. job'[h].pc = "ready" /\ \A g \in Actors \ {h} : job'[g] = job[g]
  BY DEF CreateSpawnFailed, Return, Ready, IInv, TypeOK, Actors
<1>6. RequestFinds(h)'
  BY <1>5 DEF RequestFinds, Closing
<1>7. RequestsFollow(s)
  BY <1>1, <1>2, <1>5, <1>6, OnlyMover
<1>8. LoopsFollow(s)
  <2> SUFFICES ASSUME NEW q \in Procs, rd[q].session = s PROVE LoopServes(q)'
    BY <1>4 DEF LoopsFollow
  <2> QED BY <1>2, <1>4 DEF LoopServes, ProcessInv, Live
<1>9. ProcessesFollow(s)
  BY <1>3, <1>4 DEF ProcessesFollow
<1>10. SessionOwns(s)' /\ DroppedIsOver(s)'
  BY <1>4 DEF SessionOwns, Done, DroppedIsOver, Dropped
<1> QED BY <1>2, <1>4, <1>7, <1>8, <1>9, <1>10, StepOnSession

\* create_session, its loop: the first one of this session and this process.
LEMMA CreateStoredKeeps ==
  ASSUME Apart, Apart', IInv, IInv', ProcessInv, NEW h \in Actors, CreateStored(h)
  PROVE  ProcessInv'
<1>0. PICK s, p : s = job[h].target /\ p = job[h].proc
  OBVIOUS
<1> USE <1>0
<1>1. job[h].pc = "create_store" /\ RequestFinds(h) /\ UNCHANGED sessions
  BY DEF CreateStored, At, ProcessInv
<1>2. s \in Sessions /\ (\A g \in Actors \ {h} : Unharmed(g, s)) /\ s \in sessions
  BY <1>1, WorksOn DEF AtWork, Critical, Unlocked
<1>3. ses[s].claudeProc = p /\ ses[s].readTask = None /\ p \in Procs /\ rd[p].st = "none"
      /\ procs[p].st # "none"
  <2>1. SessionOwns(s)
    BY <1>2 DEF ProcessInv
  <2> QED BY <1>1, <1>2, <2>1 DEF RequestFinds, SessionOwns, IInv, TypeOK, ChatSession
<1>4. /\ \A q \in Procs \ {p} : rd'[q] = rd[q]
      /\ rd'[p].st = "scheduled" /\ rd'[p].session = s
      /\ UNCHANGED <<sessions, procs>>
  BY <1>3 DEF CreateStored, IInv, TypeOK, NoLoop
<1>5. ses'[s].claudeProc = p /\ ses'[s].readTask = p /\ OtherSessionsKept(s)
  <2> DEFINE rec == [ses[s] EXCEPT !.readTask = p]
  <2>1. rec \in ChatSession /\ rec.claudeProc = p /\ rec.readTask = p
    <3>1. ses[s] \in ChatSession
      BY <1>2 DEF IInv, TypeOK
    <3> QED BY <3>1, <1>3 DEF ChatSession
  <2>2. Record(rec).claudeProc = p /\ Record(rec).readTask = p
    BY <2>1 DEF Record, ChatSession
  <2>3. ses' = [ses EXCEPT ![s] = rec] \/ ses' = [ses EXCEPT ![s] = Record(rec)]
    BY DEF CreateStored
  <2> QED BY <1>2, <1>4, <2>1, <2>2, <2>3 DEF IInv, TypeOK, OtherSessionsKept
<1>6. /\ \A g \in Actors \ {h} : job'[g] = job[g]
      /\ job'[h].pc = "ready" \/ (job'[h].pc = "send_write" /\ job'[h].target = s)
  BY DEF CreateStored, Return, Ready, IInv, TypeOK, Job, Actors
<1>7. RequestFinds(h)'
  BY <1>2, <1>4, <1>6 DEF RequestFinds, Closing
<1>8. RequestsFollow(s)
  BY <1>1, <1>2, <1>6, <1>7, OnlyMover
<1>9. LoopsFollow(s)
  <2>1. LoopServes(p)'
    BY <1>2, <1>3, <1>4, <1>5 DEF LoopServes, Live
  <2>2. ASSUME NEW q \in Procs, q # p, rd[q].session = s PROVE LoopServes(q)'
    <3>1. ~Live(q)
      BY <1>3, <2>2 DEF LoopServes, ProcessInv
    <3> QED BY <1>4, <2>2, <3>1 DEF LoopServes, ProcessInv, Live
  <2> QED BY <1>3, <1>4, <1>5, <2>1, <2>2 DEF LoopsFollow
<1>10. ProcessesFollow(s)
  BY <1>3, <1>4, <1>2, <1>5 DEF ProcessesFollow
<1>11. SessionOwns(s)' /\ DroppedIsOver(s)'
  BY <1>2, <1>3, <1>4, <1>5 DEF SessionOwns, Done, DroppedIsOver, Dropped
<1> QED BY <1>2, <1>5, <1>8, <1>9, <1>10, <1>11, StepOnSession


\* send_message, its check under the lock.
LEMMA SendCheckKeeps ==
  ASSUME Apart, Apart', IInv, IInv', ProcessInv, NEW h \in Actors, NEW s \in Sessions, NEW w, SendCheck(h, s, w)
  PROVE  ProcessInv'
<1>1. /\ job[h].pc = "ready" /\ s \in sessions
      /\ UNCHANGED <<sessions, ses, procs, rd>>
      /\ \A g \in Actors \ {h} : job'[g] = job[g]
  BY DEF SendCheck, At, Owns, IInv, TypeOK, Actors
<1>2. /\ job'[h].target = s
      /\ job'[h].pc = IF ses[s].claudeProc = None THEN "send_spawn" ELSE "dispatch"
  BY DEF SendCheck, Ready, IInv, TypeOK, Actors
<1>3. RequestFinds(h)'
  BY <1>1, <1>2 DEF RequestFinds, Closing
<1> QED BY <1>1, <1>3, StepOnRequests DEF Pinned, AwaitsLoop

\* send_message, the lazy restart: no other request restarts the session.
LEMMA SendRestartedKeeps ==
  ASSUME Apart, Apart', IInv, IInv', ProcessInv, NEW h \in Actors, NEW p \in Procs, SendRestarted(h, p)
  PROVE  ProcessInv'
<1>0. PICK s : s = job[h].target
  OBVIOUS
<1> USE <1>0
<1>1. job[h].pc = "send_spawn" /\ RequestFinds(h) /\ Restart(s, p) /\ UNCHANGED sessions
  BY DEF SendRestarted, At, ProcessInv
<1>2. s \in Sessions /\ (\A g \in Actors \ {h} : Unharmed(g, s)) /\ s \in sessions
  BY <1>1, WorksOn DEF AtWork, Critical, Unlocked
<1>9. ses[s].claudeProc = None
  BY <1>1 DEF RequestFinds
<1>3. Done(ses[s].readTask)
  <2>1. SessionOwns(s)
    BY <1>2 DEF ProcessInv
  <2>2. ASSUME NEW g \in Actors, job[g].target = s PROVE ~AwaitsLoop(g)
    BY <1>1, <1>2, <2>2, Bystanders DEF AwaitsLoop, AtWork, Critical, Unlocked, OnItsWay
  <2> QED BY <1>9, <2>1, <2>2 DEF SessionOwns
<1>4. /\ LoopsFollow(s) /\ ProcessesFollow(s) /\ SessionOwns(s)' /\ DroppedIsOver(s)'
      /\ OtherSessionsKept(s)
  BY <1>1, <1>2, <1>3, <1>9, Restarted DEF Restart, OtherSessionsKept, IInv, TypeOK
<1>5. /\ job'[h].pc = "dispatch" /\ job'[h].target = s
      /\ \A g \in Actors \ {h} : job'[g] = job[g]
  BY DEF SendRestarted, IInv, TypeOK, Job, Actors
<1>6. RequestFinds(h)'
  BY <1>1, <1>2, <1>5 DEF RequestFinds, Closing
<1>7. RequestsFollow(s)
  BY <1>2, <1>5, <1>6, OnlyMover
<1> QED BY <1>2, <1>4, <1>7, StepOnSession

\* Answers that leave every session alone.
LEMMA PlainReturnKeeps ==
  ASSUME Apart, IInv, ProcessInv, NEW h \in Actors, Return(h), UNCHANGED <<sessions, ses, procs, rd>>,
         ~Pinned(h)
  PROVE  ProcessInv'
<1>1. job'[h].pc = "ready" /\ \A g \in Actors \ {h} : job'[g] = job[g]
  BY DEF Return, Ready, IInv, TypeOK, Actors
<1>2. RequestFinds(h)'
  BY <1>1 DEF RequestFinds, Closing
<1> QED BY <1>1, <1>2, StepOnRequests

\* send_message, its beginning and the commands that only answer.
LEMMA AnswersKeeps ==
  ASSUME Apart, IInv, ProcessInv, NEW h \in Actors,
         \/ SendRestartFailed(h)
         \/ LocalCommand(h)
         \/ ResetCreateFailed(h)
         \/ \E t \in Sessions : SwitchActive(h, t)
  PROVE  ProcessInv'
BY PlainReturnKeeps DEF SendRestartFailed, LocalCommand, ResetCreateFailed, SwitchActive, At, Pinned, AwaitsLoop

\* An assignment to a session that touches neither its process nor its loop, by a
\* request that is alone in a critical section and goes on to send_write or returns.
LEMMA AssignKeeps ==
  ASSUME IInv, IInv', ProcessInv, NEW h \in Actors, NEW s \in sessions, NEW r \in ChatSession,
         job[h].target = s, ~Pinned(h), lock = None \/ job[h].pc \in Critical,
         ses' = [ses EXCEPT ![s] = r],
         r.claudeProc = ses[s].claudeProc, r.readTask = ses[s].readTask,
         UNCHANGED <<sessions, rd>>, Alike,
         \A g \in Actors \ {h} : job'[g] = job[g],
         job'[h].pc = "ready" \/ (job'[h].pc = "send_write" /\ job'[h].target = s)
  PROVE  ProcessInv'
<1>1. s \in Sessions
  BY DEF IInv, TypeOK
<1>2. /\ ses'[s].claudeProc = ses[s].claudeProc /\ ses'[s].readTask = ses[s].readTask
      /\ OtherSessionsKept(s)
  BY <1>1 DEF IInv, TypeOK, OtherSessionsKept
<1>3. RequestFinds(h)'
  BY DEF RequestFinds, Closing
<1>4. ASSUME NEW g \in Actors \ {h}, job[g].target = s PROVE RequestFinds(g)'
  <2>1. job[g].pc \notin Closing \cup {"create_store"}
    BY NobodyElse DEF Critical, Closing
  <2>2. RequestFinds(g) /\ job'[g] = job[g]
    BY DEF ProcessInv
  <2> QED BY <1>2, <1>4, <2>1, <2>2 DEF RequestFinds, Closing, Done
<1>5. RequestsFollow(s)
  BY <1>3, <1>4 DEF RequestsFollow
<1>6. LoopsFollow(s) /\ ProcessesFollow(s) /\ SessionOwns(s)' /\ DroppedIsOver(s)'
  BY <1>1, <1>2, Assigned DEF Pinned, AwaitsLoop
<1> QED BY <1>1, <1>2, <1>5, <1>6, StepOnSession

\* _send_user_message up to its first await.
LEMMA SendRecordKeeps ==
  ASSUME Apart, Apart', IInv, IInv', ProcessInv, NEW h \in Actors, SendRecord(h)
  PROVE  ProcessInv'
<1>0. PICK s : s = job[h].target
  OBVIOUS
<1> USE <1>0
<1>1. job[h].pc = "dispatch" /\ lock = None /\ s \in sessions /\ s \in Sessions
  BY DEF SendRecord, At, LockFree, ProcessInv, RequestFinds, IInv, TypeOK
<1>2. /\ Record(ses[s]) \in ChatSession
      /\ Record(ses[s]).claudeProc = ses[s].claudeProc /\ Record(ses[s]).readTask = ses[s].readTask
  <2>1. ses[s] \in ChatSession
    BY <1>1 DEF IInv, TypeOK
  <2>2. Record(ses[s]) \in ChatSession
    BY <2>1, SessionEdits DEF Same
  <2> QED BY <2>1, <2>2 DEF Record, ChatSession
<1>3. /\ job'[h].pc = "send_write" /\ job'[h].target = s
      /\ \A g \in Actors \ {h} : job'[g] = job[g]
  BY DEF SendRecord, IInv, TypeOK, Job, Actors
<1>4. ses' = [ses EXCEPT ![s] = Record(ses[s])] /\ UNCHANGED <<sessions, rd>> /\ Alike
  BY DEF SendRecord, Alike
<1> QED BY <1>1, <1>2, <1>3, <1>4, AssignKeeps DEF Pinned, AwaitsLoop, Critical

\* _write_to_stdin and the answer.
LEMMA SendWriteKeeps ==
  ASSUME Apart, Apart', IInv, IInv', ProcessInv, NEW h \in Actors, SendWrite(h)
  PROVE  ProcessInv'
<1>0. PICK s : s = job[h].target
  OBVIOUS
<1> USE <1>0
<1>1. job[h].pc = "send_write" /\ s \in sessions /\ s \in Sessions
  BY DEF SendWrite, At, ProcessInv, RequestFinds, IInv, TypeOK
<1>2. PICK r \in ChatSession :
        /\ r.claudeProc = ses[s].claudeProc /\ r.readTask = ses[s].readTask
        /\ ses' = [ses EXCEPT ![s] = r]
  <2>1. ses[s] \in ChatSession
    BY <1>1 DEF IInv, TypeOK
  <2>2. Push(ses[s], "error") \in ChatSession
    BY <2>1, SessionEdits DEF Events, Same
  <2>3. Push(ses[s], "error").claudeProc = ses[s].claudeProc /\ Push(ses[s], "error").readTask = ses[s].readTask
    BY <2>1 DEF Push, ChatSession
  <2>4. UNCHANGED ses \/ ses' = [ses EXCEPT ![s] = Push(ses[s], "error")]
    BY DEF SendWrite, WriteToStdin
  <2>5. CASE UNCHANGED ses
    <3>1. ses' = [ses EXCEPT ![s] = ses[s]]
      BY <1>1, <2>5 DEF IInv, TypeOK
    <3> QED BY <2>1, <3>1
  <2> QED BY <2>2, <2>3, <2>4, <2>5
<1>3. /\ job'[h].pc = "ready"
      /\ \A g \in Actors \ {h} : job'[g] = job[g]
  BY DEF SendWrite, Return, Ready, IInv, TypeOK, Actors
<1>4. UNCHANGED <<sessions, rd>> /\ Alike
  <2>1. ASSUME NEW q \in Procs PROVE procs'[q].st = procs[q].st
    <3>1. procs \in [Procs -> Process]
      BY DEF IInv, TypeOK
    <3>2. CASE procs' = procs
      BY <3>2
    <3>3. CASE \E p : procs' = [procs EXCEPT ![p].inbox = @ + 1]
      BY <3>1, <3>3 DEF Process
    <3> QED BY <3>2, <3>3 DEF SendWrite, WriteToStdin
  <2> QED BY <2>1 DEF SendWrite, Alike
<1> QED BY <1>1, <1>2, <1>3, <1>4, AssignKeeps DEF Pinned, AwaitsLoop, Critical

-----------------------------------------------------------------------------
(* abort_session *)

\* abort_session up to its first await.
LEMMA AbortBeginKeeps ==
  ASSUME Apart, Apart', IInv, IInv', ProcessInv, NEW h \in Actors, NEW s \in Sessions, AbortBegin(h, s)
  PROVE  ProcessInv'
<1>0. PICK p, t : p = ses[s].claudeProc /\ t = ses[s].readTask
  OBVIOUS
<1> USE <1>0
<1>1. /\ job[h].pc = "ready" /\ s \in sessions /\ p # None
      /\ p \in Procs /\ t \in Procs \cup {None}
      /\ UNCHANGED <<sessions, ses>>
      /\ \A g \in Actors \ {h} : job'[g] = job[g]
  BY DEF AbortBegin, At, Owns, IInv, TypeOK, ChatSession
<1>2. CASE Done(t)
  <2> DEFINE r == [Ready EXCEPT !.target = s, !.proc = p, !.pc = "abort_wait"]
  <2>0. job' = [job EXCEPT ![h] = r] /\ Signal(p) /\ UNCHANGED rd
    BY <1>2 DEF AbortBegin, Ready
  <2>1. /\ job'[h].target = s /\ job'[h].pc = "abort_wait" /\ job'[h].proc = p
        /\ Signal(p) /\ UNCHANGED rd
    BY <2>0 DEF Ready, IInv, TypeOK, Actors
  <2>2. Alike
    BY <2>1, SignalAlike DEF IInv, TypeOK
  <2>3. RequestFinds(h)'
    BY <1>1, <1>2, <2>1 DEF RequestFinds, Closing, Done
  <2>6. \A g \in Actors \ {h} : Unharmed(g, s)
    BY <1>1, <2>1, TakesUp DEF AtWork, Unlocked
  <2>4. RequestsFollow(s)
    BY <1>1, <2>3, <2>6, OnlyMover DEF Pinned, AwaitsLoop
  <2>5. LoopsFollow(s) /\ ProcessesFollow(s) /\ SessionOwns(s)' /\ DroppedIsOver(s)'
    BY <1>1, <2>1, <2>2, Assigned DEF AwaitsLoop
  <2> QED BY <1>1, <2>4, <2>5, StepOnSession DEF OtherSessionsKept
<1>3. CASE ~Done(t)
  <2> DEFINE r == [Ready EXCEPT !.target = s, !.proc = p, !.pc = "abort_reader", !.task = t]
  <2>0. job' = [job EXCEPT ![h] = r] /\ Cancel(t) /\ UNCHANGED procs
    BY <1>3 DEF AbortBegin, Ready
  <2>1. /\ job'[h].target = s /\ job'[h].pc = "abort_reader" /\ job'[h].proc = p /\ job'[h].task = t
        /\ Cancel(t) /\ UNCHANGED procs
    BY <2>0 DEF Ready, IInv, TypeOK, Actors
  <2>2. t \in Procs /\ rd[t].session = s
    <3>1. SessionOwns(s)
      BY DEF ProcessInv
    <3> QED BY <1>1, <1>3, <3>1 DEF SessionOwns, Done
  <2>3. RequestFinds(h)'
    BY <1>1, <2>1, <2>2 DEF RequestFinds, Closing
  <2>6. \A g \in Actors \ {h} : Unharmed(g, s)
    BY <1>1, <2>1, TakesUp DEF AtWork, Unlocked
  <2>4. RequestsFollow(s)
    BY <1>1, <2>3, <2>6, OnlyMover DEF Pinned, AwaitsLoop
  <2>5. LoopsFollow(s) /\ ProcessesFollow(s) /\ SessionOwns(s)' /\ DroppedIsOver(s)'
    BY <1>1, <2>1, <2>2, LoopCancelled DEF AwaitsLoop
  <2> QED BY <1>1, <2>4, <2>5, StepOnSession DEF OtherSessionsKept
<1> QED BY <1>2, <1>3

\* abort_session, after the loop it cancelled.
LEMMA AbortReaderDoneKeeps ==
  ASSUME Apart, Apart', IInv, IInv', ProcessInv, NEW h \in Actors, AbortReaderDone(h)
  PROVE  ProcessInv'
<1>0. PICK s, p, t : s = job[h].target /\ p = job[h].proc /\ t = job[h].task
  OBVIOUS
<1> USE <1>0
<1>1. job[h].pc = "abort_reader" /\ RequestFinds(h) /\ Done(t) /\ Signal(p) /\ UNCHANGED <<sessions, rd>>
  BY DEF AbortReaderDone, At, ProcessInv, ReaderGone
<1>2. s \in Sessions /\ (\A g \in Actors \ {h} : Unharmed(g, s)) /\ s \in sessions
  BY <1>1, WorksOn DEF AtWork, Critical, Unlocked
<1>3. ses[s].claudeProc \in {p, None} /\ Done(ses[s].readTask) /\ p # None
  BY <1>1 DEF RequestFinds, Done
<1>4. ses'[s].claudeProc = ses[s].claudeProc /\ ses'[s].readTask = None /\ OtherSessionsKept(s)
  BY <1>2, <1>3 DEF AbortReaderDone, IInv, TypeOK, ChatSession, OtherSessionsKept
<1>5. /\ job'[h].pc = "abort_wait" /\ job'[h].target = s /\ job'[h].proc = p
      /\ \A g \in Actors \ {h} : job'[g] = job[g]
  BY DEF AbortReaderDone, IInv, TypeOK, Job, Actors
<1>6. RequestFinds(h)'
  BY <1>1, <1>2, <1>3, <1>4, <1>5 DEF RequestFinds, Closing, Done
<1>7. RequestsFollow(s)
  BY <1>2, <1>5, <1>6, OnlyMover DEF Pinned, AwaitsLoop, Closing
<1>8. Alike
  BY <1>1, SignalAlike DEF IInv, TypeOK
<1>9. LoopsFollow(s) /\ ProcessesFollow(s) /\ SessionOwns(s)' /\ DroppedIsOver(s)'
  BY <1>1, <1>2, <1>3, <1>4, <1>8, Unlinked
<1> QED BY <1>2, <1>4, <1>7, <1>9, StepOnSession

\* abort_session, after the process: neither it nor a loop is left.
LEMMA AbortFinishKeeps ==
  ASSUME Apart, Apart', IInv, IInv', ProcessInv, NEW h \in Actors, AbortFinish(h)
  PROVE  ProcessInv'
<1>0. PICK s, p : s = job[h].target /\ p = job[h].proc
  OBVIOUS
<1> USE <1>0
<1>1. job[h].pc = "abort_wait" /\ RequestFinds(h) /\ procs[p].st = "exited" /\ UNCHANGED <<sessions, rd, procs>>
  BY DEF AbortFinish, At, ProcessInv, ProcGone
<1>2. s \in Sessions /\ (\A g \in Actors \ {h} : Unharmed(g, s)) /\ s \in sessions
  BY <1>1, WorksOn DEF AtWork, Critical, Unlocked
<1>3. ses[s].claudeProc \in {p, None} /\ Done(ses[s].readTask) /\ p # None
  BY <1>1 DEF RequestFinds
<1>4. ses'[s].claudeProc = None /\ ses'[s].readTask = ses[s].readTask /\ OtherSessionsKept(s)
  BY <1>2, <1>3 DEF AbortFinish, Push, IInv, TypeOK, ChatSession, OtherSessionsKept
<1>5. /\ job'[h].pc = "ready"
      /\ \A g \in Actors \ {h} : job'[g] = job[g]
  BY DEF AbortFinish, Return, Ready, IInv, TypeOK, Actors
<1>6. RequestFinds(h)'
  BY <1>5 DEF RequestFinds, Closing
<1>7. RequestsFollow(s)
  BY <1>2, <1>1, <1>6, <1>5, OnlyMover DEF Pinned, AwaitsLoop
<1>8. LoopsFollow(s) /\ ProcessesFollow(s) /\ SessionOwns(s)' /\ DroppedIsOver(s)'
  BY <1>1, <1>2, <1>3, <1>4, ProcessGone
<1> QED BY <1>2, <1>4, <1>7, <1>8, StepOnSession


-----------------------------------------------------------------------------
(* set_mode *)

\* From _restart_proc_if_needed on, once neither process nor loop are left:
\* the session is closed, or a process is started for it.
LEMMA ModeRestartKeeps ==
  ASSUME Apart, Apart', IInv, IInv', ProcessInv, NEW h \in Actors, NEW s \in Sessions, NEW old, NEW rec \in ChatSession,
         ModeRestart(h, s, old, rec), UNCHANGED <<sessions, procs, rd>>, s \in sessions,
         lock = None \/ job[h].pc \in Critical, Pinned(h) => job[h].target = s,
         rec.claudeProc = None, rec.readTask \in {None, ses[s].readTask}, Done(ses[s].readTask),
         ses[s].claudeProc # None => procs[ses[s].claudeProc].st = "exited"
  PROVE  ProcessInv'
<1>2. /\ ses'[s] = rec /\ OtherSessionsKept(s)
      /\ \A g \in Actors \ {h} : job'[g] = job[g]
  BY DEF ModeRestart, Return, OtherSessionsKept, IInv, TypeOK, Actors
<1>3. job'[h].pc = "ready" \/ (job'[h].pc = "mode_spawn" /\ job'[h].target = s)
  <2> DEFINE r == [Ready EXCEPT !.pc = "mode_spawn", !.target = s, !.oldMode = old]
  <2>1. job' = [job EXCEPT ![h] = r] \/ job' = [job EXCEPT ![h] = Ready]
    BY DEF ModeRestart, Return
  <2>2. r.pc = "mode_spawn" /\ r.target = s /\ Ready.pc = "ready"
    BY DEF Ready
  <2> HIDE DEF r
  <2> QED BY <2>1, <2>2 DEF IInv, TypeOK, Actors
<1>4. RequestFinds(h)'
  BY <1>2, <1>3 DEF RequestFinds, Closing
<1>1. ASSUME NEW g \in Actors \ {h}, job[g].target = s PROVE RequestFinds(g)'
  <2>1. job[g].pc \notin Critical /\ RequestFinds(g)
    BY NobodyElse DEF ProcessInv
  <2>2. job'[g] = job[g] /\ ses'[s].claudeProc = None /\ ses'[s].readTask \in {None, ses[s].readTask}
    BY <1>2
  <2> QED BY <1>1, <2>1, <2>2 DEF RequestFinds, Closing, Critical, Done
<1>5. RequestsFollow(s)
  BY <1>1, <1>2, <1>4 DEF RequestsFollow
<1>6. LoopsFollow(s) /\ ProcessesFollow(s) /\ SessionOwns(s)' /\ DroppedIsOver(s)'
  BY <1>2, ProcessGone
<1> QED BY <1>2, <1>5, <1>6, StepOnSession

\* The process is gone: the request waits for the loop, or goes on.
LEMMA ModeAwaitReaderKeeps ==
  ASSUME Apart, Apart', IInv, IInv', ProcessInv, NEW h \in Actors, NEW s \in Sessions, NEW old, NEW rec \in ChatSession,
         ModeAwaitReader(h, s, old, rec), UNCHANGED <<sessions, procs, rd>>, s \in sessions,
         lock = None \/ job[h].pc \in Critical, Pinned(h) => job[h].target = s,
         rec.claudeProc = None, rec.readTask = ses[s].readTask,
         ses[s].claudeProc # None => procs[ses[s].claudeProc].st = "exited"
  PROVE  ProcessInv'
<1>1. CASE Done(rec.readTask)
  <2> DEFINE r == [rec EXCEPT !.readTask = None]
  <2>1. r \in ChatSession /\ r.claudeProc = None /\ r.readTask = None
    BY DEF ChatSession
  <2>2. ModeRestart(h, s, old, r)
    BY <1>1 DEF ModeAwaitReader
  <2> HIDE DEF r
  <2> QED BY <1>1, <2>1, <2>2, ModeRestartKeeps
<1>2. CASE ~Done(rec.readTask)
  <2>2. /\ ses'[s] = rec /\ OtherSessionsKept(s)
        /\ \A g \in Actors \ {h} : job'[g] = job[g]
    BY <1>2 DEF ModeAwaitReader, OtherSessionsKept, IInv, TypeOK, Actors
  <2>3. job'[h].pc = "mode_reader" /\ job'[h].target = s /\ job'[h].task = rec.readTask
    <3> DEFINE r == [Ready EXCEPT !.pc = "mode_reader", !.target = s, !.task = rec.readTask, !.oldMode = old]
    <3>1. job' = [job EXCEPT ![h] = r]
      BY <1>2 DEF ModeAwaitReader
    <3>2. r.pc = "mode_reader" /\ r.target = s /\ r.task = rec.readTask
      BY DEF Ready
    <3> HIDE DEF r
    <3> QED BY <3>1, <3>2 DEF IInv, TypeOK, Actors
  <2>1. \A g \in Actors \ {h} : Unharmed(g, s)
    BY <2>2, <2>3, TakesUp DEF AtWork, Critical
  <2>4. rec.readTask # None
    BY <1>2 DEF Done
  <2>5. RequestFinds(h)'
    BY <2>2, <2>3, <2>4 DEF RequestFinds, Closing
  <2>6. RequestsFollow(s)
    BY <2>1, <2>2, <2>5, OnlyMover
  <2>7. LoopsFollow(s) /\ ProcessesFollow(s) /\ SessionOwns(s)' /\ DroppedIsOver(s)'
    BY <2>2, <2>3, <2>4, ProcessGone DEF AwaitsLoop
  <2> QED BY <2>2, <2>6, <2>7, StepOnSession
<1> QED BY <1>1, <1>2

\* set_mode up to its first await.
LEMMA ModeBeginKeeps ==
  ASSUME Apart, Apart', IInv, IInv', ProcessInv, NEW h \in Actors, NEW s \in Sessions, NEW m \in Modes, ModeBegin(h, s, m)
  PROVE  ProcessInv'
<1> DEFINE rec == [ses[s] EXCEPT !.mode = m]
<1>0. PICK p, old : p = ses[s].claudeProc /\ old = ses[s].mode
  OBVIOUS
<1> USE <1>0
<1>1. /\ job[h].pc = "ready" /\ s \in sessions /\ lock = None
      /\ UNCHANGED <<sessions, rd>> /\ ~Pinned(h)
  BY DEF ModeBegin, At, LockFree, Owns, Pinned, AwaitsLoop
<1>2. rec \in ChatSession /\ rec.claudeProc = p /\ rec.readTask = ses[s].readTask
  <2>1. ses[s] \in ChatSession
    BY DEF IInv, TypeOK
  <2> QED BY <2>1 DEF ChatSession
<1>3. CASE p = None /\ ModeRestart(h, s, old, rec) /\ UNCHANGED procs
  <2>1. SessionOwns(s) /\ \A g \in Actors : ~AwaitsLoop(g)
    <3>1. ASSUME NEW g \in Actors PROVE ~AwaitsLoop(g)
      BY <1>1, NobodyElse DEF Pinned, AwaitsLoop, Critical
    <3> QED BY <3>1 DEF ProcessInv
  <2>2. Done(ses[s].readTask)
    BY <1>1, <1>3, <2>1 DEF SessionOwns
  <2> HIDE DEF rec
  <2> QED BY <1>1, <1>2, <1>3, <2>2, ModeRestartKeeps
<1>4. CASE /\ p # None /\ procs[p].st = "exited" /\ UNCHANGED procs
           /\ ModeAwaitReader(h, s, old, [rec EXCEPT !.claudeProc = None])
  <2> DEFINE r == [rec EXCEPT !.claudeProc = None]
  <2>1. r \in ChatSession /\ r.claudeProc = None /\ r.readTask = ses[s].readTask
    <3> HIDE DEF rec
    <3> QED BY <1>2 DEF ChatSession
  <2>2. ModeAwaitReader(h, s, old, r)
    BY <1>4
  <2> HIDE DEF r, rec
  <2> QED BY <1>1, <1>4, <2>1, <2>2, ModeAwaitReaderKeeps
<1>5. CASE /\ p # None /\ Signal(p) /\ ses' = [ses EXCEPT ![s] = rec]
           /\ job' = [job EXCEPT ![h] = [Ready EXCEPT !.pc = "mode_wait", !.target = s,
                                                      !.proc = p, !.oldMode = old]]
  <2>1. /\ job'[h].pc = "mode_wait" /\ job'[h].target = s /\ job'[h].proc = p
        /\ \A g \in Actors \ {h} : job'[g] = job[g]
    BY <1>1, <1>5 DEF Ready, IInv, TypeOK
  <2>2. ses'[s].claudeProc = p /\ ses'[s].readTask = ses[s].readTask /\ OtherSessionsKept(s)
    BY <1>1, <1>2, <1>5 DEF IInv, TypeOK, OtherSessionsKept
  <2> HIDE DEF rec
  <2>3. RequestFinds(h)'
    BY <1>1, <1>5, <2>1, <2>2 DEF RequestFinds, Closing
  <2>6. \A g \in Actors \ {h} : Unharmed(g, s)
    BY <1>1, <2>1, TakesUp DEF AtWork, Critical
  <2>4. RequestsFollow(s)
    BY <1>1, <2>1, <2>3, <2>6, OnlyMover
  <2>5. LoopsFollow(s) /\ ProcessesFollow(s) /\ SessionOwns(s)' /\ DroppedIsOver(s)'
    <3>1. Alike
      BY <1>5, SignalAlike DEF IInv, TypeOK
    <3> QED BY <1>1, <2>1, <2>2, <3>1, Assigned DEF Pinned, AwaitsLoop
  <2> QED BY <2>2, <2>4, <2>5, StepOnSession
<1> QED BY <1>3, <1>4, <1>5 DEF ModeBegin

\* set_mode, after the process.
LEMMA ModeProcGoneKeeps ==
  ASSUME Apart, Apart', IInv, IInv', ProcessInv, NEW h \in Actors, ModeProcGone(h)
  PROVE  ProcessInv'
<1>0. PICK s, old : s = job[h].target /\ old = job[h].oldMode
  OBVIOUS
<1> USE <1>0
<1>1. /\ job[h].pc = "mode_wait" /\ RequestFinds(h) /\ procs[job[h].proc].st = "exited"
      /\ UNCHANGED <<sessions, rd, procs>>
  BY DEF ModeProcGone, At, ProcessInv, ProcGone
<1>2. s \in Sessions /\ s \in sessions /\ job[h].pc \in Critical
  BY <1>1, WorksOn DEF AtWork, Critical, Unlocked
<1>5. procs[ses[s].claudeProc].st = "exited"
  BY <1>1 DEF RequestFinds
<1> DEFINE r == [ses[s] EXCEPT !.claudeProc = None]
<1>3. r \in ChatSession /\ r.claudeProc = None /\ r.readTask = ses[s].readTask
  <2>1. ses[s] \in ChatSession
    BY <1>2 DEF IInv, TypeOK
  <2> QED BY <2>1 DEF ChatSession
<1>4. ModeAwaitReader(h, s, old, r)
  BY DEF ModeProcGone
<1> HIDE DEF r
<1> QED BY <1>1, <1>2, <1>3, <1>4, <1>5, ModeAwaitReaderKeeps

\* set_mode, when the loop takes too long and is cancelled.
LEMMA ModeReaderTimeoutKeeps ==
  ASSUME Apart, Apart', IInv, IInv', ProcessInv, NEW h \in Actors, ModeReaderTimeout(h)
  PROVE  ProcessInv'
<1>0. PICK s, t : s = job[h].target /\ t = job[h].task
  OBVIOUS
<1> USE <1>0
<1>1. job[h].pc = "mode_reader" /\ RequestFinds(h) /\ Cancel(t) /\ UNCHANGED <<sessions, ses, procs>>
  BY DEF ModeReaderTimeout, At, ProcessInv
<1>2. s \in Sessions /\ s \in sessions /\ \A g \in Actors \ {h} : Unharmed(g, s)
  BY <1>1, WorksOn DEF AtWork, Critical, Unlocked
<1>3. ses[s].readTask = t /\ ses[s].claudeProc = None /\ t \in Procs /\ rd[t].session = s
  <2>1. SessionOwns(s)
    BY <1>2 DEF ProcessInv
  <2> QED BY <1>1, <1>2, <2>1 DEF RequestFinds, SessionOwns, IInv, TypeOK, ChatSession
<1>4. /\ job'[h].pc = "mode_cancel" /\ job'[h].target = s /\ job'[h].task = t
      /\ \A g \in Actors \ {h} : job'[g] = job[g]
  BY DEF ModeReaderTimeout, IInv, TypeOK, Job, Actors
<1>5. RequestFinds(h)'
  BY <1>1, <1>2, <1>3, <1>4 DEF RequestFinds, Closing
<1>6. RequestsFollow(s)
  BY <1>2, <1>4, <1>5, OnlyMover
<1>7. LoopsFollow(s) /\ ProcessesFollow(s) /\ SessionOwns(s)' /\ DroppedIsOver(s)'
  BY <1>1, <1>2, <1>3, <1>4, LoopCancelled DEF AwaitsLoop
<1> QED BY <1>1, <1>2, <1>6, <1>7, StepOnSession DEF OtherSessionsKept

\* set_mode, when the loop was cancelled by somebody else.
LEMMA ModeReaderCancelledKeeps ==
  ASSUME Apart, Apart', IInv, IInv', ProcessInv, NEW h \in Actors, ModeReaderCancelled(h)
  PROVE  ProcessInv'
<1>0. PICK s, t : s = job[h].target /\ t = job[h].task
  OBVIOUS
<1> USE <1>0
<1>1. /\ job[h].pc \in {"mode_reader", "mode_cancel"} /\ RequestFinds(h) /\ Done(t) /\ Return(h)
      /\ UNCHANGED <<sessions, ses, procs, rd>>
  BY DEF ModeReaderCancelled, At, ProcessInv, ReaderGone
<1>2. s \in Sessions /\ s \in sessions /\ \A g \in Actors \ {h} : Unharmed(g, s)
  BY <1>1, WorksOn DEF AtWork, Critical, Unlocked
<1>3. ses[s].readTask = t /\ ses[s].claudeProc = None
  BY <1>1 DEF RequestFinds
<1>4. job'[h].pc = "ready" /\ \A g \in Actors \ {h} : job'[g] = job[g]
  BY <1>1 DEF Return, Ready, IInv, TypeOK, Actors
<1>5. RequestFinds(h)'
  BY <1>4 DEF RequestFinds, Closing
<1>6. RequestsFollow(s)
  BY <1>2, <1>4, <1>5, OnlyMover
<1>7. LoopsFollow(s) /\ ProcessesFollow(s) /\ SessionOwns(s)' /\ DroppedIsOver(s)'
  BY <1>1, <1>2, <1>3, ProcessGone
<1> QED BY <1>1, <1>2, <1>6, <1>7, StepOnSession DEF OtherSessionsKept

\* set_mode, after the loop: the one it cancels after a timeout is the one that has ended.
LEMMA ModeReaderDoneKeeps ==
  ASSUME Apart, Apart', IInv, IInv', ProcessInv, NEW h \in Actors, ModeReaderDone(h) \/ ModeReaderTimedOut(h)
  PROVE  ProcessInv'
<1>0. PICK s, t, old : s = job[h].target /\ t = job[h].task /\ old = job[h].oldMode
  OBVIOUS
<1> USE <1>0
<1>1. /\ job[h].pc \in {"mode_reader", "mode_cancel"} /\ RequestFinds(h) /\ Done(t)
      /\ UNCHANGED <<sessions, procs>>
  BY DEF ModeReaderDone, ModeReaderTimedOut, At, ProcessInv, ReaderGone
<1>2. s \in Sessions /\ s \in sessions /\ job[h].pc \in Critical
  BY <1>1, WorksOn DEF AtWork, Critical, Unlocked
<1>3. ses[s].readTask = t /\ ses[s].claudeProc = None
  BY <1>1 DEF RequestFinds
<1> DEFINE r == [ses[s] EXCEPT !.readTask = None]
<1>4. r \in ChatSession /\ r.claudeProc = None /\ r.readTask = None
  <2>1. ses[s] \in ChatSession
    BY <1>2 DEF IInv, TypeOK
  <2> QED BY <2>1, <1>3 DEF ChatSession
<1>5. ModeRestart(h, s, old, r) /\ UNCHANGED rd
  BY <1>1, <1>3 DEF ModeReaderDone, ModeReaderTimedOut
<1> HIDE DEF r
<1> QED BY <1>1, <1>2, <1>3, <1>4, <1>5, ModeRestartKeeps

\* set_mode, the new process.
LEMMA ModeSpawnedKeeps ==
  ASSUME Apart, Apart', IInv, IInv', ProcessInv, NEW h \in Actors, NEW p \in Procs, ModeSpawned(h, p)
  PROVE  ProcessInv'
<1>0. PICK s : s = job[h].target
  OBVIOUS
<1> USE <1>0
<1>1. job[h].pc = "mode_spawn" /\ RequestFinds(h) /\ Restart(s, p) /\ UNCHANGED sessions
  BY DEF ModeSpawned, At, ProcessInv
<1>2. s \in Sessions /\ (\A g \in Actors \ {h} : Unharmed(g, s)) /\ s \in sessions
  BY <1>1, WorksOn DEF AtWork, Critical, Unlocked
<1>9. ses[s].claudeProc = None
  BY <1>1 DEF RequestFinds
<1>3. Done(ses[s].readTask)
  <2>1. SessionOwns(s)
    BY <1>2 DEF ProcessInv
  <2>2. ASSUME NEW g \in Actors, job[g].target = s PROVE ~AwaitsLoop(g)
    BY <1>1, <1>2, <2>2, Bystanders DEF AwaitsLoop, AtWork, Critical, Unlocked, OnItsWay
  <2> QED BY <1>9, <2>1, <2>2 DEF SessionOwns
<1>4. /\ LoopsFollow(s) /\ ProcessesFollow(s) /\ SessionOwns(s)' /\ DroppedIsOver(s)'
      /\ OtherSessionsKept(s)
  BY <1>1, <1>2, <1>3, <1>9, Restarted DEF Restart, OtherSessionsKept, IInv, TypeOK
<1>5. job'[h].pc = "ready" /\ \A g \in Actors \ {h} : job'[g] = job[g]
  BY DEF ModeSpawned, Return, Ready, IInv, TypeOK, Actors
<1>6. RequestFinds(h)'
  BY <1>5 DEF RequestFinds, Closing
<1>7. RequestsFollow(s)
  BY <1>2, <1>5, <1>6, OnlyMover
<1> QED BY <1>2, <1>4, <1>7, StepOnSession

\* set_mode, when there is no new process.
LEMMA ModeSpawnFailedKeeps ==
  ASSUME Apart, Apart', IInv, IInv', ProcessInv, NEW h \in Actors, ModeSpawnFailed(h)
  PROVE  ProcessInv'
<1>0. PICK s, old : s = job[h].target /\ old = job[h].oldMode
  OBVIOUS
<1> USE <1>0
<1>1. job[h].pc = "mode_spawn" /\ RequestFinds(h) /\ Return(h) /\ UNCHANGED <<sessions, procs, rd>>
  BY DEF ModeSpawnFailed, At, ProcessInv
<1>2. s \in Sessions /\ s \in sessions /\ old \in Modes
  <2>1. s \in Sessions /\ s \in sessions
    BY <1>1, WorksOn DEF AtWork, Critical, Unlocked
  <2> QED BY <1>1, <2>1 DEF IInv, Targets, Switching
<1> DEFINE r == [ses[s] EXCEPT !.mode = old]
<1>3. r \in ChatSession /\ r.claudeProc = ses[s].claudeProc /\ r.readTask = ses[s].readTask
  <2>1. ses[s] \in ChatSession
    BY <1>2 DEF IInv, TypeOK
  <2> QED BY <2>1, <1>2 DEF ChatSession
<1>4. job'[h].pc = "ready" /\ \A g \in Actors \ {h} : job'[g] = job[g]
  BY <1>1 DEF Return, Ready, IInv, TypeOK, Actors
<1>5. ses' = [ses EXCEPT ![s] = r] /\ Alike
  BY <1>1 DEF ModeSpawnFailed, Alike
<1> HIDE DEF r
<1> QED BY <1>1, <1>2, <1>3, <1>4, <1>5, AssignKeeps DEF Pinned, AwaitsLoop, Critical

-----------------------------------------------------------------------------
(* close_session, reset_session *)

\* Closing, once the loop has ended: the process is killed, or the end announced.
LEMMA CloseKillKeeps ==
  ASSUME Apart, Apart', IInv, IInv', ProcessInv, NEW h \in Actors, NEW s \in Sessions, NEW w, NEW rec \in ChatSession,
         CloseKill(h, s, w, rec), UNCHANGED <<sessions, rd>>, s \in sessions,
         ~Pinned(h),
         rec.claudeProc = ses[s].claudeProc, rec.readTask \in {None, ses[s].readTask},
         rec.status = "closed", Done(ses[s].readTask)
  PROVE  ProcessInv'
<1>0. PICK p : p = rec.claudeProc
  OBVIOUS
<1> USE <1>0
<1>2. Done(rec.readTask)
  BY DEF Done
<1>3. CASE p = None
  <2> DEFINE r == Announce(rec)
             j == [Ready EXCEPT !.target = s, !.plan = w, !.pc = "close_drop"]
  <2>1. /\ r.claudeProc = None /\ r.readTask = rec.readTask /\ r.status = "closed"
        /\ r.last = "session_closed"
    BY <1>3 DEF Announce, Push, ChatSession
  <2>2. ses' = [ses EXCEPT ![s] = r] /\ job' = [job EXCEPT ![h] = j] /\ UNCHANGED procs
    BY <1>3 DEF CloseKill, Ready
  <2>3. /\ job'[h].pc = "close_drop" /\ job'[h].target = s
        /\ \A g \in Actors \ {h} : job'[g] = job[g]
    BY <2>2 DEF Ready, IInv, TypeOK, Actors
  <2>4. ses'[s] = r /\ OtherSessionsKept(s)
    BY <2>2 DEF IInv, TypeOK, OtherSessionsKept
  <2> HIDE DEF r, j
  <2>5. RequestFinds(h)'
    BY <1>2, <2>1, <2>3, <2>4 DEF RequestFinds, Closing, Done
  <2>8. \A g \in Actors \ {h} : Unharmed(g, s)
    BY <2>3, TakesUp DEF AtWork, Critical
  <2>6. RequestsFollow(s)
    BY <2>3, <2>5, <2>8, OnlyMover
  <2>7. LoopsFollow(s) /\ ProcessesFollow(s) /\ SessionOwns(s)' /\ DroppedIsOver(s)'
    BY <1>3, <2>1, <2>2, <2>4, ProcessGone
  <2> QED BY <2>4, <2>6, <2>7, StepOnSession
<1>4. CASE p # None
  <2> DEFINE j == [Ready EXCEPT !.target = s, !.plan = w, !.pc = "close_wait", !.proc = p]
  <2>1. ses' = [ses EXCEPT ![s] = rec] /\ job' = [job EXCEPT ![h] = j] /\ Signal(p)
    BY <1>4 DEF CloseKill, Ready
  <2>2. /\ job'[h].pc = "close_wait" /\ job'[h].target = s /\ job'[h].proc = p
        /\ \A g \in Actors \ {h} : job'[g] = job[g]
    BY <2>1 DEF Ready, IInv, TypeOK, Actors
  <2>3. ses'[s] = rec /\ OtherSessionsKept(s)
    BY <2>1 DEF IInv, TypeOK, OtherSessionsKept
  <2>4. RequestFinds(h)'
    BY <1>2, <1>4, <2>2, <2>3 DEF RequestFinds, Closing, Done
  <2>8. \A g \in Actors \ {h} : Unharmed(g, s)
    BY <2>2, TakesUp DEF AtWork, Critical
  <2>5. RequestsFollow(s)
    BY <2>2, <2>4, <2>8, OnlyMover
  <2>6. Alike
    BY <2>1, SignalAlike DEF IInv, TypeOK
  <2>7. LoopsFollow(s) /\ ProcessesFollow(s) /\ SessionOwns(s)' /\ DroppedIsOver(s)'
    BY <2>3, <2>6, Unlinked
  <2> QED BY <2>3, <2>5, <2>7, StepOnSession
<1> QED BY <1>3, <1>4

\* _close_session_internal up to its first await.
LEMMA CloseBeginKeeps ==
  ASSUME Apart, Apart', IInv, IInv', ProcessInv, NEW h \in Actors, NEW s \in Sessions, NEW w, CloseBegin(h, s, w),
         ~Pinned(h)
  PROVE  ProcessInv'
<1> DEFINE rec == [ses[s] EXCEPT !.status = "closed"]
<1>0. PICK t, p : t = ses[s].readTask /\ p = ses[s].claudeProc
  OBVIOUS
<1> USE <1>0
<1>1. s \in sessions /\ lock = None /\ UNCHANGED sessions
  BY DEF CloseBegin, LockFree
<1>2. rec \in ChatSession /\ rec.claudeProc = p /\ rec.readTask = t /\ rec.status = "closed"
  <2>1. ses[s] \in ChatSession
    BY DEF IInv, TypeOK
  <2> QED BY <2>1 DEF ChatSession, Statuses
<1>3. CASE Done(t)
  <2>1. CloseKill(h, s, w, rec) /\ UNCHANGED rd
    BY <1>3 DEF CloseBegin
  <2> HIDE DEF rec
  <2> QED BY <1>1, <1>2, <1>3, <2>1, CloseKillKeeps
<1>4. CASE ~Done(t)
  <2> DEFINE j == [Ready EXCEPT !.pc = "close_reader", !.target = s, !.plan = w, !.task = t]
  <2>1. /\ ses' = [ses EXCEPT ![s] = rec] /\ job' = [job EXCEPT ![h] = j]
        /\ Cancel(t) /\ UNCHANGED procs
    BY <1>4 DEF CloseBegin
  <2>2. /\ job'[h].pc = "close_reader" /\ job'[h].target = s /\ job'[h].task = t
        /\ \A g \in Actors \ {h} : job'[g] = job[g]
    BY <2>1 DEF Ready, IInv, TypeOK, Actors
  <2>3. ses'[s] = rec /\ OtherSessionsKept(s)
    BY <1>1, <2>1 DEF IInv, TypeOK, OtherSessionsKept
  <2> HIDE DEF rec, j
  <2>4. t \in Procs /\ rd[t].session = s /\ p # None
    <3>1. SessionOwns(s)
      BY DEF ProcessInv
    <3>2. t \in Procs
      BY <1>4 DEF Done, IInv, TypeOK, ChatSession
    <3>4. ASSUME NEW g \in Actors PROVE ~AwaitsLoop(g)
      BY <1>1, NobodyElse DEF Pinned, AwaitsLoop, Critical
    <3>3. p # None
      BY <1>4, <3>1, <3>4 DEF SessionOwns
    <3> QED BY <3>1, <3>2, <3>3 DEF SessionOwns
  <2>5. rd'[t].cancel
    BY <2>1, <2>4 DEF Cancel, IInv, TypeOK, ReadLoop
  <2>6. RequestFinds(h)'
    BY <1>1, <1>2, <2>2, <2>3, <2>4, <2>5 DEF RequestFinds, Closing
  <2>9. \A g \in Actors \ {h} : Unharmed(g, s)
    BY <1>1, <2>2, TakesUp DEF AtWork, Critical
  <2>7. RequestsFollow(s)
    BY <2>2, <2>6, <2>9, OnlyMover
  <2>8. LoopsFollow(s) /\ ProcessesFollow(s) /\ SessionOwns(s)' /\ DroppedIsOver(s)'
    BY <1>1, <1>2, <2>1, <2>2, <2>3, <2>4, LoopCancelled DEF Pinned, AwaitsLoop
  <2> QED BY <2>3, <2>7, <2>8, StepOnSession
<1> QED BY <1>3, <1>4

\* _close_session_internal, after the loop it cancelled.
LEMMA CloseReaderDoneKeeps ==
  ASSUME Apart, Apart', IInv, IInv', ProcessInv, NEW h \in Actors, CloseReaderDone(h)
  PROVE  ProcessInv'
<1>0. PICK s, t : s = job[h].target /\ t = job[h].task
  OBVIOUS
<1> USE <1>0
<1>1. /\ job[h].pc = "close_reader" /\ RequestFinds(h) /\ Done(t)
      /\ UNCHANGED <<sessions, rd>>
  BY DEF CloseReaderDone, At, ProcessInv, ReaderGone
<1>2. s \in Sessions /\ s \in sessions /\ job[h].pc \in Critical
  BY <1>1, WorksOn DEF AtWork, Critical, Unlocked
<1>3. ses[s].readTask = t /\ ses[s].status = "closed"
  BY <1>1 DEF RequestFinds, Closing
<1> DEFINE r == [ses[s] EXCEPT !.readTask = None]
<1>4. r \in ChatSession /\ r.claudeProc = ses[s].claudeProc /\ r.readTask = None /\ r.status = "closed"
  <2>1. ses[s] \in ChatSession
    BY <1>2 DEF IInv, TypeOK
  <2> QED BY <2>1, <1>3 DEF ChatSession
<1>5. CloseKill(h, s, job[h].plan, r)
  BY DEF CloseReaderDone
<1> HIDE DEF r
<1> QED BY <1>1, <1>2, <1>3, <1>4, <1>5, CloseKillKeeps DEF Pinned, AwaitsLoop

\* _close_session_internal, after the process it killed.
LEMMA CloseProcGoneKeeps ==
  ASSUME Apart, Apart', IInv, IInv', ProcessInv, NEW h \in Actors, CloseProcGone(h)
  PROVE  ProcessInv'
<1>0. PICK s, p : s = job[h].target /\ p = job[h].proc
  OBVIOUS
<1> USE <1>0
<1>1. job[h].pc = "close_wait" /\ RequestFinds(h) /\ procs[p].st = "exited" /\ UNCHANGED <<sessions, rd, procs>>
  BY DEF CloseProcGone, At, ProcessInv, ProcGone
<1>2. s \in Sessions /\ (\A g \in Actors \ {h} : Unharmed(g, s)) /\ s \in sessions
  BY <1>1, WorksOn DEF AtWork, Critical, Unlocked
<1>3. ses[s].claudeProc = p /\ Done(ses[s].readTask) /\ p # None /\ ses[s].status = "closed"
  BY <1>1 DEF RequestFinds, Closing
<1>4. /\ ses'[s].claudeProc = None /\ ses'[s].readTask = ses[s].readTask /\ OtherSessionsKept(s)
      /\ ses'[s].status = "closed" /\ ses'[s].last = "session_closed"
  <2> DEFINE r0 == [ses[s] EXCEPT !.claudeProc = None]
             r  == Announce(r0)
  <2>1. ses[s] \in ChatSession
    BY <1>2 DEF IInv, TypeOK
  <2>2. r0 \in ChatSession /\ r0.claudeProc = None /\ r0.readTask = ses[s].readTask /\ r0.status = "closed"
    BY <2>1, <1>3 DEF ChatSession
  <2>3. ses' = [ses EXCEPT ![s] = r]
    BY DEF CloseProcGone
  <2> HIDE DEF r0
  <2>4. /\ r.claudeProc = None /\ r.readTask = ses[s].readTask /\ r.status = "closed"
        /\ r.last = "session_closed"
    BY <2>2 DEF Announce, Push, ChatSession
  <2> HIDE DEF r
  <2> QED BY <1>1, <1>2, <2>3, <2>4 DEF IInv, TypeOK, OtherSessionsKept
<1>5. /\ job'[h].pc = "close_drop" /\ job'[h].target = s
      /\ \A g \in Actors \ {h} : job'[g] = job[g]
  BY DEF CloseProcGone, IInv, TypeOK, Job, Actors
<1>6. RequestFinds(h)'
  BY <1>1, <1>2, <1>3, <1>4, <1>5 DEF RequestFinds, Closing, Done
<1>7. RequestsFollow(s)
  BY <1>2, <1>1, <1>6, <1>5, OnlyMover DEF Pinned, AwaitsLoop
<1>8. LoopsFollow(s) /\ ProcessesFollow(s) /\ SessionOwns(s)' /\ DroppedIsOver(s)'
  BY <1>1, <1>2, <1>3, <1>4, ProcessGone
<1> QED BY <1>2, <1>4, <1>7, <1>8, StepOnSession

\* _close_session_internal, its end: what is removed is over.
LEMMA CloseDropKeeps ==
  ASSUME Apart, Apart', IInv, IInv', ProcessInv, NEW h \in Actors, CloseDrop(h)
  PROVE  ProcessInv'
<1>0. PICK s : s = job[h].target
  OBVIOUS
<1> USE <1>0
<1>1. job[h].pc = "close_drop" /\ RequestFinds(h) /\ UNCHANGED <<procs, rd>> /\ sessions' = sessions \ {s}
  BY DEF CloseDrop, At, ProcessInv
<1>2. s \in Sessions /\ s \in sessions
  BY <1>1 DEF RequestFinds, IInv, TypeOK
<1>12. ASSUME NEW g \in Actors \ {h} PROVE Unharmed(g, s)
  BY <1>1, Bystanders DEF Unharmed, OnItsWay, AtWork, Critical, Closing
<1>3. /\ ses[s].claudeProc = None /\ Done(ses[s].readTask) /\ ses[s].status = "closed"
      /\ ses[s].last = "session_closed"
  BY <1>1 DEF RequestFinds, Closing
<1>4. /\ ses'[s].claudeProc = None /\ ses'[s].readTask = ses[s].readTask /\ OtherSessionsKept(s)
      /\ ses'[s].status = "closed" /\ ses'[s].last = "session_closed"
  BY <1>1, <1>2, <1>3 DEF CloseDrop, IInv, TypeOK, ChatSession, OtherSessionsKept
<1>5. /\ job'[h].pc \in {"ready", "reset_create"}
      /\ \A g \in Actors \ {h} : job'[g] = job[g]
  BY DEF CloseDrop, Ready, IInv, TypeOK, Actors
<1>6. RequestFinds(h)'
  BY <1>5 DEF RequestFinds, Closing
<1>7. RequestsFollow(s)
  BY <1>2, <1>1, <1>12, <1>6, <1>5, OnlyMover
<1>8. LoopsFollow(s)
  <2> SUFFICES ASSUME NEW q \in Procs, rd[q].session = s PROVE LoopServes(q)'
    BY <1>1 DEF LoopsFollow
  <2>1. ~Live(q)
    BY <1>3 DEF LoopServes, ProcessInv, Live, Done
  <2> QED BY <1>1, <2>1 DEF LoopServes, ProcessInv, Live
<1>9. ProcessesFollow(s)
  BY <1>1, <1>3, <1>4 DEF ProcessesFollow
<1>10. SessionOwns(s)'
  <2>1. SessionOwns(s)
    BY <1>2 DEF ProcessInv
  <2> QED BY <1>1, <1>3, <1>4, <2>1 DEF SessionOwns, Done
<1>11. DroppedIsOver(s)'
  BY <1>4 DEF DroppedIsOver
<1> QED BY <1>2, <1>4, <1>7, <1>8, <1>9, <1>10, <1>11, StepOnSession

\* close_session.
LEMMA CloseKeeps ==
  ASSUME Apart, Apart', IInv, IInv', ProcessInv, NEW h \in Actors, NEW s \in Sessions, Close(h, s)
  PROVE  ProcessInv'
BY CloseBeginKeeps DEF Close, Owns, At, Pinned, AwaitsLoop

\* reset_session, from either entry.
LEMMA ResetKeeps ==
  ASSUME Apart, Apart', IInv, IInv', ProcessInv, NEW h \in Actors, NEW s \in Sessions, Reset(h, s)
  PROVE  ProcessInv'
<1>1. ~Pinned(h)
  BY DEF Reset, At, Pinned, AwaitsLoop
<1>2. CASE Owns(h, s)
  BY <1>1, <1>2, CloseBeginKeeps DEF Reset, Owns
<1>3. CASE ~Owns(h, s)
  <2>1. /\ job' = [job EXCEPT ![h] = [Ready EXCEPT !.pc = "reset_create"]]
        /\ UNCHANGED <<sessions, ses, procs, rd>>
    BY <1>3 DEF Reset
  <2>2. job'[h].pc = "reset_create" /\ \A g \in Actors \ {h} : job'[g] = job[g]
    BY <2>1 DEF Ready, IInv, TypeOK, Actors
  <2>3. RequestFinds(h)'
    BY <2>2 DEF RequestFinds, Closing
  <2> QED BY <1>1, <2>1, <2>2, <2>3, StepOnRequests
<1> QED BY <1>2, <1>3


-----------------------------------------------------------------------------
(* The read loops and the processes *)

\* A step of the loop p of s: it ends or goes on, and a session being closed is
\* still closed after it.
LEMMA LoopStep ==
  ASSUME IInv, IInv', ProcessInv, NEW p \in Procs, NEW s, s = rd[p].session, Live(p),
         NEW r \in ChatSession, NEW l \in ReadLoop,
         UNCHANGED <<sessions, job>>, Alike,
         ses' = [ses EXCEPT ![s] = r], rd' = [rd EXCEPT ![p] = l],
         l.session = s, l.st # "none", l.st \in {"reading", "storing"} => l.bound = p,
         r.claudeProc = ses[s].claudeProc, r.readTask = ses[s].readTask,
         rd[p].cancel /\ ses[s].status = "closed"
           => r.status = "closed" /\ (l.cancel \/ l.st = "done")
  PROVE  ProcessInv'
<1>1. s \in Sessions /\ s \in sessions /\ ses[s].readTask = p /\ ses[s].claudeProc \in {p, None}
  BY DEF ProcessInv, LoopServes, Live, IInv, TypeOK
<1>2. ses'[s] = r /\ OtherSessionsKept(s) /\ rd'[p] = l /\ \A q \in Procs \ {p} : rd'[q] = rd[q]
  BY <1>1 DEF IInv, TypeOK, OtherSessionsKept
<1>3. ASSUME NEW g \in Actors, job[g].target = s PROVE RequestFinds(g)'
  <2>1. RequestFinds(g) /\ ~Done(ses[s].readTask) /\ ses[s].readTask # None
    BY <1>1 DEF ProcessInv, Live, Done
  <2>2. job[g].pc \notin {"create_spawn", "create_store", "abort_wait", "close_wait", "close_drop"}
    BY <1>3, <2>1 DEF RequestFinds
  <2>3. job[g].pc = "close_reader" => ses[s].status = "closed" /\ rd[p].cancel
    BY <1>1, <1>3, <2>1 DEF RequestFinds, Closing
  <2>4. job'[g] = job[g] /\ sessions' = sessions
    OBVIOUS
  <2>5. /\ ses'[s].claudeProc = ses[s].claudeProc /\ ses'[s].readTask = p /\ ses[s].readTask = p
        /\ job[g].pc = "close_reader" => ses'[s].status = "closed" /\ (rd'[p].cancel \/ rd'[p].st = "done")
    BY <1>1, <1>2, <2>3
  <2>6. job[g].pc \in Closing => job[g].pc = "close_reader"
    BY <2>2 DEF Closing
  <2>7. /\ s \in sessions
        /\ job[g].pc \in {"create_spawn", "send_spawn", "mode_spawn", "mode_reader", "mode_cancel", "close_drop"}
             => ses[s].claudeProc = None
        /\ job[g].pc \in {"create_store", "mode_wait", "close_wait"}
             => ses[s].claudeProc = job[g].proc /\ ses[s].claudeProc # None
        /\ job[g].pc \in {"abort_reader", "abort_wait"}
             => ses[s].claudeProc \in {job[g].proc, None} /\ job[g].proc # None
        /\ job[g].pc \in {"mode_reader", "mode_cancel", "close_reader"} => p = job[g].task /\ p # None
        /\ job[g].pc = "abort_reader" => p \in {job[g].task, None} /\ job[g].task # None
        /\ job[g].pc = "close_reader" => ses[s].claudeProc # None
    BY <1>1, <1>3, <2>1, <2>5 DEF RequestFinds
  <2>8. ~(job[g].pc \in {"create_spawn", "create_store"}) /\ ~(job[g].pc \in {"abort_wait", "close_wait", "close_drop"})
    BY <2>2
  <2>9. job[g].pc \in Closing => ses'[s].status = "closed"
    BY <2>5, <2>6
  <2>10. job[g].pc = "close_reader" => rd'[p].cancel \/ Done(p)'
    BY <2>5 DEF Done
  <2> QED BY <1>3, <2>2, <2>4, <2>5, <2>7, <2>8, <2>9, <2>10 DEF RequestFinds
<1>4. RequestsFollow(s)
  BY <1>3 DEF RequestsFollow
<1>5. LoopsFollow(s)
  <2>1. LoopServes(p)'
    <3>1. procs'[p].st # "none"
      BY DEF ProcessInv, LoopServes, Live, Alike
    <3> QED BY <1>1, <1>2, <3>1 DEF LoopServes, Live
  <2>2. ASSUME NEW q \in Procs, q # p, rd[q].session = s PROVE LoopServes(q)'
    <3>1. ~Live(q)
      BY <1>1, <2>2 DEF ProcessInv, LoopServes
    <3> QED BY <1>1, <1>2, <2>2, <3>1 DEF ProcessInv, LoopServes, Live, Alike
  <2> QED BY <1>2, <2>1, <2>2 DEF LoopsFollow
<1>6. ProcessesFollow(s)
  BY <1>1, <1>2 DEF ProcessesFollow, Alike
<1>7. SessionOwns(s)'
  <2>1. SessionOwns(s)
    BY <1>1 DEF ProcessInv
  <2>2. ~Done(ses[s].readTask)
    BY <1>1 DEF Live, Done
  <2> QED BY <1>1, <1>2, <2>1, <2>2 DEF SessionOwns, Alike, AwaitsLoop
<1>8. DroppedIsOver(s)'
  BY <1>1 DEF DroppedIsOver, Dropped
<1> QED BY <1>1, <1>2, <1>4, <1>5, <1>6, <1>7, <1>8, StepOnSession

\* A loop that ended is well typed, and over.
LEMMA OverLoop ==
  ASSUME IInv, NEW p \in Procs
  PROVE  /\ Over(p) \in ReadLoop /\ Over(p).session = rd[p].session /\ Over(p).st = "done"
         /\ [Over(p) EXCEPT !.cancel = TRUE] \in ReadLoop
         /\ [Over(p) EXCEPT !.cancel = TRUE].session = rd[p].session
         /\ [Over(p) EXCEPT !.cancel = TRUE].st = "done"
<1>1. rd[p].session \in Sessions \cup {None}
  BY DEF IInv, TypeOK, ReadLoop
<1> QED BY <1>1 DEF Over, NoLoop, ReadLoop

\* The session of a loop that has not ended.
LEMMA LoopSession ==
  ASSUME IInv, ProcessInv, NEW p \in Procs, Live(p)
  PROVE  /\ rd[p].session \in Sessions /\ rd[p].session \in sessions
         /\ ses[rd[p].session] \in ChatSession /\ rd[p] \in ReadLoop
         /\ ses[rd[p].session].claudeProc \in {p, None}
         /\ ses' = ses => ses' = [ses EXCEPT ![rd[p].session] = ses[rd[p].session]]
<1>1. rd[p].session \in Sessions /\ rd[p].session \in sessions
  BY DEF ProcessInv, LoopServes, Live, IInv, TypeOK
<1> QED BY <1>1 DEF ProcessInv, LoopServes, IInv, TypeOK

\* The loop runs for the first time: the process it finds is its own.
LEMMA ReaderStartKeeps ==
  ASSUME IInv, IInv', ProcessInv, NEW p \in Procs, ReaderStart(p)
  PROVE  ProcessInv'
<1> DEFINE s == rd[p].session
           b == ses[s].claudeProc
           l0 == [rd[p] EXCEPT !.st = "reading", !.bound = b]
           l == IF b = None \/ ses[s].status = "closed" THEN Over(p) ELSE l0
<1>1. rd[p].st = "scheduled" /\ ~rd[p].cancel /\ UNCHANGED <<sessions, ses, job, procs>> /\ Live(p)
  BY DEF ReaderStart, Live
<1>2. /\ ses[s] \in ChatSession /\ rd[p] \in ReadLoop /\ b \in {p, None}
      /\ ses' = [ses EXCEPT ![s] = ses[s]]
  BY <1>1, LoopSession
<1>3. rd' = [rd EXCEPT ![p] = l]
  BY DEF ReaderStart
<1>4. b = p => l0 \in ReadLoop /\ l0.session = s /\ l0.st = "reading" /\ l0.bound = p
  BY <1>2 DEF ReadLoop
<1>5. l \in ReadLoop /\ l.session = s /\ l.st # "none" /\ (l.st \in {"reading", "storing"} => l.bound = p)
  BY <1>2, <1>4, OverLoop
<1>6. Alike
  BY <1>1 DEF Alike
<1> HIDE DEF l, l0
<1> QED BY <1>1, <1>2, <1>3, <1>5, <1>6, LoopStep

\* The loop is cancelled before it ran, or inside its finally clause.
LEMMA ReaderDroppedKeeps ==
  ASSUME IInv, IInv', ProcessInv, NEW p \in Procs, ReaderDropped(p)
  PROVE  ProcessInv'
<1> DEFINE s == rd[p].session
           l == [Over(p) EXCEPT !.cancel = TRUE]
<1>1. UNCHANGED <<sessions, ses, job, procs>> /\ Live(p) /\ Alike
  BY DEF ReaderDropped, Live, Alike
<1>2. ses[s] \in ChatSession /\ ses' = [ses EXCEPT ![s] = ses[s]]
  BY <1>1, LoopSession
<1>3. rd' = [rd EXCEPT ![p] = l]
  BY DEF ReaderDropped
<1>4. l \in ReadLoop /\ l.session = s /\ l.st = "done"
  BY OverLoop
<1> HIDE DEF l
<1> QED BY <1>1, <1>2, <1>3, <1>4, LoopStep

\* The loop ends after its finally clause.
LEMMA ReaderClosedKeeps ==
  ASSUME IInv, IInv', ProcessInv, NEW p \in Procs, ReaderClosed(p)
  PROVE  ProcessInv'
<1> DEFINE s == rd[p].session
           r == [ses[s] EXCEPT !.status = "closed"]
<1>1. UNCHANGED <<sessions, job, procs>> /\ Live(p) /\ Alike
  BY DEF ReaderClosed, Live, Alike
<1>2. ses[s] \in ChatSession
  BY <1>1, LoopSession
<1>3. r \in ChatSession /\ r.claudeProc = ses[s].claudeProc /\ r.readTask = ses[s].readTask /\ r.status = "closed"
  BY <1>2 DEF ChatSession, Statuses
<1>4. rd' = [rd EXCEPT ![p] = Over(p)] /\ ses' = [ses EXCEPT ![s] = r]
  BY DEF ReaderClosed
<1> HIDE DEF r
<1> QED BY <1>1, <1>3, <1>4, OverLoop, LoopStep

\* The finally clause of the loop, up to its await.
LEMMA ReaderFinallyKeeps ==
  ASSUME IInv, IInv', ProcessInv, NEW p \in Procs, NEW rec \in ChatSession,
         rd[p].st \in {"reading", "storing"}, ReaderFinally(p, rec),
         rec.claudeProc = ses[rd[p].session].claudeProc, rec.readTask = ses[rd[p].session].readTask,
         rec.status = ses[rd[p].session].status
  PROVE  ProcessInv'
<1> DEFINE s == rd[p].session
           r == IF rec.status # "closed" THEN Announce(rec) ELSE rec
           l0 == [rd[p] EXCEPT !.st = "closing", !.cancel = FALSE]
           l == IF rec.status # "closed" THEN l0 ELSE Over(p)
<1>1. UNCHANGED <<sessions, job, procs>> /\ Live(p) /\ Alike
  BY DEF ReaderFinally, Live, Alike
<1>2. ses' = [ses EXCEPT ![s] = r] /\ rd' = [rd EXCEPT ![p] = l]
  BY DEF ReaderFinally
<1>3. rd[p] \in ReadLoop
  BY <1>1, LoopSession
<1>4. l0 \in ReadLoop /\ l0.session = s /\ l0.st = "closing"
  BY <1>3 DEF ReadLoop
<1>5. l \in ReadLoop /\ l.session = s /\ l.st \in {"closing", "done"} /\ (rec.status = "closed" => l.st = "done")
  BY <1>4, OverLoop
<1>6. Announce(rec) \in ChatSession /\ Announce(rec).claudeProc = rec.claudeProc /\ Announce(rec).readTask = rec.readTask
  BY SessionEdits DEF Same, Announce, Push, ChatSession
<1>7. r \in ChatSession /\ r.claudeProc = ses[s].claudeProc /\ r.readTask = ses[s].readTask
      /\ (rec.status = "closed" => r.status = "closed")
  BY <1>6
<1> HIDE DEF l, l0, r
<1> QED BY <1>1, <1>2, <1>5, <1>7, LoopStep

\* Cancelled, end of file, or an error of readline.
LEMMA ReaderEndsKeeps ==
  ASSUME IInv, IInv', ProcessInv, NEW p \in Procs,
         ReaderCancelled(p) \/ ReaderEof(p) \/ ReaderError(p)
  PROVE  ProcessInv'
<1> DEFINE rec == ses[rd[p].session]
<1>1. rd[p].st \in {"reading", "storing"} /\ Live(p)
  BY DEF ReaderCancelled, ReaderEof, ReaderError, Live
<1>2. rec \in ChatSession
  BY <1>1, LoopSession
<1>3. /\ Push(rec, "error") \in ChatSession /\ Push(rec, "error").claudeProc = rec.claudeProc
      /\ Push(rec, "error").readTask = rec.readTask /\ Push(rec, "error").status = rec.status
  <2>1. Push(rec, "error") \in ChatSession
    BY <1>2, SessionEdits DEF Same, Events
  <2> QED BY <1>2, <2>1 DEF Push, ChatSession
<1>4. ReaderFinally(p, rec) \/ ReaderFinally(p, Push(rec, "error"))
  BY DEF ReaderCancelled, ReaderEof, ReaderError
<1> QED BY <1>1, <1>2, <1>3, <1>4, ReaderFinallyKeeps

\* The result of a turn arrives.
LEMMA ReaderResultKeeps ==
  ASSUME IInv, IInv', ProcessInv, NEW p \in Procs, ReaderResult(p)
  PROVE  ProcessInv'
<1>0. PICK s, r : s = rd[p].session /\ r = ses[s]
  OBVIOUS
<1> DEFINE l == [rd[p] EXCEPT !.st = "storing"]
<1>1. rd[p].st = "reading" /\ ~rd[p].cancel /\ UNCHANGED <<sessions, ses, job>> /\ Live(p)
  BY DEF ReaderResult, Live
<1>2. r \in ChatSession /\ rd[p] \in ReadLoop /\ ses' = [ses EXCEPT ![s] = r]
  BY <1>0, <1>1, LoopSession
<1>3. rd' = [rd EXCEPT ![p] = l]
  BY DEF ReaderResult
<1>4. l \in ReadLoop /\ l.session = s /\ l.st = "storing" /\ l.bound = rd[p].bound
  BY <1>0, <1>2 DEF ReadLoop
<1>5. rd[p].bound = p
  BY <1>1 DEF ProcessInv, LoopServes
<1>6. Alike
  <2>1. ASSUME NEW q \in Procs PROVE procs'[q].st = procs[q].st
    BY DEF ReaderResult, IInv, TypeOK, Process
  <2> QED BY <2>1 DEF Alike
<1>7. l.session = s /\ l.st # "none" /\ l.bound = p
  BY <1>4, <1>5
<1>8. ~(rd[p].cancel /\ r.status = "closed") /\ UNCHANGED <<sessions, job>> /\ Live(p)
  BY <1>1
<1>9. l \in ReadLoop
  BY <1>4
<1> HIDE DEF l
<1> QED BY <1>0, <1>2, <1>3, <1>6, <1>7, <1>8, <1>9, LoopStep

\* The result of a turn is stored.
LEMMA ReaderResultStoredKeeps ==
  ASSUME IInv, IInv', ProcessInv, NEW p \in Procs, ReaderResultStored(p)
  PROVE  ProcessInv'
<1> DEFINE s == rd[p].session
           l == [rd[p] EXCEPT !.st = "reading"]
           r0 == [ses[s] EXCEPT !.status = "idle"]
           r == Push(r0, "result")
<1>1. rd[p].st = "storing" /\ ~rd[p].cancel /\ UNCHANGED <<sessions, procs, job>> /\ Live(p) /\ Alike
  BY DEF ReaderResultStored, Live, Alike
<1>2. ses[s] \in ChatSession /\ rd[p] \in ReadLoop
  BY <1>1, LoopSession
<1>3. rd' = [rd EXCEPT ![p] = l] /\ ses' = [ses EXCEPT ![s] = r]
  BY DEF ReaderResultStored
<1>4. l \in ReadLoop /\ l.session = s /\ l.st = "reading" /\ l.bound = rd[p].bound
  BY <1>2 DEF ReadLoop
<1>5. rd[p].bound = p
  BY <1>1 DEF ProcessInv, LoopServes
<1>6. r0 \in ChatSession /\ r0.claudeProc = ses[s].claudeProc /\ r0.readTask = ses[s].readTask
  BY <1>2 DEF ChatSession, Statuses
<1> HIDE DEF r0
<1>7. r \in ChatSession /\ r.claudeProc = ses[s].claudeProc /\ r.readTask = ses[s].readTask
  <2>1. r \in ChatSession
    BY <1>6, SessionEdits DEF Same, Events
  <2> QED BY <1>6, <2>1 DEF Push, ChatSession
<1> HIDE DEF l, r
<1> QED BY <1>1, <1>3, <1>4, <1>5, <1>7, LoopStep

\* A process exits.
LEMMA ProcExitKeeps ==
  ASSUME IInv, ProcessInv, NEW p \in Procs, ProcExit(p)
  PROVE  ProcessInv'
<1> USE DEF ProcessInv
<1>1. UNCHANGED <<sessions, ses, job, rd>>
  BY DEF ProcExit
<1>2. ASSUME NEW q \in Procs
      PROVE  /\ procs'[q].st = "none" <=> procs[q].st = "none"
             /\ procs'[q].st \in Running => procs[q].st \in Running
  BY DEF ProcExit, IInv, TypeOK, Process, Running
<1>3. ASSUME NEW q \in Procs PROVE LoopServes(q)'
  BY <1>1, <1>2 DEF LoopServes, Live
<1>4. ASSUME NEW s \in Sessions PROVE SessionOwns(s)'
  <2>1. ses[s].claudeProc \in Procs \cup {None} /\ SessionOwns(s)
    BY DEF IInv, TypeOK, ChatSession
  <2> QED BY <1>1, <1>2, <2>1 DEF SessionOwns, Done, AwaitsLoop
<1>5. ASSUME NEW s \in Sessions PROVE DroppedIsOver(s)'
  BY <1>1 DEF DroppedIsOver, Dropped, Creating
<1>6. OwnProcess'
  BY <1>1 DEF OwnProcess
<1>7. ASSUME NEW g \in Actors PROVE RequestFinds(g)'
  <2>1. RequestFinds(g)
    OBVIOUS
  <2> QED BY <1>1, <2>1 DEF RequestFinds, Done
<1>8. NoOrphanProcess'
  BY <1>1, <1>2 DEF NoOrphanProcess, Running
<1> QED BY <1>3, <1>4, <1>5, <1>6, <1>7, <1>8

-----------------------------------------------------------------------------
(* The theorems about processes and read loops *)

\* Two hours pass: nothing anybody relies on changes.
LEMMA ExpireKeeps ==
  ASSUME IInv, IInv', ProcessInv, NEW s \in Sessions, Expire(s)
  PROVE  ProcessInv'
<1>0. PICK r : r = [ses[s] EXCEPT !.stale = TRUE]
  OBVIOUS
<1>1. ses' = [ses EXCEPT ![s] = r] /\ s \in sessions /\ UNCHANGED <<sessions, job, procs, rd>> /\ Alike
  BY <1>0 DEF Expire, Alike
<1>2. /\ r.claudeProc = ses[s].claudeProc /\ r.readTask = ses[s].readTask
      /\ r.status = ses[s].status /\ r.last = ses[s].last
  BY <1>0 DEF IInv, TypeOK, ChatSession
<1>3. ses'[s] = r /\ OtherSessionsKept(s)
  BY <1>1 DEF IInv, TypeOK, OtherSessionsKept
<1>4. ASSUME NEW g \in Actors, job[g].target = s PROVE RequestFinds(g)'
  <2>1. RequestFinds(g)
    BY DEF ProcessInv
  <2> QED BY <1>1, <1>2, <1>3, <1>4, <2>1 DEF RequestFinds, Done
<1>5. RequestsFollow(s)
  BY <1>1, <1>4 DEF RequestsFollow
<1>6. LoopsFollow(s) /\ ProcessesFollow(s) /\ SessionOwns(s)' /\ DroppedIsOver(s)'
  BY <1>1, <1>2, <1>3, Assigned DEF AwaitsLoop
<1> QED BY <1>3, <1>5, <1>6, StepOnSession

\* The clean-up closes a session the way a request does.
LEMMA CleanupKeeps ==
  ASSUME Apart, Apart', IInv, IInv', ProcessInv, NEW c \in Cleaners, Cleanup(c)
  PROVE  ProcessInv'
<1>1. c \in Actors
  BY DEF Actors
<1>2. CASE CleanupSnapshot(c)
  BY <1>2, StepOnRequests DEF CleanupSnapshot
<1>3. ASSUME NEW s \in Sessions, CleanupClose(c, s) PROVE ProcessInv'
  <2>1. CASE s \in sessions
    BY <1>1, <1>3, <2>1, CloseBeginKeeps DEF CleanupClose, At, Pinned, AwaitsLoop
  <2>2. CASE s \notin sessions
    BY <1>3, <2>2, StepOnRequests DEF CleanupClose
  <2> QED BY <2>1, <2>2
<1> QED BY <1>2, <1>3 DEF Cleanup


\* The invariant holds when the Bridge starts.
LEMMA InitProcess == Init => ProcessInv
<1> SUFFICES ASSUME Init PROVE ProcessInv
  OBVIOUS
<1>1. \A p \in Procs : rd[p].st = "none" /\ rd[p].session = None /\ procs[p].st = "none"
  BY DEF Init, NoLoop, Unused
<1>2. \A s \in Sessions : ses[s].claudeProc = None /\ ses[s].readTask = None /\ ses[s].owner = None
  BY DEF Init, Unborn
<1>3. \A h \in Actors : job[h].pc = "ready"
  BY DEF Init, Ready, Actors
<1>4. ASSUME NEW p \in Procs PROVE LoopServes(p)
  BY <1>1 DEF LoopServes, Live
<1>5. ASSUME NEW s \in Sessions PROVE SessionOwns(s) /\ DroppedIsOver(s)
  BY <1>2 DEF SessionOwns, Done, DroppedIsOver, Dropped
<1>6. OwnProcess
  BY <1>2 DEF OwnProcess
<1>7. ASSUME NEW h \in Actors PROVE RequestFinds(h)
  BY <1>3 DEF RequestFinds, Closing
<1>8. NoOrphanProcess
  BY <1>1 DEF NoOrphanProcess
<1> QED BY <1>4, <1>5, <1>6, <1>7, <1>8 DEF ProcessInv

\* Every step preserves it, next to IInv.
LEMMA NextProcess == Apart /\ Apart' /\ IInv /\ IInv' /\ ProcessInv /\ [Next]_vars => ProcessInv'
<1> SUFFICES ASSUME Apart, Apart', IInv, IInv', ProcessInv, [Next]_vars PROVE ProcessInv'
  OBVIOUS
<1>1. ASSUME NEW h \in Actors, Request(h) PROVE ProcessInv'
  <2>1. ASSUME NEW s \in Sessions, NEW m \in Modes, NEW w \in {"none", "prompt"}, Create(h, s, m, w)
        PROVE  ProcessInv'
    BY <2>1, CreateBeginKeeps DEF Create, At
  <2> QED BY <1>1, <2>1, SendCheckKeeps, AbortBeginKeeps, ModeBeginKeeps, CloseKeeps, ResetKeeps DEF Request
<1>2. ASSUME NEW h \in Actors, ResumeLocked(h) PROVE ProcessInv'
  <2>1. ASSUME NEW s \in Sessions, ResetCreate(h, s) PROVE ProcessInv'
    <3>1. DefaultMode \in Modes
      OBVIOUS
    <3> QED BY <2>1, <3>1, CreateBeginKeeps DEF ResetCreate, At
  <2> QED BY <1>2, <2>1, SendRecordKeeps, AnswersKeeps, ResetKeeps DEF ResumeLocked
<1>3. ASSUME NEW h \in Actors, Resume(h) PROVE ProcessInv'
  BY <1>3, CreateSpawnedKeeps, CreateSpawnFailedKeeps, CreateStoredKeeps, SendRestartedKeeps, AnswersKeeps,
     SendWriteKeeps, AbortReaderDoneKeeps, AbortFinishKeeps, ModeProcGoneKeeps, ModeReaderCancelledKeeps,
     ModeReaderDoneKeeps, ModeSpawnedKeeps, ModeSpawnFailedKeeps, CloseReaderDoneKeeps, CloseProcGoneKeeps,
     CloseDropKeeps DEF Resume
<1>4. ASSUME NEW p \in Procs, Reader(p) \/ Output(p) \/ ProcExit(p) PROVE ProcessInv'
  BY <1>4, ReaderStartKeeps, ReaderDroppedKeeps, ReaderClosedKeeps, ReaderEndsKeeps, ReaderResultKeeps,
     ReaderResultStoredKeeps, ProcExitKeeps DEF Reader, Output
<1>5. CASE UNCHANGED vars
  BY <1>5, StepOnRequests DEF vars
<1> QED BY <1>1, <1>2, <1>3, <1>4, <1>5, ModeReaderTimeoutKeeps, CleanupKeeps, ExpireKeeps DEF Next, Actors

\* What the lock keeps as long as nobody meets a lazy restart or an abort on its session:
\* any number of callers may create, write to, switch the mode of, close and reset the same
\* sessions while the clean-up runs.
THEOREM ProcessInvariance == Spec /\ []Apart => [](IInv /\ ProcessInv)
<1>1. Init => IInv /\ ProcessInv
  BY InitIInv, InitProcess
<1>2. Apart /\ Apart' /\ (IInv /\ ProcessInv) /\ [Next]_vars => (IInv /\ ProcessInv)'
  BY NextIInv, NextProcess
<1> QED BY <1>1, <1>2, PTL DEF Spec

\* Every running Claude process is the one a registered session refers to, so that
\* closing the session kills it, as long as nobody meets a lazy restart or an abort on the
\* session: these two change the process without the lock, and the lock sees to the rest.
THEOREM NoOrphanTheorem == Spec /\ []Apart => []NoOrphanProcess
<1>1. IInv /\ ProcessInv => NoOrphanProcess
  BY DEF ProcessInv
<1> QED BY <1>1, ProcessInvariance, PTL

\* On the same condition a session has one read loop that is not over, and although the
\* loop looks the process up only when it first runs, it finds the one that its own start
\* created, whoever switches the mode or closes the session meanwhile.
THEOREM OneReadLoopTheorem == Spec /\ []Apart => []OneReadLoop
<1>1. IInv /\ ProcessInv => OneReadLoop
  BY DEF ProcessInv, LoopServes, Live, OneReadLoop
<1> QED BY <1>1, ProcessInvariance, PTL

\* On the same condition a removed session is closed, without a process and without a loop
\* that could still push an event, whether a caller or the clean-up removed it.
THEOREM DroppedIsInertTheorem == Spec /\ []Apart => []DroppedIsInert
<1>1. IInv /\ ProcessInv => DroppedIsInert
  <2> SUFFICES ASSUME IInv, ProcessInv, NEW s \in Sessions, Dropped(s)
               PROVE  /\ ses[s].status = "closed" /\ ses[s].claudeProc = None
                      /\ \A p \in Procs : rd[p].session = s => rd[p].st = "done"
    BY DEF DroppedIsInert
  <2>1. s \notin sessions /\ s # None
    BY DEF Dropped
  <2>2. ses[s].status = "closed" /\ ses[s].claudeProc = None
    BY <2>1 DEF ProcessInv, DroppedIsOver, SessionOwns
  <2>3. ASSUME NEW p \in Procs, rd[p].session = s PROVE rd[p].st = "done"
    BY <2>1, <2>3 DEF ProcessInv, LoopServes, Live
  <2> QED BY <2>2, <2>3
<1> QED BY <1>1, ProcessInvariance, PTL

\* On the same condition whoever follows a removed session learns its end, whichever of
\* close, reset and clean-up ended it: its newest event is session_closed.
THEOREM DropIsAnnouncedTheorem == Spec /\ []Apart => []DropIsAnnounced
<1>1. IInv /\ ProcessInv => DropIsAnnounced
  BY DEF ProcessInv, DroppedIsOver, DropIsAnnounced
<1> QED BY <1>1, ProcessInvariance, PTL
=============================================================================
