----------------------------- MODULE TaskWorker ------------------------------
(***************************************************************************)
(* The one-shot tasks of the Bridge: the in-memory TaskQueue, the Worker   *)
(* that runs one task after another as a headless Claude process, and the  *)
(* callers that submit a task and ask for its status.                      *)
(*                                                                         *)
(* The lock of the TaskQueue is never waited for: its holders do not       *)
(* await.  The worker is suspended at four points only: its half second of *)
(* sleep ("idle"), create_subprocess_exec ("spawn"), communicate under     *)
(* wait_for ("communicate") and kill_process ("kill").  At "loop" it is    *)
(* between two iterations of Worker._loop and holds the event loop.        *)
(***************************************************************************)
EXTENDS Naturals, Sequences

CONSTANTS
  Tasks, \* task ids (uuid4), each used once; keys are (user, id), so a caller
         \* who is not the owner is a caller who does not know the id
  None   \* Python's None

ASSUME TasksAssumption == None \notin Tasks

VARIABLES
  up,     \* the Bridge process is running
  given,  \* the ids that were returned to a caller
  status, \* TaskQueue._tasks: the status of each task, "none" without an entry
  order,  \* TaskQueue._order
  worker, \* what the task of Worker._loop is suspended in, and its task
  claude, \* the Claude process of each task: "ok" and "error" have exited
  files,  \* the tasks whose temporary MCP config file was written and exists
  seen    \* the last answer a caller got about each task

vars == <<up, given, status, order, worker, claude, files, seen>>

Final    == {"completed", "failed"}
Statuses == {"none", "pending", "running"} \cup Final
Exited   == {"ok", "error"}
Busy     == {"spawn", "communicate", "kill"}

Idle == [pc |-> "idle", task |-> None]
Loop == [pc |-> "loop", task |-> None]

Init ==
  /\ up = TRUE
  /\ given = {}
  /\ status = [t \in Tasks |-> "none"]
  /\ order = <<>>
  /\ worker = Idle
  /\ claude = [t \in Tasks |-> "none"]
  /\ files = {}
  /\ seen = [t \in Tasks |-> "none"]

-----------------------------------------------------------------------------
(* The callers *)

\* HTTP requests are served while the worker is suspended.
Serving == up /\ worker.pc # "loop"

CountedId(t) == status[t] = "none" \* faulty: ids are counted anew after a restart
NewId(t) == t \notin given

\* POST /tasks
Submit(t) ==
  /\ Serving
  /\ NewId(t)
  /\ given' = given \cup {t}
  /\ status' = [status EXCEPT ![t] = "pending"]
  /\ order' = Append(order, t)
  /\ UNCHANGED <<up, worker, claude, files, seen>>

\* GET /tasks/{id}/status or /result: 404 for an id without an entry
Query(t) ==
  /\ Serving
  /\ t \in given
  /\ seen' = [seen EXCEPT ![t] = IF status[t] = "none" THEN "lost" ELSE status[t]]
  /\ UNCHANGED <<up, given, status, order, worker, claude, files>>

-----------------------------------------------------------------------------
(* The worker *)

Waiting(s) == s = "pending"

AnyPending(i) == i \in 1..Len(order) /\ Waiting(status[order[i]]) \* faulty
\* pick_pending: the first pending task in the order of submission
Picked(i) ==
  /\ i \in 1..Len(order)
  /\ Waiting(status[order[i]])
  /\ \A j \in 1..(i - 1) : ~Waiting(status[order[j]])

Unlink(t) == files \ {t}

\* The task of the worker is finished, its config file is removed.
Ended(s) ==
  /\ status' = [status EXCEPT ![worker.task] = s]
  /\ files' = Unlink(worker.task)
  /\ worker' = Loop

\* Nothing to do: sleep.
PickNone ==
  /\ up
  /\ worker.pc = "loop"
  /\ \A i \in 1..Len(order) : ~Waiting(status[order[i]])
  /\ worker' = Idle
  /\ UNCHANGED <<up, given, status, order, claude, files, seen>>

\* A task is marked running and its config file written; the process starts.
Pick(i) ==
  /\ up
  /\ worker.pc \in {"idle", "loop"}
  /\ Picked(i)
  /\ status' = [status EXCEPT ![order[i]] = "running"]
  /\ files' = files \cup {order[i]}
  /\ worker' = [pc |-> "spawn", task |-> order[i]]
  /\ UNCHANGED <<up, given, order, claude, seen>>

\* The config file cannot be written.
PickFailed(i) ==
  /\ up
  /\ worker.pc \in {"idle", "loop"}
  /\ Picked(i)
  /\ status' = [status EXCEPT ![order[i]] = "failed"]
  /\ worker' = Loop
  /\ UNCHANGED <<up, given, order, claude, files, seen>>

Spawned ==
  /\ worker.pc = "spawn"
  /\ claude' = [claude EXCEPT ![worker.task] = "alive"]
  /\ worker' = [worker EXCEPT !.pc = "communicate"]
  /\ UNCHANGED <<up, given, status, order, files, seen>>

\* claude is not installed, work_dir does not exist, ...
SpawnFailed ==
  /\ worker.pc = "spawn"
  /\ Ended("failed")
  /\ UNCHANGED <<up, given, order, claude, seen>>

Outcome(c) == IF c = "ok" THEN "completed" ELSE "failed"

\* What the worker waits for: the exit of its process.
NotAwaited(t) == TRUE \* faulty
Gone(t) == claude[t] \in Exited

Communicated ==
  /\ worker.pc = "communicate"
  /\ claude[worker.task] \in Exited
  /\ Ended(Outcome(claude[worker.task]))
  /\ UNCHANGED <<up, given, order, claude, seen>>

NoTimeout == FALSE \* faulty: communicate() without wait_for
TimeoutDue == TRUE

\* The timeout passes; the process may have exited at the same moment, or it
\* has exited and a child of it keeps its output open.
Timeout ==
  /\ worker.pc = "communicate"
  /\ TimeoutDue
  /\ claude' = [claude EXCEPT ![worker.task] = IF @ = "alive" THEN "killed" ELSE @]
  /\ worker' = [worker EXCEPT !.pc = "kill"]
  /\ UNCHANGED <<up, given, status, order, files, seen>>

TimedOut ==
  /\ worker.pc = "kill"
  /\ Gone(worker.task)
  /\ Ended("failed")
  /\ UNCHANGED <<up, given, order, claude, seen>>

-----------------------------------------------------------------------------
(* The Claude process, and the life of the Bridge *)

Exit(t) ==
  /\ \/ claude[t] = "alive" /\ \E c \in Exited : claude' = [claude EXCEPT ![t] = c]
     \/ claude[t] = "killed" /\ claude' = [claude EXCEPT ![t] = "error"]
  /\ UNCHANGED <<up, given, status, order, worker, files, seen>>

\* The memory of the Bridge process is gone.
Down ==
  /\ up
  /\ up' = FALSE
  /\ status' = [t \in Tasks |-> "none"]
  /\ order' = <<>>
  /\ worker' = Idle
  /\ UNCHANGED <<given, seen>>

\* Worker.stop: the loop is cancelled where it is suspended, so the finally
\* clause removes the config file.  Nothing waits for the process; asyncio may
\* or may not kill it while the interpreter shuts down.
Stop ==
  /\ Serving
  /\ Down
  /\ files' = IF worker.pc \in Busy THEN Unlink(worker.task) ELSE files
  /\ \/ UNCHANGED claude
     \/ /\ worker.pc \in Busy
        /\ claude[worker.task] \in {"none", "alive"}
        /\ claude' = [claude EXCEPT ![worker.task] = "killed"]

Crash ==
  /\ Down
  /\ UNCHANGED <<claude, files>>

Start ==
  /\ ~up
  /\ up' = TRUE
  /\ UNCHANGED <<given, status, order, worker, claude, files, seen>>

-----------------------------------------------------------------------------
Work ==
  \/ PickNone
  \/ \E i \in 1..Len(order) : Pick(i) \/ PickFailed(i)
  \/ Spawned
  \/ SpawnFailed
  \/ Communicated
  \/ Timeout
  \/ TimedOut

Next ==
  \/ \E t \in Tasks : Submit(t) \/ Query(t) \/ Exit(t)
  \/ Work
  \/ Stop
  \/ Crash
  \/ Start

Spec == Init /\ [][Next]_vars

(* asyncio resumes the worker, its timers fire, and a killed process dies.   *)
(* Nothing is assumed of a Claude process that runs, nor of the callers.     *)
Fairness ==
  /\ WF_vars(Work)
  /\ \A t \in Tasks : WF_vars(claude[t] = "killed" /\ Exit(t))

FairSpec == Spec /\ Fairness

-----------------------------------------------------------------------------
(* Properties *)

\* What the variables hold.
TypeOK ==
  /\ up \in BOOLEAN
  /\ given \subseteq Tasks
  /\ status \in [Tasks -> Statuses]
  /\ order \in Seq(Tasks)
  /\ worker \in [pc : {"idle", "loop"} \cup Busy, task : Tasks \cup {None}]
  /\ claude \in [Tasks -> {"none", "alive", "killed"} \cup Exited]
  /\ files \subseteq Tasks
  /\ seen \in [Tasks -> Statuses \cup {"lost"}]

\* The queue is served strictly in the order of submission and one task at a
\* time, although tasks fail early, time out and arrive in between: everything
\* before a task that was started is finished.
Fifo ==
  \A i, j \in 1..Len(order) :
    i < j /\ status[order[j]] # "pending" => status[order[i]] \in Final

\* A task is running exactly while the worker is working on it: none is left
\* behind as running by a timeout, a failed start or an exception.
RunningIsHeld ==
  \A t \in Tasks : status[t] = "running" <=> worker.pc \in Busy /\ worker.task = t

\* A finished task has left no process and no config file, and it is reported
\* completed only if its Claude process exited with code 0 by itself.
FinishedIsClean ==
  \A t \in Tasks : status[t] \in Final =>
    /\ claude[t] \in Exited \cup {"none"}
    /\ t \notin files
    /\ status[t] = "completed" => claude[t] = "ok"

\* How far a task is, as a caller sees it.
Rank(s) ==
  IF s = "none" THEN 0 ELSE IF s = "pending" THEN 1 ELSE IF s = "running" THEN 2
  ELSE IF s \in Final THEN 3 ELSE 4

\* Whoever polls a task sees it advance only, and its outcome change never
\* (query_status, then get_result).
AnswersAdvance ==
  [][\A t \in Tasks : seen'[t] # seen[t] => Rank(seen'[t]) > Rank(seen[t])]_vars

\* What is known of a task besides: the parts of the inductive invariant that
\* Fifo, RunningIsHeld, FinishedIsClean and AnswersAdvance rest on.
Entries ==
  /\ \A i \in 1..Len(order) : status[order[i]] # "none"
  /\ \A i, j \in 1..Len(order) : i # j => order[i] # order[j]
  /\ \A t \in Tasks : status[t] # "none" => t \in given
  /\ ~up => worker = Idle /\ order = <<>> /\ \A t \in Tasks : status[t] = "none"

Fresh ==
  \A t \in Tasks : t \notin given \/ status[t] = "pending" =>
    claude[t] = "none" /\ t \notin files

Stage ==
  /\ worker.pc \in Busy => worker.task \in Tasks
  /\ worker.pc = "spawn" => claude[worker.task] = "none"
  /\ worker.pc = "communicate" => claude[worker.task] \in {"alive"} \cup Exited
  /\ worker.pc = "kill" => claude[worker.task] \in {"killed"} \cup Exited

SeenBefore ==
  \A t \in Tasks :
    \/ seen[t] = "none"
    \/ status[t] = "none" /\ t \in given
    \/ seen[t] # "lost" /\ (seen[t] = status[t] \/ Rank(seen[t]) < Rank(status[t]))

\* The inductive invariant.
IInv ==
  /\ TypeOK
  /\ Fifo
  /\ RunningIsHeld
  /\ FinishedIsClean
  /\ Entries
  /\ Fresh
  /\ Stage
  /\ SeenBefore

\* Every accepted task is finished, timed out ones included, unless the Bridge
\* goes down: no Claude process can hold up the queue.
EveryTaskEnds ==
  \A t \in Tasks : status[t] = "pending" ~> status[t] \in Final \/ ~up

\* The worker implements the service.
Service == INSTANCE TaskService WITH Tasks <- Tasks, status <- status, order <- order
Implements == Service!Spec
=============================================================================
