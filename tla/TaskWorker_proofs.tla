-------------------------- MODULE TaskWorker_proofs --------------------------
(***************************************************************************)
(* Proofs about TaskWorker, for any set of task ids: the inductive         *)
(* invariant IInv, what follows from it, and that the worker implements    *)
(* TaskService.                                                            *)
(***************************************************************************)
EXTENDS TaskWorker, TLAPS

\* The empty bridge satisfies the invariant.
LEMMA InitIInv == Init => IInv
BY DEF Init, IInv, TypeOK, Fifo, RunningIsHeld, FinishedIsClean, Entries, Fresh, Stage, SeenBefore,
       Statuses, Final, Exited, Busy, Idle, Rank

\* POST /tasks appends a pending task behind all others.
LEMMA SubmitPreserves ==
  ASSUME IInv, NEW t \in Tasks, Submit(t)
  PROVE  IInv'
<1> USE DEF IInv, Submit, NewId, Serving
<1>1. /\ order \in Seq(Tasks) /\ order' = Append(order, t) /\ order' \in Seq(Tasks)
      /\ Len(order') = Len(order) + 1 /\ order'[Len(order')] = t
      /\ \A i \in 1..Len(order) : order'[i] = order[i] /\ order[i] \in Tasks
  BY DEF TypeOK
<1>2. status[t] = "none" /\ claude[t] = "none" /\ t \notin files
  BY DEF Entries, Fresh
<1>3. status \in [Tasks -> Statuses] /\ status' = [status EXCEPT ![t] = "pending"]
  BY DEF TypeOK
<1>4. \A i \in 1..Len(order) : order[i] # t /\ status'[order[i]] = status[order[i]]
  BY <1>1, <1>2, <1>3 DEF Entries
<1>5. TypeOK'
  BY <1>1, <1>3 DEF TypeOK, Statuses
<1>6. Fifo'
  BY <1>1, <1>3, <1>4 DEF Fifo
<1>7. RunningIsHeld'
  BY <1>2, <1>3 DEF RunningIsHeld
<1>8. FinishedIsClean'
  BY <1>2, <1>3 DEF FinishedIsClean, Final
<1>9. Entries'
  <2>1. \A i \in 1..Len(order') : status'[order'[i]] # "none"
    BY <1>1, <1>3, <1>4 DEF Entries
  <2>2. \A i, j \in 1..Len(order') : i # j => order'[i] # order'[j]
    BY <1>1, <1>4 DEF Entries
  <2> QED BY <2>1, <2>2, <1>3 DEF Entries
<1>10. Fresh'
  BY <1>2, <1>3 DEF Fresh
<1>11. Stage'
  BY DEF Stage
<1>12. SeenBefore'
  BY <1>2, <1>3 DEF SeenBefore, Rank, TypeOK, Statuses, Final
<1> QED BY <1>5, <1>6, <1>7, <1>8, <1>9, <1>10, <1>11, <1>12

\* An answer records the status a task has.
LEMMA QueryPreserves ==
  ASSUME IInv, NEW t \in Tasks, Query(t)
  PROVE  IInv'
<1> USE DEF IInv, Query, Serving
<1>1. TypeOK'
  BY DEF TypeOK, Statuses
<1>2. SeenBefore'
  BY DEF SeenBefore, TypeOK, Statuses, Final
<1> QED BY <1>1, <1>2 DEF Fifo, RunningIsHeld, FinishedIsClean, Entries, Fresh, Stage

\* The sleep of the worker.
LEMMA PickNonePreserves ==
  ASSUME IInv, PickNone
  PROVE  IInv'
BY DEF IInv, PickNone, Idle, TypeOK, Fifo, RunningIsHeld, FinishedIsClean, Entries, Fresh, Stage,
       SeenBefore, Busy

\* All before the first pending task are finished.
LEMMA PickedIsNext ==
  ASSUME IInv, worker.pc \notin Busy, NEW i \in 1..Len(order), Picked(i)
  PROVE  /\ order[i] \in Tasks /\ order[i] \in given
         /\ status[order[i]] = "pending"
         /\ \A j \in 1..(i - 1) : status[order[j]] \in Final
<1> USE DEF IInv
<1>1. order[i] \in Tasks /\ order[i] \in given /\ status[order[i]] = "pending"
  BY DEF TypeOK, Picked, Waiting, Entries
<1>2. ASSUME NEW j \in 1..(i - 1)
      PROVE  status[order[j]] \in Final
  <2>1. j \in 1..Len(order) /\ order[j] \in Tasks /\ status[order[j]] \in Statuses
    BY DEF TypeOK
  <2>2. status[order[j]] # "none" /\ status[order[j]] # "pending"
    BY <2>1 DEF Entries, Picked, Waiting
  <2>3. status[order[j]] # "running"
    BY <2>1 DEF RunningIsHeld
  <2> QED BY <2>1, <2>2, <2>3 DEF Statuses, Final
<1> QED BY <1>1, <1>2

\* The first pending task is marked running.
LEMMA PickPreserves ==
  ASSUME IInv, NEW i \in 1..Len(order), Pick(i)
  PROVE  IInv'
<1> DEFINE t == order[i]
<1> USE DEF IInv, Pick
<1>1. worker.pc \notin Busy /\ up /\ up' = up
  BY DEF Busy
<1>2. /\ t \in Tasks /\ t \in given /\ status[t] = "pending"
      /\ \A j \in 1..(i - 1) : status[order[j]] \in Final
  BY <1>1, PickedIsNext
<1>3. status \in [Tasks -> Statuses] /\ status' = [status EXCEPT ![t] = "running"]
  BY DEF TypeOK
<1>4. claude[t] = "none" /\ t \notin files
  BY <1>2 DEF Fresh
<1>5. worker' = [pc |-> "spawn", task |-> t] /\ order' = order /\ claude' = claude
  OBVIOUS
<1>6. \A j \in 1..Len(order) : order[j] \in Tasks /\ (j # i => order[j] # t)
  BY DEF TypeOK, Entries
<1>7. TypeOK'
  BY <1>2, <1>3, <1>5 DEF TypeOK, Statuses, Busy
<1>8. Fifo'
  <2> SUFFICES ASSUME NEW j \in 1..Len(order), NEW k \in 1..Len(order),
                      j < k, status'[order[k]] # "pending"
               PROVE  status'[order[j]] \in Final
    BY <1>5 DEF Fifo
  <2>1. CASE k = i
    BY <2>1, <1>2, <1>3, <1>6
  <2>2. CASE k # i
    <3>1. status[order[k]] # "pending"
      BY <2>2, <1>3, <1>6
    <3>2. status[order[j]] \in Final
      BY <3>1 DEF Fifo
    <3> QED BY <3>2, <1>2, <1>3, <1>6 DEF Final
  <2> QED BY <2>1, <2>2
<1>9. RunningIsHeld'
  BY <1>1, <1>2, <1>3, <1>5 DEF RunningIsHeld, Busy
<1>10. FinishedIsClean'
  BY <1>2, <1>3, <1>5 DEF FinishedIsClean, Final
<1>11. Entries'
  BY <1>1, <1>2, <1>3, <1>5, <1>6 DEF Entries
<1>12. Fresh'
  BY <1>2, <1>3, <1>5 DEF Fresh
<1>13. Stage'
  BY <1>2, <1>4, <1>5 DEF Stage, Busy
<1>14. SeenBefore'
  BY <1>2, <1>3 DEF SeenBefore, Rank, TypeOK, Statuses, Final
<1> QED BY <1>7, <1>8, <1>9, <1>10, <1>11, <1>12, <1>13, <1>14

\* A task whose turn it is, or which is running, may become final; the order
\* of service is kept.
LEMMA FinalKeepsFifo ==
  ASSUME IInv, NEW t \in Tasks, NEW s \in Final, order' = order,
         status' = [status EXCEPT ![t] = s],
         \A j, k \in 1..Len(order) : j < k /\ order[k] = t => status[order[j]] \in Final
  PROVE  Fifo'
<1>1. status \in [Tasks -> Statuses] /\ \A j \in 1..Len(order) : order[j] \in Tasks
  BY DEF IInv, TypeOK
<1> SUFFICES ASSUME NEW j \in 1..Len(order), NEW k \in 1..Len(order),
                    j < k, status'[order[k]] # "pending"
             PROVE  status'[order[j]] \in Final
  BY DEF Fifo
<1>2. status[order[j]] \in Final
  <2>1. CASE order[k] = t
    BY <2>1
  <2>2. CASE order[k] # t
    BY <2>2, <1>1 DEF IInv, Fifo
  <2> QED BY <2>1, <2>2
<1> QED BY <1>1, <1>2

\* The config file cannot be written: the task fails at once.
LEMMA PickFailedPreserves ==
  ASSUME IInv, NEW i \in 1..Len(order), PickFailed(i)
  PROVE  IInv'
<1> DEFINE t == order[i]
<1> USE DEF IInv, PickFailed
<1>1. worker.pc \notin Busy /\ up /\ up' = up
  BY DEF Busy
<1>2. /\ t \in Tasks /\ t \in given /\ status[t] = "pending"
      /\ \A j \in 1..(i - 1) : status[order[j]] \in Final
  BY <1>1, PickedIsNext
<1>3. status \in [Tasks -> Statuses] /\ status' = [status EXCEPT ![t] = "failed"]
  BY DEF TypeOK
<1>4. claude[t] = "none" /\ t \notin files
  BY <1>2 DEF Fresh
<1>5. worker' = Loop /\ order' = order /\ claude' = claude /\ files' = files
  OBVIOUS
<1>6. \A j \in 1..Len(order) : order[j] \in Tasks /\ (j # i => order[j] # t)
  BY DEF TypeOK, Entries
<1>7. TypeOK'
  BY <1>2, <1>3, <1>5 DEF TypeOK, Statuses, Final, Loop, Busy
<1>8. Fifo'
  <2>1. \A j, k \in 1..Len(order) : j < k /\ order[k] = t => status[order[j]] \in Final
    BY <1>2, <1>6
  <2> QED BY <2>1, <1>2, <1>3, <1>5, FinalKeepsFifo DEF Final
<1>9. RunningIsHeld'
  BY <1>1, <1>2, <1>3, <1>5 DEF RunningIsHeld, Busy, Loop
<1>10. FinishedIsClean'
  BY <1>2, <1>3, <1>4, <1>5 DEF FinishedIsClean, Final, Exited
<1>11. Entries'
  BY <1>1, <1>2, <1>3, <1>5, <1>6 DEF Entries
<1>12. Fresh'
  BY <1>2, <1>3, <1>5 DEF Fresh
<1>13. Stage'
  BY <1>5 DEF Stage, Busy, Loop
<1>14. SeenBefore'
  BY <1>2, <1>3 DEF SeenBefore, Rank, TypeOK, Statuses, Final
<1> QED BY <1>7, <1>8, <1>9, <1>10, <1>11, <1>12, <1>13, <1>14

\* The process is up.
LEMMA SpawnedPreserves ==
  ASSUME IInv, Spawned
  PROVE  IInv'
<1> DEFINE t == worker.task
<1> USE DEF IInv, Spawned
<1>1. worker.pc \in Busy /\ t \in Tasks /\ claude \in [Tasks -> {"none", "alive", "killed"} \cup Exited]
  BY DEF Busy, Stage, TypeOK
<1>2. /\ worker' = [worker EXCEPT !.pc = "communicate"]
      /\ worker \in [pc : {"idle", "loop"} \cup Busy, task : Tasks \cup {None}]
  BY DEF TypeOK
<1>3. worker'.pc = "communicate" /\ worker'.task = t
  BY <1>2
<1>4. status[t] = "running"
  BY <1>1 DEF RunningIsHeld
<1>5. TypeOK'
  BY <1>1, <1>2 DEF TypeOK, Busy
<1>6. RunningIsHeld'
  BY <1>1, <1>3 DEF RunningIsHeld, Busy
<1>7. FinishedIsClean'
  BY <1>1, <1>4 DEF FinishedIsClean, Final
<1>8. up
  BY <1>1 DEF Entries, Idle, Busy
<1>9. Entries'
  BY <1>8 DEF Entries
<1>10. Fresh'
  BY <1>1, <1>4 DEF Fresh, Entries
<1>11. Stage'
  BY <1>1, <1>3 DEF Stage
<1> QED BY <1>5, <1>6, <1>7, <1>9, <1>10, <1>11 DEF Fifo, SeenBefore

\* The worker ends its task: whatever the outcome, the process is gone and the
\* file is removed.
LEMMA EndedPreserves ==
  ASSUME IInv, worker.pc \in Busy, NEW s \in Final, Ended(s),
         claude[worker.task] \in Exited \cup {"none"},
         s = "completed" => claude[worker.task] = "ok",
         UNCHANGED <<up, given, order, claude, seen>>
  PROVE  IInv'
<1> DEFINE t == worker.task
<1> USE DEF IInv
<1>1. t \in Tasks /\ status[t] = "running" /\ t \in given /\ up
  BY DEF Stage, RunningIsHeld, Entries, Idle, Busy
<1>2. status \in [Tasks -> Statuses] /\ status' = [status EXCEPT ![t] = s]
  BY DEF TypeOK, Ended
<1>3. worker' = Loop /\ files' = files \ {t}
  BY DEF Ended, Unlink
<1>4. TypeOK'
  BY <1>1, <1>2, <1>3 DEF TypeOK, Statuses, Loop, Busy
<1>5. Fifo'
  <2>1. \A j, k \in 1..Len(order) : j < k /\ order[k] = t => status[order[j]] \in Final
    BY <1>1 DEF Fifo
  <2> QED BY <2>1, <1>1, <1>2, FinalKeepsFifo
<1>6. RunningIsHeld'
  BY <1>1, <1>2, <1>3 DEF RunningIsHeld, Loop, Busy, Final
<1>7. FinishedIsClean'
  BY <1>1, <1>2, <1>3 DEF FinishedIsClean
<1>8. Entries'
  BY <1>1, <1>2 DEF Entries, Final, TypeOK
<1>9. Fresh'
  BY <1>1, <1>2, <1>3 DEF Fresh, Final
<1>10. Stage'
  BY <1>3 DEF Stage, Loop, Busy
<1>11. SeenBefore'
  BY <1>1, <1>2 DEF SeenBefore, Rank, TypeOK, Statuses, Final
<1> QED BY <1>4, <1>5, <1>6, <1>7, <1>8, <1>9, <1>10, <1>11

\* The timeout kills the process.
LEMMA TimeoutPreserves ==
  ASSUME IInv, Timeout
  PROVE  IInv'
<1> DEFINE t == worker.task
<1> USE DEF IInv, Timeout
<1>1. worker.pc \in Busy /\ t \in Tasks /\ claude \in [Tasks -> {"none", "alive", "killed"} \cup Exited]
  BY DEF Busy, Stage, TypeOK
<1>2. /\ worker' = [worker EXCEPT !.pc = "kill"]
      /\ worker \in [pc : {"idle", "loop"} \cup Busy, task : Tasks \cup {None}]
  BY DEF TypeOK
<1>3. worker'.pc = "kill" /\ worker'.task = t
  BY <1>2
<1>4. status[t] = "running" /\ claude[t] \in {"alive"} \cup Exited /\ up
  BY <1>1 DEF RunningIsHeld, Stage, Entries, Idle
<1>5. claude'[t] \in {"killed"} \cup Exited /\ \A u \in Tasks \ {t} : claude'[u] = claude[u]
  BY <1>1, <1>4 DEF Exited
<1>6. TypeOK'
  BY <1>1, <1>2 DEF TypeOK, Busy
<1>7. RunningIsHeld'
  BY <1>1, <1>3 DEF RunningIsHeld, Busy
<1>8. FinishedIsClean'
  BY <1>1, <1>4, <1>5 DEF FinishedIsClean, Final
<1>9. Entries'
  BY <1>4 DEF Entries
<1>10. Fresh'
  BY <1>1, <1>4, <1>5 DEF Fresh, Entries
<1>11. Stage'
  BY <1>1, <1>3, <1>5 DEF Stage
<1> QED BY <1>6, <1>7, <1>8, <1>9, <1>10, <1>11 DEF Fifo, SeenBefore

\* A process exits: not one of a finished task, and not one that was never
\* started.
LEMMA ExitPreserves ==
  ASSUME IInv, NEW t \in Tasks, Exit(t)
  PROVE  IInv'
<1> USE DEF IInv, Exit
<1>1. /\ claude \in [Tasks -> {"none", "alive", "killed"} \cup Exited]
      /\ claude[t] \in {"alive", "killed"} /\ claude'[t] \in Exited
      /\ \A u \in Tasks \ {t} : claude'[u] = claude[u]
  BY DEF TypeOK, Exited
<1>2. TypeOK'
  BY <1>1 DEF TypeOK, Exited
<1>3. FinishedIsClean'
  BY <1>1 DEF FinishedIsClean, Exited
<1>4. Fresh'
  BY <1>1 DEF Fresh
<1>5. Stage'
  <2>1. worker.pc \in Busy => worker.task \in Tasks /\ (worker.task = t => worker.pc # "spawn")
    BY <1>1 DEF Stage
  <2>2. claude[worker.task] \in Exited => worker.task # t
    BY <1>1 DEF Exited
  <2> QED BY <1>1, <2>1, <2>2 DEF Stage, Busy
<1> QED BY <1>2, <1>3, <1>4, <1>5 DEF Fifo, RunningIsHeld, Entries, SeenBefore

\* The Bridge goes down and forgets.
LEMMA DownPreserves ==
  ASSUME IInv, Down, files' \subseteq files,
         claude' \in [Tasks -> {"none", "alive", "killed"} \cup Exited],
         \A t \in Tasks : t \notin given => claude'[t] = claude[t]
  PROVE  IInv'
<1> USE DEF IInv, Down
<1>1. \A t \in Tasks : status'[t] = "none"
  OBVIOUS
<1>2. order' = <<>> /\ Len(order') = 0 /\ worker' = Idle /\ given' = given /\ seen' = seen
  OBVIOUS
<1>3. TypeOK'
  <2>1. status' \in [Tasks -> Statuses] /\ files' \subseteq Tasks
    BY DEF TypeOK, Statuses
  <2>2. order' \in Seq(Tasks)
    BY <1>2
  <2>3. worker' \in [pc : {"idle", "loop"} \cup Busy, task : Tasks \cup {None}]
    BY <1>2 DEF Idle
  <2> QED BY <1>2, <2>1, <2>2, <2>3 DEF TypeOK
<1>4. Fifo' /\ RunningIsHeld' /\ FinishedIsClean' /\ Entries' /\ Stage'
  BY <1>1, <1>2 DEF Fifo, RunningIsHeld, FinishedIsClean, Entries, Stage, Idle, Busy, Final
<1>5. Fresh'
  BY <1>1, <1>2 DEF Fresh
<1>6. SeenBefore'
  BY <1>1, <1>2 DEF SeenBefore, Entries, TypeOK, Statuses, Final, Rank
<1> QED BY <1>3, <1>4, <1>5, <1>6

\* Every step preserves the invariant.
LEMMA NextIInv == IInv /\ [Next]_vars => IInv'
<1> SUFFICES ASSUME IInv, [Next]_vars PROVE IInv'
  OBVIOUS
<1>1. CASE \E t \in Tasks : Submit(t) \/ Query(t) \/ Exit(t)
  BY <1>1, SubmitPreserves, QueryPreserves, ExitPreserves
<1>2. CASE Work
  <2>1. CASE PickNone
    BY <2>1, PickNonePreserves
  <2>2. CASE \E i \in 1..Len(order) : Pick(i) \/ PickFailed(i)
    <3>1. ASSUME NEW i \in 1..Len(order), Pick(i) PROVE IInv'
      BY <3>1, PickPreserves
    <3>2. ASSUME NEW i \in 1..Len(order), PickFailed(i) PROVE IInv'
      BY <3>2, PickFailedPreserves
    <3> QED BY <2>2, <3>1, <3>2
  <2>3. CASE Spawned
    BY <2>3, SpawnedPreserves
  <2>4. CASE SpawnFailed
    <3>1. worker.pc \in Busy /\ claude[worker.task] = "none"
      BY <2>4 DEF SpawnFailed, Busy, IInv, Stage
    <3> QED BY <2>4, <3>1, EndedPreserves DEF SpawnFailed, Final
  <2>5. CASE Communicated
    <3>1. worker.pc \in Busy /\ Outcome(claude[worker.task]) \in Final
      BY <2>5 DEF Communicated, Busy, Outcome, Final
    <3>2. Outcome(claude[worker.task]) = "completed" => claude[worker.task] = "ok"
      BY DEF Outcome
    <3> QED BY <2>5, <3>1, <3>2, EndedPreserves DEF Communicated
  <2>6. CASE Timeout
    BY <2>6, TimeoutPreserves
  <2>7. CASE TimedOut
    <3>1. worker.pc \in Busy
      BY <2>7 DEF TimedOut, Busy
    <3> QED BY <2>7, <3>1, EndedPreserves DEF TimedOut, Gone, Final
  <2> QED BY <1>2, <2>1, <2>2, <2>3, <2>4, <2>5, <2>6, <2>7 DEF Work
<1>3. CASE Stop
  <2>1. files' \subseteq files
    BY <1>3 DEF Stop, Unlink
  <2>2. claude \in [Tasks -> {"none", "alive", "killed"} \cup Exited]
    BY DEF IInv, TypeOK
  <2>3. worker.pc \in Busy => worker.task \in Tasks /\ worker.task \in given
    BY DEF IInv, Stage, RunningIsHeld, Entries
  <2> QED BY <1>3, <2>1, <2>2, <2>3, DownPreserves DEF Stop
<1>4. CASE Crash
  BY <1>4, DownPreserves DEF Crash, IInv, TypeOK
<1>5. CASE Start
  BY <1>5 DEF Start, IInv, TypeOK, Fifo, RunningIsHeld, FinishedIsClean, Entries, Fresh, Stage, SeenBefore
<1>6. CASE UNCHANGED vars
  BY <1>6 DEF vars, IInv, TypeOK, Fifo, RunningIsHeld, FinishedIsClean, Entries, Fresh, Stage, SeenBefore
<1> QED BY <1>1, <1>2, <1>3, <1>4, <1>5, <1>6 DEF Next

\* IInv is an invariant of the worker and its queue.
THEOREM Invariance == Spec => []IInv
BY InitIInv, NextIInv, PTL DEF Spec

\* The variables of the worker and its queue hold what TypeOK says.
THEOREM Typing == Spec => []TypeOK
BY Invariance, PTL DEF IInv

\* Tasks are served strictly in the order of submission, one at a time.
THEOREM FifoTheorem == Spec => []Fifo
BY Invariance, PTL DEF IInv

\* A task is running exactly while the worker works on it.
THEOREM RunningTheorem == Spec => []RunningIsHeld
BY Invariance, PTL DEF IInv

\* A finished task has left neither process nor config file, and "completed"
\* means that its process exited with code 0.
THEOREM CleanTheorem == Spec => []FinishedIsClean
BY Invariance, PTL DEF IInv

-----------------------------------------------------------------------------
\* One answer about a task is never behind the one before.
LEMMA AnswerAdvances ==
  ASSUME IInv, [Next]_vars, NEW t \in Tasks, seen'[t] # seen[t]
  PROVE  Rank(seen'[t]) > Rank(seen[t])
<1>1. PICK u \in Tasks : Query(u)
  BY DEF Next, Work, vars, Submit, Exit, PickNone, Pick, PickFailed, Spawned, SpawnFailed,
         Communicated, Timeout, TimedOut, Stop, Crash, Down, Start
<1>2. t = u /\ t \in given /\ seen'[t] = IF status[t] = "none" THEN "lost" ELSE status[t]
  BY <1>1 DEF Query, IInv, TypeOK
<1>3. status[t] \in Statuses /\ seen[t] \in Statuses \cup {"lost"}
  BY DEF IInv, TypeOK
<1>4. \/ seen[t] = "none"
      \/ status[t] = "none"
      \/ seen[t] # "lost" /\ (seen[t] = status[t] \/ Rank(seen[t]) < Rank(status[t]))
  BY DEF IInv, SeenBefore
<1>5. CASE status[t] = "none"
  BY <1>2, <1>3, <1>5 DEF Rank, Statuses, Final
<1>6. CASE status[t] # "none"
  BY <1>2, <1>3, <1>4, <1>6 DEF Rank, Statuses, Final
<1> QED BY <1>5, <1>6

\* Whoever polls a task sees it advance only.
THEOREM AnswersTheorem == Spec => AnswersAdvance
<1>1. IInv /\ [Next]_vars => [\A t \in Tasks : seen'[t] # seen[t] => Rank(seen'[t]) > Rank(seen[t])]_vars
  BY AnswerAdvances
<1> QED BY <1>1, Invariance, PTL DEF Spec, AnswersAdvance

-----------------------------------------------------------------------------
\* Every step of the worker is a step of the service, or none.
LEMMA StepSimulation ==
  ASSUME IInv, [Next]_vars
  PROVE  [Service!Next]_<<status, order>>
<1> USE DEF IInv
<1>1. CASE \E t \in Tasks : Submit(t)
  <2>1. PICK t \in Tasks : Submit(t)
    BY <1>1
  <2>2. status[t] = "none"
    BY <2>1 DEF Submit, NewId, Entries
  <2>3. Service!Submit(t)
    BY <2>1, <2>2 DEF Submit, NewId, Service!Submit
  <2> QED BY <2>3 DEF Service!Next
<1>2. CASE \E i \in 1..Len(order) : Pick(i) \/ PickFailed(i)
  <2>1. PICK i \in 1..Len(order) : Pick(i) \/ PickFailed(i)
    BY <1>2
  <2>2. worker.pc \notin Busy /\ Picked(i)
    BY <2>1 DEF Pick, PickFailed, Busy
  <2>3. status[order[i]] = "pending" /\ Service!Turn(i)
    BY <2>2, PickedIsNext DEF Service!Turn, Final, Service!Final
  <2>4. PICK s \in {"running", "failed"} : status' = [status EXCEPT ![order[i]] = s] /\ order' = order
    BY <2>1 DEF Pick, PickFailed
  <2>5. Service!Begin(i, s)
    BY <2>3, <2>4 DEF Service!Begin
  <2> QED BY <2>5 DEF Service!Next
<1>3. ASSUME worker.pc \in Busy, NEW s \in Final, Ended(s), order' = order
      PROVE  Service!Next
  <2>1. worker.task \in Tasks /\ status[worker.task] = "running"
    BY <1>3 DEF Stage, RunningIsHeld
  <2>2. Service!Finish(worker.task, s)
    BY <1>3, <2>1 DEF Ended, Service!Finish, Service!Final, Final
  <2> QED BY <2>1, <2>2 DEF Service!Next, Service!Final, Final
<1>4. CASE SpawnFailed
  BY <1>3, <1>4 DEF SpawnFailed, Busy, Final
<1>5. CASE Communicated
  <2>1. Outcome(claude[worker.task]) \in Final
    BY DEF Outcome, Final
  <2> QED BY <1>3, <1>5, <2>1 DEF Communicated, Busy
<1>6. CASE TimedOut
  BY <1>3, <1>6 DEF TimedOut, Busy, Final
<1>7. CASE Stop \/ Crash
  BY <1>7 DEF Stop, Crash, Down, Service!Next, Service!Forget
<1>8. CASE \/ \E t \in Tasks : Query(t) \/ Exit(t)
           \/ PickNone \/ Spawned \/ Timeout \/ Start \/ UNCHANGED vars
  BY <1>8 DEF Query, Exit, PickNone, Spawned, Timeout, Start, vars
<1> QED BY <1>1, <1>2, <1>4, <1>5, <1>6, <1>7, <1>8 DEF Next, Work

\* The task queue and its worker implement the abstract task service: whatever
\* the process, the timeout and the files do, a caller cannot tell them from a
\* single server that takes the tasks in the order of submission.
THEOREM Refinement == Spec => Implements
<1>1. Init => Service!Init
  BY DEF Init, Service!Init
<1>2. IInv /\ [Next]_vars => [Service!Next]_<<status, order>>
  BY StepSimulation
<1> QED BY <1>1, <1>2, Invariance, PTL DEF Spec, Implements, Service!Spec
=============================================================================
