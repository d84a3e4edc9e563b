----------------------------- MODULE TaskService -----------------------------
(***************************************************************************)
(* What the one-shot task endpoints of the Bridge (POST /tasks and         *)
(* GET /tasks/{id}/status, /result) promise, without the worker, its       *)
(* process and its files: tasks are served one at a time in the order of   *)
(* their submission, and a finished task stays as it is until the Bridge   *)
(* restarts, which forgets everything.                                     *)
(***************************************************************************)
EXTENDS Naturals, Sequences

CONSTANT Tasks

VARIABLES
  status, \* status of every task, "none" for a task the Bridge does not know
  order   \* the tasks in the order of their submission

Final == {"completed", "failed"}

Init ==
  /\ status = [t \in Tasks |-> "none"]
  /\ order = <<>>

Submit(t) ==
  /\ status[t] = "none"
  /\ status' = [status EXCEPT ![t] = "pending"]
  /\ order' = Append(order, t)

\* It is the turn of the task at place i: all before it are finished.
Turn(i) == \A j \in 1..(i - 1) : status[order[j]] \in Final

\* A task is taken up, or fails on the way.
Begin(i, s) ==
  /\ i \in 1..Len(order)
  /\ Turn(i)
  /\ status[order[i]] = "pending"
  /\ s \in {"running", "failed"}
  /\ status' = [status EXCEPT ![order[i]] = s]
  /\ order' = order

Finish(t, s) ==
  /\ status[t] = "running"
  /\ s \in Final
  /\ status' = [status EXCEPT ![t] = s]
  /\ order' = order

\* The Bridge goes down.
Forget ==
  /\ status' = [t \in Tasks |-> "none"]
  /\ order' = <<>>

Next ==
  \/ \E t \in Tasks : Submit(t)
  \/ \E i \in 1..Len(order), s \in {"running", "failed"} : Begin(i, s)
  \/ \E t \in Tasks, s \in Final : Finish(t, s)
  \/ Forget

Spec == Init /\ [][Next]_<<status, order>>
=============================================================================
