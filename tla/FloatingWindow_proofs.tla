------------------------ MODULE FloatingWindow_proofs ------------------------
(***************************************************************************)
(* For any number of sessions, handlers, loops and events, the poll flag   *)
(* of the window tells the truth: pollingActive has a loop and a listener  *)
(* behind it.                                                              *)
(***************************************************************************)
EXTENDS FloatingWindow, TLAPS

-----------------------------------------------------------------------------
(* Type correctness *)

\* A session that ends stays typed, registered or not.
LEMMA ClosedType ==
  ASSUME TypeOK, NEW s, Closed(s), live' \subseteq Sessions,
         live \ {s} \subseteq live'
  PROVE  log' \in [Sessions -> Seq(Kinds)] /\ running' \subseteq live'
<1>1. log' \in [Sessions -> Seq(Kinds)]
  <2>1. CASE s \in live
    <3>1. Append(log[s], "closed") \in Seq(Kinds)  BY <2>1 DEF TypeOK, Kinds
    <3>. QED  BY <2>1, <3>1 DEF TypeOK, Closed
  <2>2. CASE s \notin live
    BY <2>2 DEF TypeOK, Closed
  <2>. QED  BY <2>1, <2>2
<1>2. running' \subseteq live'
  BY DEF TypeOK, Closed
<1>. QED  BY <1>1, <1>2

\* The newest event that a poll is told of is a natural number.
LEMMA NewestType ==
  ASSUME TypeOK, NEW s \in Sessions \cup {None}, NEW n \in Nat
  PROVE  Newest(s, n) \in Nat
<1>1. CASE s \in live /\ Len(log[s]) > n + 1
  <2>1. Len(log[s]) \in Nat  BY <1>1 DEF TypeOK
  <2>. QED  BY <1>1, <2>1 DEF Newest
<1>2. CASE ~(s \in live /\ Len(log[s]) > n + 1)
  BY <1>2 DEF Newest
<1>. QED  BY <1>1, <1>2

\* The Bridge's side: it changes the log, its sessions and the answers.
LEMMA ServeType ==
  ASSUME TypeOK, NEW j \in Jobs, Serve(j)
  PROVE  TypeOK'
<1>. DEFINE s == jobs[j].session
            Answer(t) == jobs' = [jobs EXCEPT ![j].at = "ok", ![j].session = t]
<1>0. /\ jobs \in [Jobs -> JobType]
      /\ jobs[j] \in JobType
      /\ s \in Sessions \cup {None}
  BY DEF TypeOK, JobType
<1>1. ASSUME NEW t \in Sessions \cup {None}, Answer(t)
      PROVE  jobs' \in [Jobs -> JobType]
  BY <1>0, <1>1 DEF JobType
<1>2. CASE jobs[j].op = "send"
  <2>1. running' \subseteq live /\ Answer(s) /\ UNCHANGED <<log, live>>
    BY <1>2 DEF Serve, Open, TypeOK
  <2>2. jobs' \in [Jobs -> JobType]  BY <1>0, <1>1, <2>1
  <2>. QED  BY <2>1, <2>2 DEF Serve, TypeOK, window, JobType
<1>3. CASE jobs[j].op = "reset"
  <2>1. PICK t \in Sessions \cup {None} :
          Answer(t) /\ Closed(s) /\ live' = (live \ {s}) \cup ({t} \ {None})
    BY <1>3 DEF Serve
  <2>2. jobs' \in [Jobs -> JobType]  BY <1>1, <2>1
  <2>3. live' \subseteq Sessions /\ live \ {s} \subseteq live'
    BY <2>1 DEF TypeOK
  <2>4. log' \in [Sessions -> Seq(Kinds)] /\ running' \subseteq live'
    BY <2>1, <2>3, ClosedType
  <2>. QED  BY <2>2, <2>3, <2>4 DEF Serve, TypeOK, window, JobType
<1>4. CASE jobs[j].op = "delete"
  <2>1. Answer(s) /\ Closed(s) /\ live' = live \ {s}
    BY <1>4 DEF Serve
  <2>2. jobs' \in [Jobs -> JobType]  BY <1>0, <1>1, <2>1
  <2>3. live' \subseteq Sessions /\ live \ {s} \subseteq live'
    BY <2>1 DEF TypeOK
  <2>4. log' \in [Sessions -> Seq(Kinds)] /\ running' \subseteq live'
    BY <2>1, <2>3, ClosedType
  <2>. QED  BY <2>2, <2>3, <2>4 DEF Serve, TypeOK, window, JobType
<1>5. CASE jobs[j].op \in {"new", "open"}
  <2>1. PICK t \in Sessions \cup {None} :
          Answer(t) /\ live' = live \cup ({t} \ {None}) /\ UNCHANGED <<log, running>>
    BY <1>5, WindowAssumption DEF Serve
  <2>2. jobs' \in [Jobs -> JobType]  BY <1>1, <2>1
  <2>. QED  BY <2>1, <2>2 DEF Serve, TypeOK, window, JobType
<1>. QED  BY <1>2, <1>3, <1>4, <1>5 DEF Serve

\* Every step keeps the types.
LEMMA StepType == TypeOK /\ [Next]_vars => TypeOK'
<1>. SUFFICES ASSUME TypeOK, [Next]_vars PROVE TypeOK'
  OBVIOUS
<1>. USE DEF Ops
<1>0. /\ jobs \in [Jobs -> JobType] /\ \A j \in Jobs : jobs[j] \in JobType
      /\ loops \in [Loops -> LoopType] /\ \A l \in Loops : loops[l] \in LoopType
      /\ sessionId \in Sessions \cup {None} /\ lastEventId \in Nat
  BY DEF TypeOK
<1>1. ASSUME NEW j \in Jobs, NEW op \in Ops, NEW s \in Sessions \cup {None}, Start(j, op, s)
      PROVE  jobs' \in [Jobs -> JobType]
  BY <1>0, <1>1 DEF Start, JobType
<1>2. ASSUME NEW j \in Jobs, Finish(j)
      PROVE  jobs' \in [Jobs -> JobType]
  BY <1>0, <1>2 DEF Finish, Free, JobType
<1>3. ASSUME NEW j \in Jobs, Refuse(j) PROVE TypeOK'
  <2>1. jobs' \in [Jobs -> JobType]  BY <1>0, <1>3 DEF Refuse, JobType
  <2>. QED  BY <1>3, <2>1 DEF Refuse, TypeOK, bridge, window, JobType
<1>4. ASSUME NEW j \in Jobs, Failed(j) PROVE TypeOK'
  <2>1. jobs' \in [Jobs -> JobType]  BY <1>2, <1>4 DEF Failed, Answered
  <2>. QED  BY <1>4, <2>1 DEF Failed, TypeOK, bridge, JobType
<1>5. ASSUME NEW j \in Jobs, Sent(j) PROVE TypeOK'
  <2>1. jobs' \in [Jobs -> JobType]  BY <1>2, <1>5 DEF Sent, Answered
  <2>2. loops' \in [Loops -> LoopType]
    BY <1>0, <1>5 DEF Sent, Connect, LoopType
  <2>3. pollingActive' \in BOOLEAN /\ sseRequest' \in BOOLEAN /\ lastEventId' \in Nat
    <3>1. CASE pollingActive \/ sseRequest  BY <1>5, <3>1 DEF Sent, Connect, TypeOK
    <3>2. CASE ~(pollingActive \/ sseRequest)
      <4>1. lastEventId' = 0 /\ sseRequest' = TRUE /\ pollingActive' \in BOOLEAN
        BY <1>5, <3>2 DEF Sent, Connect
      <4>. QED  BY <4>1
    <3>. QED  BY <3>1, <3>2
  <2>. QED  BY <1>5, <2>1, <2>2, <2>3 DEF Sent, TypeOK, bridge
<1>6. ASSUME NEW j \in Jobs, WasReset(j) PROVE TypeOK'
  <2>1. jobs' \in [Jobs -> JobType]  BY <1>2, <1>6 DEF WasReset, Answered
  <2>2. jobs[j].session \in Sessions \cup {None}  BY <1>0 DEF JobType
  <2>. QED  BY <1>6, <2>1, <2>2 DEF WasReset, NotSending, TypeOK, bridge, JobType
<1>7. ASSUME NEW j \in Jobs, Created(j) PROVE TypeOK'
  <2>1. jobs' \in [Jobs -> JobType]  BY <1>2, <1>7 DEF Created, Answered
  <2>2. jobs[j].session \in Sessions \cup {None}  BY <1>0 DEF JobType
  <2>. QED
    BY <1>7, <2>1, <2>2 DEF Created, SwitchTo, Abort, NotSending, TypeOK, bridge, window, JobType
<1>8. ASSUME NEW j \in Jobs, Opened(j) PROVE TypeOK'
  <2>1. jobs' \in [Jobs -> JobType]  BY <1>2, <1>8 DEF Opened, Answered
  <2>2. jobs[j].session \in Sessions \cup {None}  BY <1>0 DEF JobType
  <2>. QED  BY <1>8, <2>1, <2>2 DEF Opened, TypeOK, bridge, JobType
<1>9. ASSUME NEW j \in Jobs, Deleted(j) PROVE TypeOK'
  <2>1. jobs' \in [Jobs -> JobType]
    <3>1. CASE Finish(j)  BY <1>2, <3>1
    <3>2. CASE jobs' = [jobs EXCEPT ![j] = [op |-> "open", at |-> "asked", session |-> None]]
      BY <1>0, <3>2 DEF JobType
    <3>. QED  BY <1>9, <3>1, <3>2 DEF Deleted
  <2>2. sessionId' \in Sessions \cup {None}  BY <1>0, <1>9 DEF Deleted, window
  <2>. QED
    BY <1>9, <2>1, <2>2 DEF Deleted, Abort, NotSending, TypeOK, bridge, window, JobType
<1>10. ASSUME NEW l \in Loops, NEW active \in BOOLEAN, Again(l, active)
       PROVE  loops' \in [Loops -> LoopType]
  BY <1>0, <1>10 DEF Again, Ended, LoopType
<1>11. ASSUME NEW l \in Loops, Poll(l) PROVE TypeOK'
  <2>1. loops' \in [Loops -> LoopType]  BY <1>0, <1>11 DEF Poll, Ended, LoopType
  <2>. QED  BY <1>11, <2>1 DEF Poll, TypeOK, bridge, LoopType
<1>12. ASSUME NEW l \in Loops, Reply(l) PROVE TypeOK'
  <2>1. Newest(loops[l].session, loops[l].since) \in Nat
    BY <1>0, NewestType DEF LoopType
  <2>2. loops' \in [Loops -> LoopType]  BY <1>0, <1>12, <2>1 DEF Reply, LoopType
  <2>. QED  BY <1>12, <2>2 DEF Reply, TypeOK, bridge, window, LoopType
<1>13. ASSUME NEW l \in Loops, Lost(l) PROVE TypeOK'
  <2>1. loops' \in [Loops -> LoopType]  BY <1>10, <1>13 DEF Lost, TypeOK
  <2>. QED  BY <1>13, <2>1 DEF Lost, TypeOK, bridge, window, LoopType
<1>14. ASSUME NEW l \in Loops, Handle(l) PROVE TypeOK'
  <2>1. pollingActive' \in BOOLEAN /\ sseRequest' \in BOOLEAN /\ isSending' \in BOOLEAN
    BY <1>14 DEF Handle, TypeOK
  <2>2. loops' \in [Loops -> LoopType]  BY <1>10, <1>14, <2>1 DEF Handle
  <2>3. lastEventId' \in Nat /\ sessionId' \in Sessions \cup {None}
    BY <1>0, <1>14 DEF Handle, LoopType
  <2>. QED  BY <1>14, <2>1, <2>2, <2>3 DEF Handle, TypeOK, bridge, LoopType
<1>15. ASSUME NEW j \in Jobs, New(j) \/ OpenPanel(j) PROVE TypeOK'
  <2>1. jobs' \in [Jobs -> JobType]  BY <1>1, <1>15 DEF New, OpenPanel
  <2>. QED  BY <1>15, <2>1 DEF New, OpenPanel, TypeOK, bridge, window, JobType
<1>16. ASSUME NEW j \in Jobs, NEW op \in {"send", "reset"}, Enter(j, op) PROVE TypeOK'
  <2>1. jobs' \in [Jobs -> JobType]  BY <1>0, <1>1, <1>16 DEF Enter
  <2>. QED  BY <1>16, <2>1 DEF Enter, TypeOK, bridge, JobType
<1>17. ASSUME NEW j \in Jobs, NEW s \in Sessions, Delete(j, s) PROVE TypeOK'
  <2>1. jobs' \in [Jobs -> JobType]  BY <1>1, <1>17 DEF Delete
  <2>. QED  BY <1>17, <2>1 DEF Delete, TypeOK, bridge, window, JobType
<1>18. ASSUME NEW s \in Sessions, Switch(s) PROVE TypeOK'
  BY <1>18 DEF Switch, SwitchTo, Abort, NotSending, TypeOK, bridge
<1>19. ASSUME Stop PROVE TypeOK'
  BY <1>19 DEF Stop, NotSending, TypeOK, bridge
<1>20. ASSUME NEW s \in Sessions, End(s) PROVE TypeOK'
  <2>1. live' \subseteq Sessions /\ live \ {s} \subseteq live'
    BY <1>20 DEF End, TypeOK
  <2>2. log' \in [Sessions -> Seq(Kinds)] /\ running' \subseteq live'
    BY <1>20, <2>1, ClosedType DEF End
  <2>. QED  BY <1>20, <2>1, <2>2 DEF End, TypeOK, window
<1>21. ASSUME NEW s \in Sessions, NEW e \in {"data", "result"}, Emit(s, e) PROVE TypeOK'
  <2>1. Append(log[s], e) \in Seq(Kinds)  BY DEF TypeOK, Kinds
  <2>2. log' \in [Sessions -> Seq(Kinds)]  BY <1>21, <2>1 DEF Emit, Push, TypeOK
  <2>3. running' \subseteq live  BY <1>21 DEF Emit, TypeOK
  <2>. QED  BY <1>21, <2>2, <2>3 DEF Emit, TypeOK, window
<1>22. ASSUME UNCHANGED vars PROVE TypeOK'
  BY <1>22 DEF vars, bridge, window, TypeOK
<1>. QED
  BY <1>3, <1>4, <1>5, <1>6, <1>7, <1>8, <1>9, <1>11, <1>12, <1>13, <1>14, <1>15, <1>16,
     <1>17, <1>18, <1>19, <1>20, <1>21, <1>22, ServeType
     DEF Next, User, Job, Loop

\* What the variables of the window and of its Bridge hold.
THEOREM TypeCorrect == Spec => []TypeOK
<1>1. Init => TypeOK
  <2>. SUFFICES ASSUME Init PROVE TypeOK
    OBVIOUS
  <2>1. Free \in JobType /\ Ended \in LoopType  BY DEF Free, JobType, Ended, LoopType
  <2>2. log \in [Sessions -> Seq(Kinds)]
    <3>1. <<>> \in Seq(Kinds)  OBVIOUS
    <3>. QED  BY <3>1 DEF Init
  <2>. QED  BY <2>1, <2>2 DEF Init, TypeOK
<1>. QED  BY <1>1, StepType, PTL DEF Spec

-----------------------------------------------------------------------------
(* The flags *)

\* The poll flag tells the truth after every step, because whoever takes the
\* listener away clears it, and a loop that ends has seen it cleared.
LEMMA StepPolling ==
  TypeOK /\ PollingIsServed /\ [Next]_vars => PollingIsServed'
<1>. SUFFICES ASSUME TypeOK, PollingIsServed, [Next]_vars PROVE PollingIsServed'
  OBVIOUS
<1>. USE DEF PollingIsServed
<1>0. loops \in [Loops -> LoopType] /\ pollingActive \in BOOLEAN /\ sseRequest \in BOOLEAN
  BY DEF TypeOK
<1>1. ASSUME UNCHANGED <<pollingActive, sseRequest, loops>> PROVE PollingIsServed'
  BY <1>1
<1>2. ASSUME Abort, UNCHANGED loops PROVE PollingIsServed'
  BY <1>2 DEF Abort
<1>3. ASSUME NEW s, SwitchTo(s), UNCHANGED loops PROVE PollingIsServed'
  BY <1>1, <1>2, <1>3 DEF SwitchTo, window
<1>4. ASSUME NEW j \in Jobs, Job(j) PROVE PollingIsServed'
  <2>1. CASE Sent(j)
    <3>1. CASE pollingActive \/ sseRequest
      BY <1>1, <2>1, <3>1 DEF Sent, Connect
    <3>2. CASE ~(pollingActive \/ sseRequest) /\ sessionId = None
      BY <2>1, <3>2 DEF Sent, Connect
    <3>3. CASE ~(pollingActive \/ sseRequest) /\ sessionId # None
      <4>1. /\ sseRequest' = TRUE
            /\ \E l \in Loops : loops' = [loops EXCEPT ![l] =
                 [at |-> "asked", session |-> sessionId, since |-> 0, last |-> 0]]
        BY <2>1, <3>3 DEF Sent, Connect
      <4>2. \E l \in Loops : loops'[l].at # "ended"  BY <1>0, <4>1
      <4>. QED  BY <4>1, <4>2
    <3>. QED  BY <3>1, <3>2, <3>3
  <2>2. CASE Created(j)  BY <1>3, <2>2 DEF Created
  <2>3. CASE Deleted(j)  BY <1>1, <1>2, <2>3 DEF Deleted, window
  <2>4. CASE Serve(j) \/ Refuse(j) \/ Failed(j) \/ WasReset(j) \/ Opened(j)
    BY <1>1, <2>4 DEF Serve, Refuse, Failed, WasReset, Opened, window
  <2>. QED  BY <1>4, <2>1, <2>2, <2>3, <2>4 DEF Job
<1>5. ASSUME NEW l \in Loops, Loop(l) PROVE PollingIsServed'
  <2>. SUFFICES ASSUME pollingActive'
                PROVE  sseRequest' /\ loops'[l].at # "ended"
    OBVIOUS
  <2>1. CASE Poll(l)
    <3>1. pollingActive /\ sessionId # None  BY <2>1 DEF Poll
    <3>2. /\ sseRequest' = sseRequest
          /\ loops'[l].at = "asked"
      BY <1>0, <2>1, <3>1 DEF Poll
    <3>. QED  BY <3>1, <3>2
  <2>2. CASE Reply(l)
    BY <1>0, <2>2 DEF Reply, window
  <2>3. ASSUME Again(l, TRUE) PROVE loops'[l].at # "ended"
    BY <1>0, <2>3 DEF Again, Ended
  <2>4. CASE Lost(l)
    <3>1. Again(l, TRUE)  BY <1>0, <2>4 DEF Lost, window
    <3>. QED  BY <2>3, <2>4, <3>1 DEF Lost, window
  <2>5. CASE Handle(l)
    <3>1. pollingActive' = TRUE  BY <1>0, <2>5 DEF Handle
    <3>2. Again(l, TRUE)  BY <2>5, <3>1 DEF Handle
    <3>3. sseRequest'  BY <1>0, <2>5 DEF Handle
    <3>. QED  BY <2>3, <3>2, <3>3
  <2>. QED  BY <1>5, <2>1, <2>2, <2>4, <2>5 DEF Loop
<1>6. ASSUME User PROVE PollingIsServed'
  <2>1. CASE Stop  BY <2>1 DEF Stop
  <2>2. CASE \E s \in Sessions : Switch(s)  BY <1>3, <2>2 DEF Switch
  <2>. QED
    BY <1>1, <1>6, <2>1, <2>2 DEF User, New, OpenPanel, Enter, Delete, window
<1>7. ASSUME NEW s \in Sessions, End(s) \/ \E e \in {"data", "result"} : Emit(s, e)
      PROVE  PollingIsServed'
  BY <1>1, <1>7 DEF End, Emit, window
<1>8. ASSUME UNCHANGED vars PROVE PollingIsServed'
  BY <1>1, <1>8 DEF vars, window
<1>. QED  BY <1>4, <1>5, <1>6, <1>7, <1>8 DEF Next

\* While the window says that it polls, a loop does and the next abort reaches
\* it, whatever handlers and answers overlap.
THEOREM PollFlagTrue == Spec => []PollingIsServed
<1>1. Init => PollingIsServed
  BY DEF Init, PollingIsServed
<1>. QED  BY <1>1, TypeCorrect, StepPolling, PTL DEF Spec
=============================================================================
