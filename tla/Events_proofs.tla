---------------------------- MODULE Events_proofs -----------------------------
(***************************************************************************)
(* Proofs about the way of an event from the store of its session to the   *)
(* screen.  EventStream, for any number of windows and any length of the   *)
(* log: every window handles the events in order and each of them once.    *)
(* Transcript, for any number of events, elements and rows: what it        *)
(* handles is drawn once and in order, however events, frames, chunks of a *)
(* response and acts of the user follow one another.                       *)
(*                                                                         *)
(* The queue and the text of a response are walked place by place: Walk    *)
(* says that a set of places that has the first, and with each the next,   *)
(* has all.                                                                *)
(***************************************************************************)
EXTENDS EventStream, Transcript, SequenceTheorems, WellFoundedInduction, TLAPS

-----------------------------------------------------------------------------
(* The store, its endpoint and the poll loops *)

\* The ids of an answer, as a sequence.
LEMMA IdsType ==
  ASSUME NEW a \in Nat, NEW b \in Nat, a <= b
  PROVE  /\ Ids(a, b) \in Seq(Nat)
         /\ Len(Ids(a, b)) = b - a
         /\ \A i \in 1..(b - a) : Ids(a, b)[i] = a + i
<1>1. b - a \in Nat /\ \A i \in 1..(b - a) : a + i \in Nat
  OBVIOUS
<1>2. Ids(a, b) = [i \in 1..(b - a) |-> a + i]
  BY DEF Ids
<1> DEFINE n == b - a
<1>3. n \in Nat
  BY <1>1
<1>4. Ids(a, b) \in [1..n -> Nat]
  BY <1>1, <1>2
<1>5. DOMAIN Ids(a, b) = 1..n
  BY <1>4
<1> HIDE DEF n
<1>6. Ids(a, b) \in Seq(Nat)
  BY <1>3, <1>4
<1>7. Len(Ids(a, b)) = n
  BY <1>3, <1>5, <1>6
<1> QED BY <1>2, <1>6, <1>7 DEF n

\* Two sequences one after the other, place by place.
LEMMA Joined ==
  ASSUME NEW b \in Seq(Nat), NEW c \in Seq(Nat)
  PROVE  /\ b \o c \in Seq(Nat) /\ Len(b \o c) = Len(b) + Len(c)
         /\ \A i \in 1..(Len(b) + Len(c)) : (b \o c)[i] = IF i <= Len(b) THEN b[i] ELSE c[i - Len(b)]
OBVIOUS

\* The ids of an answer continue those before it.
LEMMA IdsContinue ==
  ASSUME NEW a \in Nat, NEW b \in Nat, a <= b
  PROVE  Ids(0, a) \o Ids(a, b) = Ids(0, b)
<1>1. Ids(0, a) \in Seq(Nat) /\ Len(Ids(0, a)) = a /\ \A i \in 1..a : Ids(0, a)[i] = i
  BY IdsType
<1>2. Ids(a, b) \in Seq(Nat) /\ Len(Ids(a, b)) = b - a /\ \A i \in 1..(b - a) : Ids(a, b)[i] = a + i
  BY IdsType
<1>3. Ids(0, b) \in Seq(Nat) /\ Len(Ids(0, b)) = b /\ \A i \in 1..b : Ids(0, b)[i] = i
  BY IdsType
<1> DEFINE s == Ids(0, a)
           t == Ids(a, b)
<1> HIDE DEF s, t
<1>4. s \in Seq(Nat) /\ Len(s) = a /\ \A i \in 1..a : s[i] = i
  BY <1>1 DEF s
<1>5. t \in Seq(Nat) /\ Len(t) = b - a /\ \A i \in 1..(b - a) : t[i] = a + i
  BY <1>2 DEF t
<1>6. /\ s \o t \in Seq(Nat)
      /\ Len(s \o t) = b
      /\ \A i \in 1..b : (s \o t)[i] = IF i <= a THEN s[i] ELSE t[i - a]
  <2>1. Len(s) = a /\ Len(s) + Len(t) = b
    BY <1>4, <1>5
  <2>2. /\ s \o t \in Seq(Nat) /\ Len(s \o t) = Len(s) + Len(t)
        /\ \A i \in 1..(Len(s) + Len(t)) : (s \o t)[i] = IF i <= Len(s) THEN s[i] ELSE t[i - Len(s)]
    BY <1>4, <1>5, Joined, Zenon
  <2> QED BY <2>1, <2>2, Zenon
<1>7. ASSUME NEW i \in 1..b PROVE (s \o t)[i] = i
  <2>1. (s \o t)[i] = IF i <= a THEN s[i] ELSE t[i - a]
    BY <1>6
  <2>2. CASE i <= a
    <3>1. i \in 1..a
      BY <2>2
    <3>2. s[i] = i
      BY <1>4, <3>1, Zenon
    <3> QED BY <2>1, <2>2, <3>2, Zenon
  <2>3. CASE ~(i <= a)
    <3>1. i - a \in 1..(b - a) /\ a + (i - a) = i
      BY <2>3
    <3>2. t[i - a] = a + (i - a)
      BY <1>5, <3>1, Zenon
    <3> QED BY <2>1, <2>3, <3>1, <3>2, Zenon
  <2> QED BY <2>2, <2>3
<1>8. s \o t = Ids(0, b)
  <2>1. Len(s \o t) = Len(Ids(0, b)) /\ \A i \in 1..Len(s \o t) : (s \o t)[i] = Ids(0, b)[i]
    BY <1>3, <1>6, <1>7
  <2> QED BY <1>3, <1>6, <2>1, SeqEqual
<1> QED BY <1>8 DEF s, t

\* Nothing lies between an event and itself.
LEMMA IdsEmpty == ASSUME NEW a \in Nat PROVE Ids(a, a) = <<>>
<1>1. Ids(a, a) \in Seq(Nat) /\ Len(Ids(a, a)) = 0
  BY IdsType
<1> QED BY <1>1

\* An answer is a natural number, and fits.
LEMMA NewestFits ==
  ASSUME log \in Seq(LogKinds), NEW n \in Nat
  PROVE  /\ Newest(n) \in Nat
         /\ Newest(n) = n \/ (Newest(n) > n /\ Newest(n) < Len(log))
BY DEF Newest

\* No window polls yet.
LEMMA StreamBegins == StreamInit => StreamInv
<1> SUFFICES ASSUME StreamInit PROVE StreamInv
  OBVIOUS
<1>1. Ids(0, 0) = <<>>
  BY IdsEmpty
<1>2. StreamTypeOK
  BY DEF StreamInit, StreamTypeOK, Steps
<1> QED BY <1>1, <1>2 DEF StreamInit, StreamInv, InOrderOnce, CursorInLog, AnswerFits, InFlight

\* An answer that fits keeps the invariant.
LEMMA AnswerPreserves ==
  ASSUME StreamInv, NEW p \in Pollers, NEW l \in Nat, pc[p] \in InFlight, Answer(p, l),
         l = since[p] \/ (l > since[p] /\ l < Len(log))
  PROVE  StreamInv'
<1> USE DEF StreamInv, Answer
<1>1. /\ pc' \in [Pollers -> Steps] /\ last' \in [Pollers -> Nat]
      /\ pc'[p] = "answered" /\ last'[p] = l
      /\ \A q \in Pollers \ {p} : pc'[q] = pc[q] /\ last'[q] = last[q]
  BY DEF StreamTypeOK, Steps
<1>2. StreamTypeOK'
  BY <1>1 DEF StreamTypeOK
<1>3. AnswerFits'
  BY <1>1 DEF AnswerFits, InFlight
<1> QED BY <1>2, <1>3 DEF InOrderOnce, CursorInLog

\* Every step preserves the invariant.
LEMMA StreamGoesOn == StreamInv /\ [StreamNext]_streamVars => StreamInv'
<1> SUFFICES ASSUME StreamInv, [StreamNext]_streamVars PROVE StreamInv'
  OBVIOUS
<1> USE DEF StreamInv
<1>1. ASSUME NEW e \in LogKinds, PushEvent(e) PROVE StreamInv'
  <2>1. log' \in Seq(LogKinds) /\ Len(log') = Len(log) + 1 /\ Len(log) \in Nat
    BY <1>1 DEF PushEvent, StreamTypeOK
  <2>2. StreamTypeOK'
    BY <1>1, <2>1 DEF PushEvent, StreamTypeOK
  <2>3. CursorInLog' /\ AnswerFits'
    BY <1>1, <2>1 DEF PushEvent, StreamTypeOK, CursorInLog, AnswerFits
  <2> QED BY <1>1, <2>2, <2>3 DEF PushEvent, InOrderOnce
<1>2. CASE Drop
  BY <1>2 DEF Drop, StreamTypeOK, InOrderOnce, CursorInLog, AnswerFits
<1>3. ASSUME NEW p \in Pollers, Arrive(p) PROVE StreamInv'
  <2>1. pc[p] \in InFlight /\ since[p] \in Nat
    BY <1>3 DEF Arrive, InFlight, StreamTypeOK
  <2>2. CASE registered
    BY <1>3, <2>1, <2>2 DEF Arrive, StreamTypeOK, Steps, InOrderOnce, CursorInLog, AnswerFits, InFlight
  <2>3. CASE ~registered
    BY <1>3, <2>1, <2>3, AnswerPreserves DEF Arrive
  <2> QED BY <2>2, <2>3
<1>4. ASSUME NEW p \in Pollers, LookUp(p) PROVE StreamInv'
  <2>1. pc[p] \in InFlight /\ since[p] \in Nat /\ log \in Seq(LogKinds)
    BY <1>4 DEF LookUp, InFlight, StreamTypeOK
  <2>2. /\ Newest(since[p]) \in Nat
        /\ Newest(since[p]) = since[p] \/ (Newest(since[p]) > since[p] /\ Newest(since[p]) < Len(log))
    BY <2>1, NewestFits
  <2>3. CASE registered /\ Newest(since[p]) = since[p]
    BY <1>4, <2>1, <2>3 DEF LookUp, StreamTypeOK, Steps, InOrderOnce, CursorInLog, AnswerFits, InFlight
  <2>4. CASE ~(registered /\ Newest(since[p]) = since[p])
    <3>1. CASE registered
      BY <1>4, <2>1, <2>2, <2>4, <3>1, AnswerPreserves DEF LookUp
    <3>2. CASE ~registered
      BY <1>4, <2>1, <2>4, <3>2, AnswerPreserves DEF LookUp
    <3> QED BY <3>1, <3>2
  <2> QED BY <2>3, <2>4
<1>5. ASSUME NEW p \in Pollers, WakeUp(p) PROVE StreamInv'
  <2>1. pc[p] \in InFlight /\ since[p] \in Nat /\ log \in Seq(LogKinds)
    BY <1>5 DEF WakeUp, InFlight, StreamTypeOK
  <2>2. /\ Newest(since[p]) \in Nat
        /\ Newest(since[p]) = since[p] \/ (Newest(since[p]) > since[p] /\ Newest(since[p]) < Len(log))
    BY <2>1, NewestFits
  <2> QED BY <1>5, <2>1, <2>2, AnswerPreserves DEF WakeUp
<1>6. ASSUME NEW p \in Pollers, ConnectPolling(p) PROVE StreamInv'
  <2>1. StreamTypeOK'
    BY <1>6 DEF ConnectPolling, StreamTypeOK, Steps
  <2>2. Ids(0, 0) = <<>>
    BY IdsEmpty
  <2>3. InOrderOnce'
    BY <1>6, <2>2 DEF ConnectPolling, StreamTypeOK, InOrderOnce
  <2> QED BY <1>6, <2>1, <2>3 DEF ConnectPolling, StreamTypeOK, CursorInLog, AnswerFits, InFlight
<1>11. ASSUME NEW p \in Pollers, StopPolling(p) PROVE StreamInv'
  BY <1>11 DEF StopPolling, StreamTypeOK, InOrderOnce, CursorInLog, AnswerFits
<1>7. ASSUME NEW p \in Pollers, Poll(p) PROVE StreamInv'
  <2>1. StreamTypeOK'
    BY <1>7 DEF Poll, StreamTypeOK, Steps
  <2> QED BY <1>7, <2>1 DEF Poll, StreamTypeOK, InOrderOnce, CursorInLog, AnswerFits, InFlight
<1>8. ASSUME NEW p \in Pollers, Fail(p) PROVE StreamInv'
  <2>1. StreamTypeOK'
    BY <1>8 DEF Fail, Retry, StreamTypeOK, Steps
  <2> QED BY <1>8, <2>1 DEF Fail, Retry, StreamTypeOK, InOrderOnce, CursorInLog, AnswerFits, InFlight
<1>9. ASSUME NEW p \in Pollers, Handle(p) PROVE StreamInv'
  <2>1. /\ pc[p] = "answered" /\ since[p] = cursor[p] /\ cursor[p] \in Nat /\ last[p] \in Nat
        /\ cursor[p] = last[p] \/ (last[p] > cursor[p] /\ last[p] < Len(log))
    BY <1>9 DEF Handle, StreamTypeOK, AnswerFits, InFlight
  <2>2. shown[p] \o Ids(since[p], last[p]) = Ids(0, last[p])
    <3>1. shown[p] = Ids(0, cursor[p])
      BY DEF InOrderOnce
    <3>2. cursor[p] <= last[p]
      BY <2>1
    <3>3. Ids(0, cursor[p]) \o Ids(cursor[p], last[p]) = Ids(0, last[p])
      BY <2>1, <3>2, IdsContinue
    <3> QED BY <2>1, <3>1, <3>3
  <2>3. Advanced(p) = last[p]
    BY <2>1 DEF Advanced
  <2>4. /\ shown' = [shown EXCEPT ![p] = Ids(0, last[p])]
        /\ cursor' = [cursor EXCEPT ![p] = last[p]]
        /\ active' = [active EXCEPT ![p] = @ /\ ~SawClosed(p)]
        /\ pc' = [pc EXCEPT ![p] = IF active'[p] THEN "timer" ELSE "off"]
        /\ UNCHANGED <<log, registered, since, last>>
    BY <1>9, <2>2, <2>3 DEF Handle
  <2>5. Ids(0, last[p]) \in Seq(Nat)
    <3>1. 0 \in Nat /\ 0 <= last[p]
      BY <2>1
    <3> QED BY <2>1, <3>1, IdsType
  <2>6. StreamTypeOK'
    BY <2>1, <2>4, <2>5 DEF StreamTypeOK, Steps
  <2>7. InOrderOnce'
    BY <2>1, <2>4 DEF InOrderOnce, StreamTypeOK
  <2>8. CursorInLog'
    BY <2>1, <2>4 DEF CursorInLog, StreamTypeOK
  <2>9. AnswerFits'
    BY <2>1, <2>4 DEF AnswerFits, StreamTypeOK, InFlight
  <2> QED BY <2>6, <2>7, <2>8, <2>9
<1>10. CASE UNCHANGED streamVars
  BY <1>10 DEF streamVars, StreamTypeOK, InOrderOnce, CursorInLog, AnswerFits
<1> QED BY <1>1, <1>2, <1>3, <1>4, <1>5, <1>6, <1>7, <1>8, <1>9, <1>10, <1>11 DEF StreamNext

\* The inductive invariant holds.
THEOREM StreamInvariance == StreamSpec => []StreamInv
BY StreamBegins, StreamGoesOn, PTL DEF StreamSpec

\* Type correctness: in particular every cursor is a number, whatever answers were lost.
THEOREM StreamTypes == StreamSpec => []StreamTypeOK
BY StreamInvariance, PTL DEF StreamInv

\* From one connection to the next a window handles the events of its session in order
\* and each once, however many polls and answers are lost on the way.
THEOREM DeliveryTheorem == StreamSpec => []InOrderOnce
BY StreamInvariance, PTL DEF StreamInv

\* The cursor of a window is always the id of an event that exists, or 0.
THEOREM CursorTheorem == StreamSpec => []CursorInLog
BY StreamInvariance, PTL DEF StreamInv

-----------------------------------------------------------------------------
(* The window *)

Elements == [kind : {"user", "claude", "note", "tool", "thinking"},
             ids : Seq(Nat), done : BOOLEAN, open : BOOLEAN]
Deltas == [kind : {"text", "thinking"}, id : Nat]
Statuses == Kinds \cup {"connected", "none", "cut"}

Windows ==
  [transport : {"polling", "sse"}, session : BOOLEAN, shown : Seq(Elements), bubble : Nat \cup {Detached},
   queue : Seq(Deltas), frame : BOOLEAN, sseRequest : BOOLEAN, polling : BOOLEAN, read : Nat,
   buffer : Seq(Nat), seen : Seq(Nat), sending : BOOLEAN, stopIcon : BOOLEAN, disabled : BOOLEAN,
   status : Statuses, rows : Seq(Nat), arrived : Nat]

\* The bubble that is written to is a bubble, and those below it are empty.
BubbleFits(v) ==
  v.bubble > 0 =>
    /\ v.bubble <= Len(v.shown) /\ v.shown[v.bubble].kind = "claude"
    /\ \A k \in (v.bubble + 1)..Len(v.shown) : v.shown[k].kind = "claude" => v.shown[k].ids = <<>>

\* What deltas the elements of a kind show.
Bodies == {"claude", "thinking"}
DeltaOf(kind) == IF kind = "claude" THEN "text" ELSE "thinking"

\* The elements show their deltas in order; those of the queue are in order, and those after the
\* n-th of them come after all that are shown; each is one that has arrived.
Ordered(v) == \A kind \in Bodies : InElements(v, kind)
Behind(v, n) ==
  \A k \in (n + 1)..Len(v.queue), i \in 1..Len(v.shown) :
    v.shown[i].kind \in Bodies /\ v.queue[k].kind = DeltaOf(v.shown[i].kind) =>
      \A m \in Range(v.shown[i].ids) : m < v.queue[k].id
InLine(v) ==
  \A i, k \in 1..Len(v.queue) : i < k /\ v.queue[i].kind = v.queue[k].kind => v.queue[i].id < v.queue[k].id
Numbered(v) ==
  /\ \A i \in 1..Len(v.shown) : \A m \in Range(v.shown[i].ids) : m \in 1..v.arrived
  /\ \A k \in 1..Len(v.queue) : v.queue[k].id \in 1..v.arrived

\* While the queue is drawn, n deltas of it are.
Drawing(v, n) == v \in Windows /\ BubbleFits(v) /\ Ordered(v) /\ Behind(v, n) /\ InLine(v) /\ Numbered(v)

\* The functions that draw leave the rest alone.
Others(v, u) ==
  /\ u.transport = v.transport /\ u.session = v.session /\ u.queue = v.queue /\ u.frame = v.frame
  /\ u.sseRequest = v.sseRequest /\ u.polling = v.polling /\ u.read = v.read /\ u.buffer = v.buffer
  /\ u.seen = v.seen /\ u.sending = v.sending /\ u.stopIcon = v.stopIcon /\ u.disabled = v.disabled
  /\ u.status = v.status /\ u.rows = v.rows /\ u.arrived = v.arrived

\* What becomes of an element; of a block, what ThinkingIsKept says, so that it holds of several
\* steps when it holds of each.
Folded(e) == Len(e.ids) <= FoldAt \/ ~e.open
Grown(e, f) ==
  /\ f.kind = e.kind
  /\ e.kind = "thinking" =>
       /\ e.done => f.done /\ f.ids = e.ids
       /\ Folded(e) => Folded(f)
       /\ f.ids # e.ids => Folded(f)
AllGrown(v, u) ==
  /\ Len(v.shown) <= Len(u.shown)
  /\ \A i \in 1..Len(v.shown) : Grown(v.shown[i], u.shown[i])

\* No delta waits without a frame.
Steady(v) == Drawing(v, 0) /\ (v.queue # <<>> => v.frame)

\* The event that is handled is a new one.
NoneYet(v) ==
  /\ \A i \in 1..Len(v.shown) : \A m \in Range(v.shown[i].ids) : m < v.arrived
  /\ \A k \in 1..Len(v.queue) : v.queue[k].id < v.arrived

\* The events that were seen ended before the place up to which the response is read; what is
\* left in the buffer ends none.
SeenFits(v) ==
  /\ Increasing(v.seen)
  /\ \A k \in 1..Len(v.seen) : 2 * v.seen[k] <= v.read
  /\ \A k \in 1..Len(v.buffer) : ~Ends(v.buffer[k])
Capped(n) == IF n < DebugRows THEN n ELSE DebugRows
LatestRows(rows, n) ==
  /\ Len(rows) = Capped(n)
  /\ \A i \in 1..Len(rows) : rows[i] = n - Len(rows) + i
RowsFit(v) == v.transport = "sse" => LatestRows(v.rows, v.arrived)

Good(v) == Steady(v) /\ SeenFits(v) /\ RowsFit(v)

\* What the handlers leave alone, except that they may stop the polling and empty the buffer.
Rest(v, u) ==
  /\ u.transport = v.transport /\ u.seen = v.seen /\ u.read = v.read /\ u.rows = v.rows
  /\ u.arrived = v.arrived /\ u.buffer \in {v.buffer, <<>>} /\ (u.polling => v.polling)
Follows(v, u) == Steady(u) /\ AllGrown(v, u) /\ Rest(v, u)

\* The inductive invariant.
TranscriptInv ==
  /\ Good(w)
  /\ w.arrived <= MaxArrivals
  /\ asked \in Seq({"send", "reset", "history"})
  /\ loop \in BOOLEAN
  /\ w.polling => loop
  /\ loop => w.transport = "polling"
  /\ received \in Nat /\ w.read <= received

-----------------------------------------------------------------------------
(* What a window holds *)

LEMMA Fields ==
  ASSUME NEW v \in Windows
  PROVE  /\ v.shown \in Seq(Elements) /\ Len(v.shown) \in Nat
         /\ v.queue \in Seq(Deltas) /\ Len(v.queue) \in Nat
         /\ v.bubble \in Nat \cup {Detached} /\ v.arrived \in Nat /\ v.read \in Nat
         /\ v.buffer \in Seq(Nat) /\ v.seen \in Seq(Nat) /\ v.rows \in Seq(Nat)
         /\ {v.session, v.frame, v.sseRequest, v.polling, v.sending, v.stopIcon, v.disabled} \subseteq BOOLEAN
         /\ v.status \in Statuses /\ v.transport \in {"polling", "sse"}
<1>1. v.shown \in Seq(Elements) /\ v.queue \in Seq(Deltas)
  BY DEF Windows
<1>2. Len(v.shown) \in Nat /\ Len(v.queue) \in Nat
  BY <1>1
<1>3. /\ v.bubble \in Nat \cup {Detached} /\ v.arrived \in Nat /\ v.read \in Nat
      /\ v.buffer \in Seq(Nat) /\ v.seen \in Seq(Nat) /\ v.rows \in Seq(Nat)
      /\ v.status \in Statuses /\ v.transport \in {"polling", "sse"}
  BY DEF Windows
<1>4. {v.session, v.frame, v.sseRequest, v.polling, v.sending, v.stopIcon, v.disabled} \subseteq BOOLEAN
  BY DEF Windows
<1> QED BY <1>1, <1>2, <1>3, <1>4

LEMMA ElementAt ==
  ASSUME NEW v \in Windows, NEW i \in 1..Len(v.shown)
  PROVE  /\ v.shown[i] \in Elements
         /\ v.shown[i].kind \in {"user", "claude", "note", "tool", "thinking"}
         /\ v.shown[i].ids \in Seq(Nat) /\ Len(v.shown[i].ids) \in Nat
         /\ v.shown[i].done \in BOOLEAN /\ v.shown[i].open \in BOOLEAN
<1> DEFINE s == v.shown
<1>1. s \in Seq(Elements) /\ i \in 1..Len(s)
  BY Fields
<1> HIDE DEF s
<1>2. s[i] \in Elements
  BY <1>1
<1>3. /\ s[i].kind \in {"user", "claude", "note", "tool", "thinking"}
      /\ s[i].ids \in Seq(Nat) /\ s[i].done \in BOOLEAN /\ s[i].open \in BOOLEAN
  BY <1>2 DEF Elements
<1> QED BY <1>2, <1>3 DEF s

LEMMA DeltaAt ==
  ASSUME NEW v \in Windows, NEW k \in 1..Len(v.queue)
  PROVE  v.queue[k] \in Deltas /\ v.queue[k].kind \in {"text", "thinking"} /\ v.queue[k].id \in Nat
<1> DEFINE q == v.queue
<1>1. q \in Seq(Deltas) /\ k \in 1..Len(q)
  BY Fields
<1> HIDE DEF q
<1>2. q[k] \in Deltas
  BY <1>1
<1> QED BY <1>2 DEF q, Deltas

-----------------------------------------------------------------------------
(* Sequences of numbers *)

LEMMA RangeAppend ==
  ASSUME NEW ids \in Seq(Nat), NEW id \in Nat
  PROVE  Append(ids, id) \in Seq(Nat) /\ Range(Append(ids, id)) = Range(ids) \cup {id}
<1>1. /\ Append(ids, id) \in Seq(Nat) /\ Len(Append(ids, id)) = Len(ids) + 1
      /\ DOMAIN Append(ids, id) = 1..(Len(ids) + 1) /\ DOMAIN ids = 1..Len(ids)
      /\ \A i \in 1..Len(ids) : Append(ids, id)[i] = ids[i]
      /\ Append(ids, id)[Len(ids) + 1] = id
  OBVIOUS
<1>2. 1..(Len(ids) + 1) = 1..Len(ids) \cup {Len(ids) + 1}
  OBVIOUS
<1> DEFINE longer == Append(ids, id)
<1>3. /\ DOMAIN longer = DOMAIN ids \cup {Len(ids) + 1} /\ \A i \in DOMAIN ids : longer[i] = ids[i]
      /\ longer[Len(ids) + 1] = id
  BY <1>1, <1>2
<1> HIDE DEF longer
<1>4. Range(longer) = Range(ids) \cup {id}
  BY <1>3 DEF Range
<1> QED BY <1>1, <1>4 DEF longer

LEMMA RangeEmpty == Range(<<>>) = {} /\ <<>> \in Seq(Nat)
BY DEF Range

LEMMA RangeNat == ASSUME NEW ids \in Seq(Nat) PROVE Range(ids) \in SUBSET Nat
BY DEF Range

\* One that is greater than all is in order behind them.
LEMMA IncreasingAppend ==
  ASSUME NEW ids \in Seq(Nat), NEW id \in Nat, Increasing(ids), \A m \in Range(ids) : m < id
  PROVE  Increasing(Append(ids, id))
<1> DEFINE longer == Append(ids, id)
<1>1. /\ Len(longer) = Len(ids) + 1 /\ Len(ids) \in Nat
      /\ \A i \in 1..Len(ids) : longer[i] = ids[i]
      /\ longer[Len(ids) + 1] = id
  OBVIOUS
<1>2. \A i \in 1..Len(ids) : ids[i] < id
  BY DEF Range
<1> HIDE DEF longer
<1>3. ASSUME NEW i \in 1..Len(longer), NEW k \in 1..Len(longer), i < k PROVE longer[i] < longer[k]
  <2>1. i \in 1..Len(ids)
    BY <1>1, <1>3
  <2>2. CASE k \in 1..Len(ids)
    BY <1>1, <1>3, <2>1, <2>2 DEF Increasing
  <2>3. CASE k = Len(ids) + 1
    BY <1>1, <1>2, <2>1, <2>3
  <2> QED BY <1>1, <2>2, <2>3
<1> QED BY <1>3 DEF Increasing, longer

LEMMA IncreasingOne == ASSUME NEW id \in Nat PROVE Increasing(<<id>>) /\ Range(<<id>>) = {id} /\ <<id>> \in Seq(Nat)
<1>1. Append(<<>>, id) = <<id>> /\ Increasing(<<>>)
  BY DEF Increasing
<1> QED BY <1>1, RangeEmpty, RangeAppend, IncreasingAppend

\* A set of places that has the first, and with each the next, has all.
LEMMA Walk ==
  ASSUME NEW m \in Nat, NEW S \in SUBSET (0..m), 0 \in S, \A n \in 0..(m - 1) : n \in S => n + 1 \in S
  PROVE  S = 0..m
<1> DEFINE T == (0..m) \ S
<1> SUFFICES ASSUME T # {} PROVE FALSE
  OBVIOUS
<1>1. T \subseteq Nat
  OBVIOUS
<1>2. PICK k \in T : \A i \in T : ~ (<<i, k>> \in OpToRel(<, Nat))
  BY <1>1, WFMin, NatLessThanWellFounded
<1>3. k - 1 \in 0..(m - 1) /\ k \in Nat /\ k - 1 < k
  BY <1>1
<1>4. k - 1 \in T
  BY <1>3
<1>5. <<k - 1, k>> \in OpToRel(<, Nat)
  BY <1>3 DEF OpToRel
<1> QED BY <1>2, <1>4, <1>5

-----------------------------------------------------------------------------
(* Drawing a delta *)

LEMMA Before == ASSUME NEW a \in Nat, NEW b \in Nat, NEW c \in Nat, a < b, b < c PROVE a < c
OBVIOUS

\* The delta that is drawn next, and what its kind of body shows before it.
LEMMA NextNumber ==
  ASSUME NEW v, NEW n \in Nat, Drawing(v, n), n + 1 \in 1..Len(v.queue)
  PROVE  v.queue[n + 1].id \in Nat /\ v.queue[n + 1].id \in 1..v.arrived
<1> DEFINE k == n + 1
<1>1. k \in 1..Len(v.queue) /\ v \in Windows /\ Numbered(v)
  BY DEF Drawing
<1> HIDE DEF k
<1>2. v.queue[k].id \in Nat
  BY <1>1, DeltaAt
<1>3. v.queue[k].id \in 1..v.arrived
  BY <1>1, Zenon DEF Numbered
<1> QED BY <1>2, <1>3 DEF k

LEMMA NextBehind ==
  ASSUME NEW v, NEW n \in Nat, Drawing(v, n), n + 1 \in 1..Len(v.queue),
         NEW kind \in Bodies, v.queue[n + 1].kind = DeltaOf(kind)
  PROVE  \A k \in 1..Len(v.shown) : v.shown[k].kind = kind => \A m \in Range(v.shown[k].ids) : m < v.queue[n + 1].id
<1>1. v \in Windows /\ Behind(v, n)
  BY DEF Drawing
<1>2. n + 1 \in (n + 1)..Len(v.queue)
  <2>1. Len(v.queue) \in Nat
    BY <1>1, Fields
  <2> QED BY <2>1
<1> QED BY <1>1, <1>2, Zenon DEF Behind

\* A delta is written to the element i, which is new or the last of its kind that is not empty.
LEMMA Written ==
  ASSUME NEW v, NEW n \in Nat, Drawing(v, n), n + 1 \in 1..Len(v.queue),
         NEW u \in Windows, u.queue = v.queue, u.arrived = v.arrived,
         NEW i \in 1..Len(u.shown), NEW old \in Seq(Nat),
         \A k \in 1..Len(u.shown) : k # i => k \in 1..Len(v.shown) /\ u.shown[k] = v.shown[k],
         old # <<>> => i \in 1..Len(v.shown) /\ old = v.shown[i].ids /\ v.shown[i].kind = u.shown[i].kind,
         u.shown[i].kind \in Bodies, v.queue[n + 1].kind = DeltaOf(u.shown[i].kind),
         u.shown[i].ids = Append(old, v.queue[n + 1].id),
         \A k \in (i + 1)..Len(u.shown) : u.shown[k].kind = u.shown[i].kind => u.shown[k].ids = <<>>
  PROVE  Ordered(u) /\ Behind(u, n + 1) /\ InLine(u) /\ Numbered(u)
<1> DEFINE id == v.queue[n + 1].id
           kind == u.shown[i].kind
<1>1. id \in Nat /\ id \in 1..v.arrived
  BY NextNumber
<1>2. \A k \in 1..Len(v.shown) : v.shown[k].kind = kind => \A m \in Range(v.shown[k].ids) : m < id
  BY NextBehind
<1>3. (\A m \in Range(old) : m < id) /\ Increasing(old) /\ \A m \in Range(old) : m \in 1..v.arrived
  <2>1. CASE i \in 1..Len(v.shown) /\ old = v.shown[i].ids /\ v.shown[i].kind = u.shown[i].kind
    BY <1>2, <2>1 DEF Drawing, Ordered, InElements, Numbered
  <2>2. CASE old = <<>>
    BY <2>2, RangeEmpty DEF Increasing
  <2> QED BY <2>1, <2>2
<1>4. Range(u.shown[i].ids) = Range(old) \cup {id} /\ Increasing(u.shown[i].ids)
  BY <1>1, <1>3, RangeAppend, IncreasingAppend
<1>5. \A k \in 1..Len(u.shown) : k # i => k \in 1..Len(v.shown) /\ u.shown[k] = v.shown[k]
  OBVIOUS
<1> HIDE DEF id
<1>6. Ordered(u)
  <2> SUFFICES ASSUME NEW body \in Bodies, NEW a \in 1..Len(u.shown), NEW b \in 1..Len(u.shown),
                      u.shown[a].kind = body, u.shown[b].kind = body
               PROVE  /\ Increasing(u.shown[a].ids)
                      /\ a < b => \A m \in Range(u.shown[a].ids), o \in Range(u.shown[b].ids) : m < o
    BY DEF Ordered, InElements
  <2>1. Increasing(u.shown[a].ids)
    BY <1>4, <1>5 DEF Drawing, Ordered, InElements
  <2>2. ASSUME a < b, NEW m \in Range(u.shown[a].ids), NEW o \in Range(u.shown[b].ids) PROVE m < o
    <3>1. CASE a # i /\ b # i
      BY <1>5, <2>2, <3>1 DEF Drawing, Ordered, InElements
    <3>2. CASE a = i
      <4>1. b \in (i + 1)..Len(u.shown)
        BY <2>2, <3>2
      <4>2. u.shown[b].kind = u.shown[i].kind
        BY <3>2
      <4>3. u.shown[b].ids = <<>>
        BY <4>1, <4>2, Zenon
      <4> QED BY <2>2, <4>3, RangeEmpty
    <3>3. CASE b = i /\ a # i
      <4>1. m < id
        BY <1>2, <1>5, <2>2, <3>3
      <4>2. CASE o = id
        BY <4>1, <4>2
      <4>3. CASE o \in Range(old)
        <5>1. old # <<>>
          BY <4>3, RangeEmpty
        <5>2. i \in 1..Len(v.shown) /\ old = v.shown[i].ids /\ v.shown[i].kind = body
          BY <3>3, <5>1
        <5>3. a \in 1..Len(v.shown) /\ u.shown[a] = v.shown[a]
          BY <1>5, <3>3
        <5>4. InElements(v, body)
          BY DEF Drawing, Ordered
        <5>5. \A p \in Range(v.shown[a].ids), r \in Range(v.shown[i].ids) : p < r
          <6>1. a < i
            BY <2>2, <3>3
          <6>2. v.shown[a].kind = body /\ v.shown[i].kind = body
            BY <5>2, <5>3
          <6> QED BY <5>2, <5>3, <5>4, <6>1, <6>2, Zenon DEF InElements
        <5>6. m \in Range(v.shown[a].ids) /\ o \in Range(v.shown[i].ids)
          BY <2>2, <4>3, <5>2, <5>3
        <5> QED BY <5>5, <5>6, Zenon
      <4> QED BY <1>4, <2>2, <3>3, <4>2, <4>3
    <3> QED BY <3>1, <3>2, <3>3
  <2> QED BY <2>1, <2>2
<1>7. Behind(u, n + 1)
  <2> SUFFICES ASSUME NEW k \in (n + 1 + 1)..Len(v.queue), NEW a \in 1..Len(u.shown),
                      u.shown[a].kind \in Bodies, v.queue[k].kind = DeltaOf(u.shown[a].kind),
                      NEW m \in Range(u.shown[a].ids)
               PROVE  m < v.queue[k].id
    BY DEF Behind
  <2>1. k \in (n + 1)..Len(v.queue) /\ k \in 1..Len(v.queue) /\ n + 1 < k
    BY DEF Windows, Drawing
  <2>2. CASE a # i
    BY <1>5, <2>1, <2>2 DEF Drawing, Behind
  <2>3. CASE a = i
    <3>1. id < v.queue[k].id
      BY <2>1, <2>3 DEF Drawing, InLine, id
    <3>2. v.queue[k].id \in Nat
      BY <2>1, DeltaAt DEF Drawing
    <3>3. CASE m = id
      BY <3>1, <3>3
    <3>4. CASE m \in Range(old)
      <4>1. m < id /\ m \in 1..v.arrived
        BY <1>3, <3>4
      <4>2. m \in Nat
        BY <4>1
      <4> QED BY <1>1, <3>1, <3>2, <4>1, <4>2, Before, Zenon
    <3> QED BY <1>4, <2>3, <3>3, <3>4
  <2> QED BY <2>2, <2>3
<1>8. InLine(u)
  BY DEF Drawing, InLine
<1>9. Numbered(u)
  <2>1. ASSUME NEW a \in 1..Len(u.shown), NEW m \in Range(u.shown[a].ids) PROVE m \in 1..u.arrived
    BY <1>1, <1>3, <1>4, <1>5, <2>1 DEF Drawing, Numbered
  <2> QED BY <2>1 DEF Drawing, Numbered
<1> QED BY <1>6, <1>7, <1>8, <1>9

-----------------------------------------------------------------------------
(* Elements *)

LEMMA Appended ==
  ASSUME NEW v \in Windows, NEW e \in Elements
  PROVE  /\ Append(v.shown, e) \in Seq(Elements) /\ Len(Append(v.shown, e)) = Len(v.shown) + 1
         /\ \A i \in 1..Len(v.shown) : Append(v.shown, e)[i] = v.shown[i]
         /\ Append(v.shown, e)[Len(v.shown) + 1] = e
<1>1. v.shown \in Seq(Elements)
  BY Fields
<1> DEFINE s == v.shown
<1> HIDE DEF s
<1>2. s \in Seq(Elements)
  BY <1>1 DEF s
<1>3. /\ Append(s, e) \in Seq(Elements) /\ Len(Append(s, e)) = Len(s) + 1
      /\ \A i \in 1..Len(s) : Append(s, e)[i] = s[i]
      /\ Append(s, e)[Len(s) + 1] = e
  BY <1>2
<1> QED BY <1>3 DEF s

LEMMA Replaced ==
  ASSUME NEW v \in Windows, NEW i \in 1..Len(v.shown), NEW e \in Elements
  PROVE  /\ [v.shown EXCEPT ![i] = e] \in Seq(Elements)
         /\ Len([v.shown EXCEPT ![i] = e]) = Len(v.shown)
         /\ \A k \in 1..Len(v.shown) : [v.shown EXCEPT ![i] = e][k] = IF k = i THEN e ELSE v.shown[k]
<1>1. v.shown \in Seq(Elements)
  BY Fields
<1> DEFINE s == v.shown
<1>2. s \in Seq(Elements) /\ i \in 1..Len(s)
  BY <1>1
<1> HIDE DEF s
<1>3. /\ [s EXCEPT ![i] = e] \in Seq(Elements)
      /\ Len([s EXCEPT ![i] = e]) = Len(s)
      /\ \A k \in 1..Len(s) : [s EXCEPT ![i] = e][k] = IF k = i THEN e ELSE s[k]
  BY <1>2
<1> QED BY <1>3 DEF s

LEMMA GrownSame == ASSUME NEW e PROVE Grown(e, e)
BY DEF Grown

LEMMA GrownTwice ==
  ASSUME NEW e, NEW f, NEW g, Grown(e, f), Grown(f, g)
  PROVE  Grown(e, g)
BY Zenon DEF Grown

LEMMA AllGrownTwice ==
  ASSUME NEW v \in Windows, NEW u \in Windows, NEW x \in Windows, AllGrown(v, u), AllGrown(u, x)
  PROVE  AllGrown(v, x)
<1>1. Len(v.shown) \in Nat /\ Len(u.shown) \in Nat /\ Len(x.shown) \in Nat
  BY Fields
<1>2. \A i \in 1..Len(v.shown) : i \in 1..Len(u.shown)
  BY <1>1 DEF AllGrown
<1>3. \A i \in 1..Len(v.shown) : Grown(v.shown[i], x.shown[i])
  BY <1>2, GrownTwice DEF AllGrown
<1> QED BY <1>1, <1>3 DEF AllGrown

-----------------------------------------------------------------------------
(* Drawing the queue *)

\* The bubble that is written to, if there is one.
LEMMA BubblePlace ==
  ASSUME NEW v \in Windows, BubbleFits(v), v.bubble > 0
  PROVE  /\ v.bubble \in 1..Len(v.shown) /\ v.shown[v.bubble].kind = "claude"
         /\ \A k \in (v.bubble + 1)..Len(v.shown) : v.shown[k].kind = "claude" => v.shown[k].ids = <<>>
<1>1. v.bubble \in Nat \cup {Detached} /\ Len(v.shown) \in Nat
  BY Fields
<1>2. v.bubble \in Nat
  BY <1>1 DEF Detached
<1>3. v.bubble <= Len(v.shown)
  BY DEF BubbleFits
<1>4. v.bubble \in 1..Len(v.shown)
  BY <1>1, <1>2, <1>3
<1> QED BY <1>4, Zenon DEF BubbleFits

LEMMA NewElement ==
  ASSUME NEW v \in Windows, NEW e \in Elements, NEW u \in Windows, u.shown = Append(v.shown, e)
  PROVE  /\ AllGrown(v, u) /\ Len(u.shown) = Len(v.shown) + 1 /\ u.shown[Len(v.shown) + 1] = e
         /\ \A k \in 1..Len(v.shown) : u.shown[k] = v.shown[k]
<1>1. /\ Append(v.shown, e) \in Seq(Elements) /\ Len(Append(v.shown, e)) = Len(v.shown) + 1
      /\ \A i \in 1..Len(v.shown) : Append(v.shown, e)[i] = v.shown[i]
      /\ Append(v.shown, e)[Len(v.shown) + 1] = e
  BY Appended
<1>3. Len(v.shown) \in Nat
  BY Fields
<1>4. AllGrown(v, u)
  BY <1>1, <1>3, GrownSame DEF AllGrown
<1> QED BY <1>1, <1>4

LEMMA OtherElement ==
  ASSUME NEW v \in Windows, NEW u \in Windows, NEW i \in 1..Len(v.shown), Len(u.shown) = Len(v.shown),
         Grown(v.shown[i], u.shown[i]), \A k \in 1..Len(v.shown) : k # i => u.shown[k] = v.shown[k]
  PROVE  AllGrown(v, u)
<1>1. Len(v.shown) \in Nat
  BY Fields
<1> QED BY <1>1, GrownSame DEF AllGrown

\* A delta that is drawn into a new element.
LEMMA DrawnAnew ==
  ASSUME NEW v, NEW n \in Nat, Drawing(v, n), n + 1 \in 1..Len(v.queue), NEW kind \in Bodies,
         v.queue[n + 1].kind = DeltaOf(kind), NEW open \in BOOLEAN, NEW b \in Nat \cup {Detached},
         IF kind = "claude" THEN b = Len(v.shown) + 1 ELSE b = v.bubble,
         NEW u \in Windows, Others(v, u), u.bubble = b,
         u.shown = Append(v.shown, Element(kind, <<v.queue[n + 1].id>>, open))
  PROVE  Drawing(u, n + 1) /\ AllGrown(v, u)
<1> DEFINE id == v.queue[n + 1].id
           e == Element(kind, <<id>>, open)
           i == Len(v.shown) + 1
<1>1. v \in Windows /\ id \in Nat /\ Len(v.shown) \in Nat
  BY Fields, DeltaAt DEF Drawing
<1>2. e \in Elements /\ e.kind = kind /\ e.ids = <<id>>
  <2>1. <<id>> \in Seq(Nat) /\ kind \in {"user", "claude", "note", "tool", "thinking"}
    BY <1>1 DEF Bodies
  <2> QED BY <2>1 DEF Element, Elements
<1>3. <<id>> = Append(<<>>, id)
  BY <1>1
<1>9. u.shown = Append(v.shown, e)
  OBVIOUS
<1> HIDE DEF e
<1>4. /\ u \in Windows /\ Others(v, u) /\ u.bubble = b
      /\ AllGrown(v, u) /\ Len(u.shown) = i /\ u.shown[i] = e
      /\ \A k \in 1..Len(v.shown) : u.shown[k] = v.shown[k]
  <2>1. v \in Windows
    BY <1>1
  <2>2. e \in Elements
    BY <1>2
  <2> QED BY <1>9, <2>1, <2>2, NewElement
<1>5. i \in 1..Len(u.shown) /\ \A k \in 1..Len(u.shown) : k # i => k \in 1..Len(v.shown) /\ u.shown[k] = v.shown[k]
  BY <1>1, <1>4
<1>6. u.queue = v.queue /\ u.arrived = v.arrived
  BY <1>4 DEF Others
<1>7. Ordered(u) /\ Behind(u, n + 1) /\ InLine(u) /\ Numbered(u)
  <2>1. (i + 1)..Len(u.shown) = {}
    BY <1>1, <1>4
  <2>2. u.shown[i].ids = Append(<<>>, v.queue[n + 1].id) /\ u.shown[i].kind = kind /\ <<>> \in Seq(Nat)
    BY <1>2, <1>3, <1>4
  <2> DEFINE old == <<>>
  <2>5. old = <<>> /\ old \in Seq(Nat)
    BY <2>2
  <2> HIDE DEF i, id, old
  <2>3. \A k \in (i + 1)..Len(u.shown) : u.shown[k].kind = u.shown[i].kind => u.shown[k].ids = <<>>
    BY <2>1
  <2>4. u.shown[i].kind \in Bodies /\ v.queue[n + 1].kind = DeltaOf(u.shown[i].kind)
    BY <2>2
  <2> QED BY <1>4, <1>5, <1>6, <2>2, <2>3, <2>4, <2>5, Written
<1>8. BubbleFits(u)
  <2>1. CASE kind = "claude"
    BY <1>1, <1>2, <1>4, <2>1 DEF BubbleFits
  <2>2. CASE kind = "thinking"
    <3> SUFFICES ASSUME v.bubble > 0, u.bubble > 0
                 PROVE  /\ v.bubble <= Len(u.shown) /\ u.shown[v.bubble].kind = "claude"
                        /\ \A k \in (v.bubble + 1)..Len(u.shown) : u.shown[k].kind = "claude" => u.shown[k].ids = <<>>
      BY <1>4, <2>2 DEF BubbleFits
    <3>1. /\ v.bubble \in 1..Len(v.shown) /\ v.shown[v.bubble].kind = "claude"
          /\ \A k \in (v.bubble + 1)..Len(v.shown) : v.shown[k].kind = "claude" => v.shown[k].ids = <<>>
      BY <1>1, BubblePlace DEF Drawing
    <3>2. ASSUME NEW k \in (v.bubble + 1)..Len(u.shown), u.shown[k].kind = "claude" PROVE u.shown[k].ids = <<>>
      <4>1. CASE k = i
        BY <1>2, <1>4, <2>2, <3>2, <4>1
      <4>2. CASE k # i
        <5>1. k \in (v.bubble + 1)..Len(v.shown) /\ k \in 1..Len(v.shown)
          BY <1>1, <1>4, <3>1, <4>2
        <5> QED BY <1>4, <3>1, <3>2, <5>1
      <4> QED BY <4>1, <4>2
    <3>3. v.bubble <= Len(u.shown)
      BY <1>1, <1>4, <3>1
    <3>4. u.shown[v.bubble].kind = "claude"
      BY <1>4, <3>1
    <3> QED BY <3>2, <3>3, <3>4, Zenon
  <2> QED BY <2>1, <2>2 DEF Bodies
<1> QED BY <1>4, <1>7, <1>8 DEF Drawing

\* A delta that is written to an element.
LEMMA DrawnMore ==
  ASSUME NEW v, NEW n \in Nat, Drawing(v, n), n + 1 \in 1..Len(v.queue), NEW i \in 1..Len(v.shown),
         NEW e \in Elements, Grown(v.shown[i], e), e.kind = v.shown[i].kind,
         e.ids = Append(v.shown[i].ids, v.queue[n + 1].id),
         e.kind \in Bodies, v.queue[n + 1].kind = DeltaOf(e.kind),
         \A k \in (i + 1)..Len(v.shown) : v.shown[k].kind = e.kind => v.shown[k].ids = <<>>,
         e.kind = "claude" => i = v.bubble,
         NEW u \in Windows, Others(v, u), u.bubble = v.bubble, Len(u.shown) = Len(v.shown), u.shown[i] = e,
         \A k \in 1..Len(v.shown) : k # i => u.shown[k] = v.shown[k]
  PROVE  Drawing(u, n + 1) /\ AllGrown(v, u)
<1> DEFINE old == v.shown[i].ids
<1>1. v \in Windows /\ Len(v.shown) \in Nat /\ old \in Seq(Nat) /\ v.bubble \in Nat \cup {Detached}
  BY Fields, ElementAt DEF Drawing
<1>2. /\ AllGrown(v, u) /\ Len(u.shown) = Len(v.shown) /\ u.shown[i] = e
      /\ \A k \in 1..Len(v.shown) : k # i => u.shown[k] = v.shown[k]
  BY <1>1, OtherElement
<1>3. u.queue = v.queue /\ u.arrived = v.arrived
  BY DEF Others
<1>4. \A k \in (i + 1)..Len(u.shown) : u.shown[k].kind = u.shown[i].kind => u.shown[k].ids = <<>>
  <2> SUFFICES ASSUME NEW k \in (i + 1)..Len(v.shown), u.shown[k].kind = e.kind PROVE u.shown[k].ids = <<>>
    BY <1>2
  <2>1. k \in 1..Len(v.shown) /\ k # i
    BY <1>1
  <2> QED BY <1>2, <2>1
<1>5. Ordered(u) /\ Behind(u, n + 1) /\ InLine(u) /\ Numbered(u)
  <2>1. i \in 1..Len(u.shown) /\ \A k \in 1..Len(u.shown) : k # i => k \in 1..Len(v.shown) /\ u.shown[k] = v.shown[k]
    BY <1>2
  <2>2. u.shown[i].kind \in Bodies /\ v.queue[n + 1].kind = DeltaOf(u.shown[i].kind)
        /\ u.shown[i].ids = Append(old, v.queue[n + 1].id) /\ v.shown[i].kind = u.shown[i].kind
    BY <1>2
  <2> QED BY <1>1, <1>2, <1>3, <1>4, <2>1, <2>2, Written
<1>6. BubbleFits(u)
  <2> SUFFICES ASSUME v.bubble > 0
               PROVE  /\ v.bubble <= Len(v.shown) /\ u.shown[v.bubble].kind = "claude"
                      /\ \A k \in (v.bubble + 1)..Len(v.shown) : u.shown[k].kind = "claude" => u.shown[k].ids = <<>>
    BY <1>2 DEF BubbleFits
  <2>1. /\ v.bubble \in 1..Len(v.shown) /\ v.shown[v.bubble].kind = "claude"
        /\ \A k \in (v.bubble + 1)..Len(v.shown) : v.shown[k].kind = "claude" => v.shown[k].ids = <<>>
    BY BubblePlace DEF Drawing
  <2>2. \A k \in (v.bubble + 1)..Len(v.shown) : k \in 1..Len(v.shown) /\ k # v.bubble
    BY <1>1, <2>1
  <2>3. \A k \in 1..Len(v.shown) : u.shown[k].kind = v.shown[k].kind
    BY <1>2
  <2>4. ASSUME NEW k \in (v.bubble + 1)..Len(v.shown), u.shown[k].kind = "claude" PROVE u.shown[k].ids = <<>>
    <3>1. v.shown[k].kind = "claude"
      BY <2>2, <2>3, <2>4
    <3>2. k # i
      BY <2>2, <3>1
    <3> QED BY <1>2, <2>1, <2>2, <3>1, <3>2
  <2> QED BY <2>1, <2>3, <2>4
<1> QED BY <1>2, <1>5, <1>6 DEF Drawing

LEMMA Skipped == ASSUME NEW v, NEW n \in Nat, Drawing(v, n) PROVE Drawing(v, n + 1) /\ AllGrown(v, v) /\ Others(v, v)
<1>1. Len(v.queue) \in Nat /\ Len(v.shown) \in Nat
  BY Fields DEF Drawing
<1>2. \A k \in (n + 1 + 1)..Len(v.queue) : k \in (n + 1)..Len(v.queue)
  BY <1>1
<1>3. Behind(v, n + 1)
  BY <1>2 DEF Drawing, Behind
<1>4. AllGrown(v, v)
  BY <1>1, GrownSame DEF AllGrown
<1> QED BY <1>3, <1>4 DEF Drawing, Others

LEMMA TextCases ==
  ASSUME NEW v, NEW id
  PROVE  /\ v.bubble = NoBubble => AppendText(v, id) = NewText(v, id)
         /\ v.bubble = Detached => AppendText(v, id) = v
         /\ v.bubble \notin {NoBubble, Detached} => AppendText(v, id) = MoreText(v, id)
BY DEF AppendText, NoBubble, Detached

LEMMA TextDrawn ==
  ASSUME NEW v, NEW n \in Nat, Drawing(v, n), n + 1 \in 1..Len(v.queue), v.queue[n + 1].kind = "text",
         NEW u, u = AppendText(v, v.queue[n + 1].id)
  PROVE  Drawing(u, n + 1) /\ AllGrown(v, u) /\ Others(v, u)
<1> DEFINE id == v.queue[n + 1].id
<1>1. v \in Windows /\ id \in Nat /\ Len(v.shown) \in Nat /\ v.bubble \in Nat \cup {Detached}
  BY Fields, DeltaAt DEF Drawing
<1> HIDE DEF id
<1>2. CASE v.bubble = NoBubble
  <2> DEFINE e == Element("claude", <<id>>, FALSE)
             s == Append(v.shown, e)
             b == Len(v.shown) + 1
  <2>1. u = [v EXCEPT !.shown = s, !.bubble = b]
    BY <1>2, TextCases DEF NewText, id
  <2>2. e \in Elements
    BY <1>1 DEF Element, Elements
  <2>3. s \in Seq(Elements) /\ b \in Nat \cup {Detached}
    <3> HIDE DEF e
    <3>1. s \in Seq(Elements)
      BY <1>1, <2>2, Appended
    <3> QED BY <1>1, <3>1
  <2>4. u \in Windows /\ u.shown = s /\ u.bubble = b /\ Others(v, u)
    <3> HIDE DEF s, b
    <3>1. u \in Windows
      BY <1>1, <2>1, <2>3 DEF Windows
    <3> QED BY <1>1, <2>1, <3>1 DEF Windows, Others
  <2>5. DeltaOf("claude") = "text" /\ "claude" \in Bodies
    BY DEF DeltaOf, Bodies
  <2> QED BY <2>3, <2>4, <2>5, DrawnAnew DEF id
<1>3. CASE v.bubble = Detached
  BY <1>3, Skipped, TextCases
<1>4. CASE v.bubble > 0
  <2> DEFINE i == v.bubble
             e == [v.shown[i] EXCEPT !.ids = Append(@, id)]
             s == [v.shown EXCEPT ![i] = e]
  <2>1. i \in 1..Len(v.shown) /\ v.shown[i].kind = "claude" /\ \A k \in (i + 1)..Len(v.shown) : v.shown[k].kind = "claude" => v.shown[k].ids = <<>>
    BY <1>1, <1>4, BubblePlace DEF Drawing
  <2>2. v.shown[i] \in Elements /\ v.shown[i].ids \in Seq(Nat)
    BY <1>1, <2>1, ElementAt
  <2>3. Append(v.shown[i].ids, id) \in Seq(Nat)
    BY <1>1, <2>2
  <2>4. e \in Elements /\ e.kind = "claude" /\ e.ids = Append(v.shown[i].ids, id)
    BY <2>1, <2>2, <2>3 DEF Elements
  <2>5. u = [v EXCEPT !.shown = s, !.bubble = i]
    <3>1. u = MoreText(v, id)
      BY <1>4, TextCases DEF id, NoBubble, Detached
    <3> QED BY <1>1, <2>1, <2>2, <3>1 DEF MoreText, Windows, Elements
  <2>6. s \in Seq(Elements) /\ Len(s) = Len(v.shown) /\ \A k \in 1..Len(v.shown) : s[k] = IF k = i THEN e ELSE v.shown[k]
    BY <1>1, <2>1, <2>4, Replaced
  <2>7. u \in Windows /\ u.shown = s /\ u.bubble = i /\ Others(v, u)
    <3> HIDE DEF s
    <3>1. u \in Windows
      BY <1>1, <2>5, <2>6 DEF Windows
    <3> QED BY <1>1, <2>5, <3>1 DEF Windows, Others
  <2>8. Grown(v.shown[i], e)
    BY <2>1, <2>4 DEF Grown
  <2>9. e.kind \in Bodies /\ v.queue[n + 1].kind = DeltaOf(e.kind)
    BY <2>4 DEF Bodies, DeltaOf
  <2>10. e.ids = Append(v.shown[i].ids, v.queue[n + 1].id) /\ u.shown[i] = e /\ e.kind = v.shown[i].kind
         /\ Len(u.shown) = Len(v.shown) /\ \A k \in 1..Len(v.shown) : k # i => u.shown[k] = v.shown[k]
    BY <2>1, <2>4, <2>6, <2>7 DEF id
  <2>11. \A k \in (i + 1)..Len(v.shown) : v.shown[k].kind = e.kind => v.shown[k].ids = <<>>
    BY <2>1, <2>4
  <2> HIDE DEF e, s
  <2> QED BY <2>1, <2>4, <2>7, <2>8, <2>9, <2>10, <2>11, DrawnMore
<1> QED BY <1>1, <1>2, <1>3, <1>4 DEF NoBubble, Detached

LEMMA ThinkingDrawn ==
  ASSUME NEW v, NEW n \in Nat, Drawing(v, n), n + 1 \in 1..Len(v.queue), v.queue[n + 1].kind = "thinking",
         NEW u, u = AppendThinking(v, v.queue[n + 1].id)
  PROVE  Drawing(u, n + 1) /\ AllGrown(v, u) /\ Others(v, u)
<1> DEFINE id == v.queue[n + 1].id
           i == Len(v.shown)
<1>1. v \in Windows /\ id \in Nat /\ Len(v.shown) \in Nat /\ v.bubble \in Nat \cup {Detached} /\ v.shown \in Seq(Elements)
  BY Fields, DeltaAt DEF Drawing
<1> HIDE DEF id
<1>2. CASE ~ThinkingIsLast(v) \/ v.shown[i].done
  <2> DEFINE open == 1 <= FoldAt
             e == Element("thinking", <<id>>, open)
             s == Append(v.shown, e)
             b == v.bubble
  <2>1. u = [v EXCEPT !.shown = s, !.bubble = b]
    BY <1>1, <1>2 DEF AppendThinking, NewBlock, id, Windows
  <2>2. e \in Elements /\ open \in BOOLEAN
    BY <1>1 DEF Element, Elements
  <2>3. s \in Seq(Elements) /\ b \in Nat \cup {Detached}
    <3> HIDE DEF e
    <3>1. s \in Seq(Elements)
      BY <1>1, <2>2, Appended
    <3> QED BY <1>1, <3>1
  <2>4. u \in Windows /\ u.shown = s /\ u.bubble = b /\ Others(v, u)
    <3> HIDE DEF s, b
    <3>1. u \in Windows
      BY <1>1, <2>1, <2>3 DEF Windows
    <3> QED BY <1>1, <2>1, <3>1 DEF Windows, Others
  <2>5. DeltaOf("thinking") = "thinking" /\ "thinking" \in Bodies
    BY DEF DeltaOf, Bodies
  <2> HIDE DEF open
  <2>6. u.shown = Append(v.shown, Element("thinking", <<v.queue[n + 1].id>>, open))
    BY <2>4 DEF id
  <2> QED BY <2>2, <2>3, <2>4, <2>5, <2>6, DrawnAnew
<1>3. CASE ~(~ThinkingIsLast(v) \/ v.shown[i].done)
  <2> DEFINE old == v.shown[i]
             e == [old EXCEPT !.ids = Append(@, id), !.open = @ /\ Len(old.ids) + 1 <= FoldAt]
             s == [v.shown EXCEPT ![i] = e]
  <2>1. i \in 1..Len(v.shown) /\ old.kind = "thinking" /\ ~old.done
    BY <1>1, <1>3 DEF ThinkingIsLast
  <2>2. old \in Elements /\ old.ids \in Seq(Nat) /\ old.open \in BOOLEAN
    BY <1>1, <2>1, ElementAt
  <2>3. Append(old.ids, id) \in Seq(Nat) /\ Len(Append(old.ids, id)) = Len(old.ids) + 1 /\ Len(old.ids) \in Nat
    BY <1>1, <2>2
  <2>4. e \in Elements /\ e.kind = "thinking" /\ e.ids = Append(old.ids, id)
        /\ e.open = (old.open /\ Len(old.ids) + 1 <= FoldAt)
    <3> HIDE DEF old
    <3> QED BY <2>1, <2>2, <2>3 DEF Elements
  <2>5. u = [v EXCEPT !.shown = s, !.bubble = v.bubble]
    <3>1. u = FoldedBlock(v, id)
      BY <1>3 DEF AppendThinking, id
    <3> DEFINE more == [old EXCEPT !.ids = Append(@, id)]
               t == [v.shown EXCEPT ![i] = more]
               g == GrownBlock(v, id)
               fold == old.open /\ Len(old.ids) + 1 <= FoldAt
    <3>2. g = [v EXCEPT !.shown = t]
      BY <1>1, <2>1 DEF GrownBlock
    <3>3. more \in Elements /\ more.open = old.open
      BY <2>2, <2>3 DEF Elements
    <3>4. t \in Seq(Elements) /\ Len(t) = Len(v.shown) /\ t[i] = more
      BY <1>1, <2>1, <3>3, Replaced
    <3>5. g.shown = t /\ g = [v EXCEPT !.shown = t] /\ g.bubble = v.bubble
      BY <1>1, <3>2 DEF Windows
    <3>6. u = [g EXCEPT !.shown[i].open = @ /\ Len(old.ids) + 1 <= FoldAt]
      BY <3>1 DEF FoldedBlock
    <3>7. u = [g EXCEPT !.shown = [t EXCEPT ![i] = [more EXCEPT !.open = fold]]]
      <4> HIDE DEF g, t, more
      <4> QED BY <2>1, <3>3, <3>4, <3>5, <3>6
    <3>8. [t EXCEPT ![i] = [more EXCEPT !.open = fold]] = s
      <4>1. [more EXCEPT !.open = fold] = e
        BY <2>2, <3>3 DEF Elements
      <4> HIDE DEF more, e
      <4> QED BY <1>1, <2>1, <4>1
    <3> HIDE DEF g, t, more, s, fold
    <3>9. u = [[v EXCEPT !.shown = t] EXCEPT !.shown = s]
      BY <3>5, <3>7, <3>8, Zenon
    <3> QED BY <1>1, <3>9 DEF Windows
  <2>6. s \in Seq(Elements) /\ Len(s) = Len(v.shown) /\ \A k \in 1..Len(v.shown) : s[k] = IF k = i THEN e ELSE v.shown[k]
    BY <1>1, <2>1, <2>4, Replaced
  <2>7. u \in Windows /\ u.shown = s /\ u.bubble = v.bubble /\ Others(v, u)
    <3> HIDE DEF s
    <3>1. u \in Windows
      BY <1>1, <2>5, <2>6 DEF Windows
    <3> QED BY <1>1, <2>5, <3>1 DEF Windows, Others
  <2>8. Grown(v.shown[i], e)
    <3>1. Folded(e)
      <4> HIDE DEF e, old
      <4>1. CASE e.open
        BY <2>3, <2>4, <4>1 DEF Folded
      <4>2. CASE ~e.open
        BY <4>2 DEF Folded
      <4> QED BY <4>1, <4>2
    <3> QED BY <2>1, <2>4, <3>1 DEF Grown
  <2>9. e.kind \in Bodies /\ v.queue[n + 1].kind = DeltaOf(e.kind) /\ e.kind # "claude" /\ e.kind = v.shown[i].kind
    BY <2>1, <2>4 DEF Bodies, DeltaOf
  <2>10. (i + 1)..Len(v.shown) = {}
    BY <1>1
  <2>11. e.ids = Append(v.shown[i].ids, v.queue[n + 1].id) /\ u.shown[i] = e
    BY <2>1, <2>4, <2>6, <2>7 DEF id
  <2> HIDE DEF e, s, old, i
  <2> QED BY <2>1, <2>4, <2>6, <2>7, <2>8, <2>9, <2>10, <2>11, DrawnMore
<1> QED BY <1>2, <1>3

LEMMA Drawn ==
  ASSUME NEW v, NEW n \in Nat, Drawing(v, n), n + 1 \in 1..Len(v.queue), NEW u, u = Draw(v, v.queue[n + 1])
  PROVE  Drawing(u, n + 1) /\ AllGrown(v, u) /\ Others(v, u)
<1>1. v.queue[n + 1].kind \in {"text", "thinking"}
  BY DeltaAt DEF Drawing
<1>2. CASE v.queue[n + 1].kind = "text"
  BY <1>2, TextDrawn DEF Draw
<1>3. CASE v.queue[n + 1].kind = "thinking"
  BY <1>3, ThinkingDrawn DEF Draw
<1> QED BY <1>1, <1>2, <1>3

\* What the first n deltas of the queue have made of the window.
Recorded(v, f, m) == f = [n \in 0..m |-> IF n = 0 THEN v ELSE Draw(f[n - 1], v.queue[n])]

LEMMA RecordedLonger ==
  ASSUME NEW v, NEW m \in Nat, NEW f, Recorded(v, f, m)
  PROVE  \E g : Recorded(v, g, m + 1)
<1> DEFINE g == [n \in 0..(m + 1) |-> IF n = m + 1 THEN Draw(f[m], v.queue[m + 1]) ELSE f[n]]
           h == [n \in 0..(m + 1) |-> IF n = 0 THEN v ELSE Draw(g[n - 1], v.queue[n])]
<1>1. \A n \in 0..m : f[n] = IF n = 0 THEN v ELSE Draw(f[n - 1], v.queue[n])
  BY Zenon DEF Recorded
<1>2. \A n \in 0..(m + 1) : g[n] = IF n = m + 1 THEN Draw(f[m], v.queue[m + 1]) ELSE f[n]
  OBVIOUS
<1>3. ASSUME NEW n \in 0..(m + 1) PROVE g[n] = IF n = 0 THEN v ELSE Draw(g[n - 1], v.queue[n])
  <2> HIDE DEF g
  <2>1. CASE n = 0
    BY <1>1, <1>2, <2>1
  <2>2. CASE n = m + 1
    <3>1. m \in 0..(m + 1) /\ m # m + 1 /\ n - 1 = m /\ n # 0
      BY <2>2
    <3>2. g[m] = f[m]
      BY <1>2, <3>1
    <3> QED BY <1>2, <2>2, <3>1, <3>2
  <2>3. CASE n \in 1..m
    <3>1. n \in 0..m /\ n - 1 \in 0..(m + 1) /\ n # m + 1 /\ n - 1 # m + 1 /\ n # 0
      BY <2>3
    <3>2. g[n] = f[n] /\ g[n - 1] = f[n - 1] /\ f[n] = Draw(f[n - 1], v.queue[n])
      BY <1>1, <1>2, <3>1
    <3> QED BY <3>1, <3>2
  <2> QED BY <2>1, <2>2, <2>3
<1>4. g = h
  <2>1. g = [n \in 0..(m + 1) |-> g[n]]
    OBVIOUS
  <2> HIDE DEF g
  <2> QED BY <1>3, <2>1
<1> QED BY <1>4 DEF Recorded

LEMMA QueueRecorded ==
  ASSUME NEW v, Len(v.queue) \in Nat
  PROVE  \E f : Recorded(v, f, Len(v.queue)) /\ DrawQueue(v) = f[Len(v.queue)]
<1> DEFINE m == Len(v.queue)
           S == {n \in 0..m : \E f : Recorded(v, f, n)}
<1>1. 0 \in S
  <2> DEFINE f == [n \in 0..0 |-> v]
  <2>1. f = [n \in 0..0 |-> IF n = 0 THEN v ELSE Draw(f[n - 1], v.queue[n])]
    OBVIOUS
  <2>2. Recorded(v, f, 0)
    BY <2>1 DEF Recorded
  <2> QED BY <2>2
<1>2. \A n \in 0..(m - 1) : n \in S => n + 1 \in S
  BY RecordedLonger
<1>3. S = 0..m
  <2>1. S \in SUBSET (0..m)
    OBVIOUS
  <2> HIDE DEF S
  <2> QED BY <1>1, <1>2, <2>1, Walk
<1>4. PICK f : Recorded(v, f, m)
  BY <1>3
<1> DEFINE g == CHOOSE d : d = [n \in 0..Len(v.queue) |-> IF n = 0 THEN v ELSE Draw(d[n - 1], v.queue[n])]
<1>5. Recorded(v, g, m)
  <2>1. f = [n \in 0..Len(v.queue) |-> IF n = 0 THEN v ELSE Draw(f[n - 1], v.queue[n])]
    BY <1>4, Zenon DEF Recorded
  <2>2. g = [n \in 0..Len(v.queue) |-> IF n = 0 THEN v ELSE Draw(g[n - 1], v.queue[n])]
    BY <2>1
  <2> HIDE DEF g
  <2> QED BY <2>2, Zenon DEF Recorded
<1>6. DrawQueue(v) = g[m]
  BY DEF DrawQueue
<1> QED BY <1>5, <1>6

LEMMA QueueDrawn ==
  ASSUME NEW v, Drawing(v, 0), NEW u, u = DrawQueue(v)
  PROVE  Drawing(u, Len(v.queue)) /\ AllGrown(v, u) /\ Others(v, u)
<1> DEFINE m == Len(v.queue)
<1>1. v \in Windows /\ m \in Nat
  BY Fields DEF Drawing
<1>2. PICK f : Recorded(v, f, m) /\ u = f[m]
  BY <1>1, QueueRecorded
<1>3. \A n \in 0..m : f[n] = IF n = 0 THEN v ELSE Draw(f[n - 1], v.queue[n])
  BY <1>2, Zenon DEF Recorded
<1> DEFINE S == {n \in 0..m : Drawing(f[n], n) /\ AllGrown(v, f[n]) /\ Others(v, f[n])}
<1>4. 0 \in S
  <2>1. f[0] = v
    BY <1>1, <1>3
  <2>2. AllGrown(v, v) /\ Others(v, v)
    BY Skipped
  <2> QED BY <1>1, <2>1, <2>2
<1>5. ASSUME NEW n \in 0..(m - 1), n \in S PROVE n + 1 \in S
  <2>1. n + 1 \in 0..m /\ n + 1 # 0 /\ n + 1 - 1 = n /\ n \in Nat /\ n + 1 \in 1..m
    BY <1>1
  <2>2. f[n + 1] = Draw(f[n], v.queue[n + 1])
    BY <1>3, <2>1
  <2>3. Drawing(f[n], n) /\ AllGrown(v, f[n]) /\ Others(v, f[n]) /\ f[n].queue = v.queue
    BY <1>5 DEF Others
  <2>4. Drawing(f[n + 1], n + 1) /\ AllGrown(f[n], f[n + 1]) /\ Others(f[n], f[n + 1])
    BY <2>1, <2>2, <2>3, Drawn
  <2>5. f[n] \in Windows /\ f[n + 1] \in Windows
    BY <2>3, <2>4 DEF Drawing
  <2>6. AllGrown(v, f[n + 1])
    BY <1>1, <2>3, <2>4, <2>5, AllGrownTwice
  <2>7. Others(v, f[n + 1])
    BY <2>3, <2>4 DEF Others
  <2> QED BY <2>1, <2>4, <2>6, <2>7
<1>6. S = 0..m
  <2>1. S \in SUBSET (0..m)
    OBVIOUS
  <2> HIDE DEF S
  <2> QED BY <1>1, <1>4, <1>5, <2>1, Walk
<1>7. m \in S
  BY <1>1, <1>6
<1> QED BY <1>2, <1>7

-----------------------------------------------------------------------------
(* The functions of the window *)

LEMMA SteadyFields == ASSUME NEW v, Steady(v) PROVE v \in Windows /\ Drawing(v, 0)
BY DEF Steady, Drawing

LEMMA FollowsTwice ==
  ASSUME NEW v, Steady(v), NEW u, Follows(v, u), NEW x, Follows(u, x)
  PROVE  Follows(v, x)
<1>1. v \in Windows /\ u \in Windows /\ x \in Windows
  BY SteadyFields DEF Follows
<1>2. AllGrown(v, x)
  BY <1>1, AllGrownTwice DEF Follows
<1>3. Rest(v, x)
  BY DEF Follows, Rest
<1> QED BY <1>2, <1>3 DEF Follows

\* What leaves the elements alone, and the queue unless it empties it.
LEMMA SameShown ==
  ASSUME NEW v, Steady(v), NEW u \in Windows, u.shown = v.shown, u.bubble \in {v.bubble, NoBubble},
         u.queue # <<>> => u.queue = v.queue /\ u.frame = v.frame,
         u.arrived >= v.arrived
  PROVE  Steady(u) /\ AllGrown(v, u) /\ (u.arrived > v.arrived => NoneYet(u))
<1>1. v \in Windows /\ Drawing(v, 0) /\ Len(v.shown) \in Nat /\ v.arrived \in Nat /\ u.arrived \in Nat
  BY SteadyFields, Fields
<1>2. BubbleFits(u)
  BY <1>1 DEF BubbleFits, Drawing, NoBubble
<1>3. Ordered(u) /\ AllGrown(v, u)
  BY <1>1, GrownSame DEF Drawing, Ordered, InElements, AllGrown
<1>4. \A i \in 1..Len(u.shown) : \A m \in Range(u.shown[i].ids) : m \in 1..v.arrived
  BY <1>1 DEF Drawing, Numbered
<1>5. \A k \in 1..Len(u.queue) : u.queue[k].id \in 1..v.arrived
  <2>1. CASE u.queue = <<>>
    BY <2>1
  <2>2. CASE u.queue = v.queue
    BY <1>1, <2>2 DEF Drawing, Numbered
  <2> QED BY <2>1, <2>2
<1>6. Behind(u, 0) /\ InLine(u)
  <2>1. CASE u.queue = <<>>
    BY <2>1 DEF Behind, InLine
  <2>2. CASE u.queue = v.queue
    BY <1>1, <2>2 DEF Drawing, Behind, InLine
  <2> QED BY <2>1, <2>2
<1>7. Numbered(u)
  <2>1. \A m \in 1..v.arrived : m \in 1..u.arrived
    BY <1>1
  <2> QED BY <1>4, <1>5, <2>1 DEF Numbered
<1>8. ASSUME u.arrived > v.arrived PROVE NoneYet(u)
  <2>1. \A m \in 1..v.arrived : m < u.arrived
    BY <1>1, <1>8
  <2> QED BY <1>4, <1>5, <2>1 DEF NoneYet
<1>9. u.queue # <<>> => u.frame
  BY DEF Steady
<1> QED BY <1>2, <1>3, <1>6, <1>7, <1>8, <1>9 DEF Steady, Drawing

LEMMA StatusSet ==
  ASSUME NEW v, Steady(v), NEW text \in Statuses, NEW u, u = UpdateStatus(v, text)
  PROVE  Follows(v, u)
<1>1. v \in Windows
  BY SteadyFields
<1>2. u \in Windows
  BY <1>1 DEF UpdateStatus, Windows
<1>3. u.shown = v.shown /\ u.bubble = v.bubble /\ u.queue = v.queue /\ u.frame = v.frame /\ Rest(v, u)
  BY <1>1 DEF UpdateStatus, Windows, Rest
<1>4. u.arrived >= v.arrived
  BY <1>1, <1>3, Fields DEF Rest
<1> QED BY <1>2, <1>3, <1>4, SameShown DEF Follows

LEMMA SendingSet ==
  ASSUME NEW v, Steady(v), NEW on \in BOOLEAN, NEW u, u = SetSending(v, on)
  PROVE  Follows(v, u)
<1>1. v \in Windows
  BY SteadyFields
<1> DEFINE text == IF on THEN "thinking" ELSE IF v.session THEN "connected" ELSE "none"
<1>2. u = [v EXCEPT !.sending = on, !.stopIcon = on, !.disabled = on, !.status = text]
  BY <1>1 DEF SetSending, UpdateStatus, Windows
<1>3. text \in Statuses
  BY DEF Statuses, Kinds
<1> HIDE DEF text
<1>4. u \in Windows
  BY <1>1, <1>2, <1>3 DEF Windows
<1>5. u.shown = v.shown /\ u.bubble = v.bubble /\ u.queue = v.queue /\ u.frame = v.frame /\ Rest(v, u)
  BY <1>1, <1>2 DEF Windows, Rest
<1>6. u.arrived >= v.arrived
  BY <1>1, <1>5, Fields DEF Rest
<1> QED BY <1>4, <1>5, <1>6, SameShown DEF Follows

LEMMA Aborted ==
  ASSUME NEW v, Steady(v), NEW u, u = Abort(v)
  PROVE  Follows(v, u)
<1>1. v \in Windows
  BY SteadyFields
<1> DEFINE still == v.polling /\ ~v.sseRequest
<1>2. still \in BOOLEAN /\ u = [v EXCEPT !.polling = still, !.sseRequest = FALSE]
  BY <1>1 DEF Abort, Windows
<1>3. (still => v.polling) /\ u \in Windows
  <2>1. still => v.polling
    OBVIOUS
  <2> HIDE DEF still
  <2> QED BY <1>1, <1>2, <2>1 DEF Windows
<1>4. u.shown = v.shown /\ u.bubble = v.bubble /\ u.queue = v.queue /\ u.frame = v.frame /\ Rest(v, u)
  <2> HIDE DEF still
  <2> QED BY <1>1, <1>2, <1>3 DEF Windows, Rest
<1>5. u.arrived >= v.arrived
  BY <1>1, <1>4, Fields DEF Rest
<1> QED BY <1>3, <1>4, <1>5, SameShown DEF Follows

LEMMA BubbleDropped ==
  ASSUME NEW v, Steady(v), NEW u, u = [v EXCEPT !.bubble = NoBubble]
  PROVE  Follows(v, u)
<1>1. v \in Windows
  BY SteadyFields
<1>2. u \in Windows
  BY <1>1 DEF NoBubble, Windows
<1>3. u.shown = v.shown /\ u.bubble = NoBubble /\ u.queue = v.queue /\ u.frame = v.frame /\ Rest(v, u)
  BY <1>1 DEF Windows, Rest
<1>4. u.arrived >= v.arrived
  BY <1>1, <1>3, Fields DEF Rest
<1> QED BY <1>2, <1>3, <1>4, SameShown DEF Follows

LEMMA SessionLeft ==
  ASSUME NEW v, Steady(v), NEW on \in BOOLEAN, NEW u, u = [v EXCEPT !.session = on]
  PROVE  Follows(v, u)
<1>1. v \in Windows
  BY SteadyFields
<1>2. u \in Windows
  BY <1>1 DEF Windows
<1>3. u.shown = v.shown /\ u.bubble = v.bubble /\ u.queue = v.queue /\ u.frame = v.frame /\ Rest(v, u)
  BY <1>1 DEF Windows, Rest
<1>4. u.arrived >= v.arrived
  BY <1>1, <1>3, Fields DEF Rest
<1> QED BY <1>2, <1>3, <1>4, SameShown DEF Follows

LEMMA BuffersReset ==
  ASSUME NEW v, Steady(v), NEW u, u = ResetStreamBuffers(v)
  PROVE  Follows(v, u)
<1>1. v \in Windows
  BY SteadyFields
<1>2. <<>> \in Seq(Nat) /\ <<>> \in Seq(Deltas)
  OBVIOUS
<1>3. u \in Windows
  BY <1>1, <1>2 DEF ResetStreamBuffers, Windows
<1>4. u.shown = v.shown /\ u.bubble = v.bubble /\ u.queue = <<>> /\ Rest(v, u)
  BY <1>1 DEF ResetStreamBuffers, Windows, Rest
<1>5. u.arrived >= v.arrived
  BY <1>1, <1>4, Fields DEF Rest
<1> QED BY <1>3, <1>4, <1>5, SameShown DEF Follows

LEMMA Flushed ==
  ASSUME NEW v, Steady(v), NEW u, u = FlushDeltas(v)
  PROVE  Follows(v, u)
<1>1. v \in Windows /\ Drawing(v, 0)
  BY SteadyFields
<1> DEFINE d == DrawQueue(v)
           m == Len(v.queue)
<1>2. Drawing(d, m) /\ AllGrown(v, d) /\ Others(v, d)
  BY <1>1, QueueDrawn
<1>3. u = [d EXCEPT !.queue = <<>>, !.frame = FALSE]
  BY DEF FlushDeltas
<1> HIDE DEF d, m
<1>4. d \in Windows /\ <<>> \in Seq(Deltas)
  BY <1>2 DEF Drawing
<1>5. u \in Windows
  BY <1>3, <1>4 DEF Windows
<1>6. u.shown = d.shown /\ u.bubble = d.bubble /\ u.queue = <<>> /\ u.arrived = v.arrived /\ Rest(v, u)
  BY <1>2, <1>3, <1>4 DEF Windows, Others, Rest
<1>7. BubbleFits(u) /\ Ordered(u) /\ AllGrown(v, u)
  BY <1>2, <1>6 DEF Drawing, BubbleFits, Ordered, InElements, AllGrown
<1>8. Behind(u, 0) /\ InLine(u)
  BY <1>6 DEF Behind, InLine
<1>9. Numbered(u)
  <2>1. d.arrived = v.arrived
    BY <1>2 DEF Others
  <2>2. \A i \in 1..Len(u.shown) : \A o \in Range(u.shown[i].ids) : o \in 1..u.arrived
    BY <1>2, <1>6, <2>1 DEF Drawing, Numbered
  <2> QED BY <1>6, <2>2 DEF Numbered
<1> QED BY <1>5, <1>6, <1>7, <1>8, <1>9 DEF Follows, Steady, Drawing

LEMMA MessageAdded ==
  ASSUME NEW v, Steady(v), NEW kind \in {"user", "claude", "note", "tool"}, NEW u, u = AddMessage(v, kind)
  PROVE  Follows(v, u)
<1> DEFINE e == Element(kind, <<>>, FALSE)
           s == Append(v.shown, e)
           i == Len(v.shown) + 1
<1>1. v \in Windows /\ Drawing(v, 0) /\ Len(v.shown) \in Nat
  BY SteadyFields, Fields
<1>2. <<>> \in Seq(Nat) /\ kind \in {"user", "claude", "note", "tool", "thinking"}
  OBVIOUS
<1>3. e \in Elements /\ e.ids = <<>> /\ e.kind = kind
  BY <1>2 DEF Element, Elements
<1> HIDE DEF e
<1>4. s \in Seq(Elements)
  BY <1>1, <1>3, Appended
<1>5. u = [v EXCEPT !.shown = s]
  BY DEF AddMessage, e
<1> HIDE DEF s
<1>6. u \in Windows
  BY <1>1, <1>4, <1>5 DEF Windows
<1>7. u.shown = s /\ u.bubble = v.bubble /\ u.queue = v.queue /\ u.frame = v.frame /\ u.arrived = v.arrived /\ Rest(v, u)
  BY <1>1, <1>5 DEF Windows, Rest
<1>8. /\ AllGrown(v, u) /\ Len(u.shown) = i /\ u.shown[i] = e
      /\ \A k \in 1..Len(v.shown) : u.shown[k] = v.shown[k]
  BY <1>1, <1>3, <1>6, <1>7, NewElement DEF s
<1>9. \A k \in 1..Len(u.shown) : k \in 1..Len(v.shown) \/ k = i
  BY <1>1, <1>8
<1>10. BubbleFits(u)
  <2> SUFFICES ASSUME v.bubble > 0
               PROVE  /\ v.bubble <= Len(u.shown) /\ u.shown[v.bubble].kind = "claude"
                      /\ \A k \in (v.bubble + 1)..Len(u.shown) : u.shown[k].kind = "claude" => u.shown[k].ids = <<>>
    BY <1>7 DEF BubbleFits
  <2>1. /\ v.bubble \in 1..Len(v.shown) /\ v.shown[v.bubble].kind = "claude"
        /\ \A k \in (v.bubble + 1)..Len(v.shown) : v.shown[k].kind = "claude" => v.shown[k].ids = <<>>
    BY <1>1, BubblePlace DEF Drawing
  <2>2. v.bubble <= Len(u.shown) /\ u.shown[v.bubble].kind = "claude"
    BY <1>1, <1>8, <2>1
  <2>3. ASSUME NEW k \in (v.bubble + 1)..Len(u.shown), u.shown[k].kind = "claude" PROVE u.shown[k].ids = <<>>
    <3>1. CASE k = i
      BY <1>3, <1>8, <3>1
    <3>2. CASE k # i
      <4>1. k \in (v.bubble + 1)..Len(v.shown) /\ k \in 1..Len(v.shown)
        BY <1>1, <1>8, <2>1, <3>2
      <4> QED BY <1>8, <2>1, <2>3, <4>1
    <3> QED BY <3>1, <3>2
  <2> QED BY <2>2, <2>3, Zenon
<1>11. \A k \in 1..Len(u.shown) : u.shown[k].ids # <<>> => k \in 1..Len(v.shown) /\ u.shown[k] = v.shown[k]
  BY <1>3, <1>8, <1>9
<1>12. Ordered(u)
  <2> SUFFICES ASSUME NEW body \in Bodies, NEW a \in 1..Len(u.shown), NEW b \in 1..Len(u.shown),
                      u.shown[a].kind = body, u.shown[b].kind = body
               PROVE  /\ Increasing(u.shown[a].ids)
                      /\ a < b => \A m \in Range(u.shown[a].ids), o \in Range(u.shown[b].ids) : m < o
    BY DEF Ordered, InElements
  <2>1. Increasing(u.shown[a].ids)
    <3>1. CASE u.shown[a].ids = <<>>
      BY <3>1 DEF Increasing
    <3>2. CASE u.shown[a].ids # <<>>
      BY <1>1, <1>11, <3>2 DEF Drawing, Ordered, InElements
    <3> QED BY <3>1, <3>2
  <2>2. ASSUME a < b, NEW m \in Range(u.shown[a].ids), NEW o \in Range(u.shown[b].ids) PROVE m < o
    <3>1. u.shown[a].ids # <<>> /\ u.shown[b].ids # <<>>
      BY <2>2, RangeEmpty
    <3> QED BY <1>1, <1>11, <2>2, <3>1 DEF Drawing, Ordered, InElements
  <2> QED BY <2>1, <2>2
<1>13. Behind(u, 0)
  <2> SUFFICES ASSUME NEW k \in (0 + 1)..Len(v.queue), NEW a \in 1..Len(u.shown),
                      u.shown[a].kind \in Bodies, v.queue[k].kind = DeltaOf(u.shown[a].kind),
                      NEW m \in Range(u.shown[a].ids)
               PROVE  m < v.queue[k].id
    BY <1>7 DEF Behind
  <2>1. u.shown[a].ids # <<>>
    BY RangeEmpty
  <2> QED BY <1>1, <1>11, <2>1 DEF Drawing, Behind
<1>14. InLine(u)
  BY <1>1, <1>7 DEF Drawing, InLine
<1>15. Numbered(u)
  <2>1. ASSUME NEW a \in 1..Len(u.shown), NEW m \in Range(u.shown[a].ids) PROVE m \in 1..u.arrived
    <3>1. u.shown[a].ids # <<>>
      BY <2>1, RangeEmpty
    <3> QED BY <1>1, <1>7, <1>11, <2>1, <3>1 DEF Drawing, Numbered
  <2> QED BY <1>1, <1>7, <2>1 DEF Drawing, Numbered
<1> QED BY <1>6, <1>7, <1>8, <1>10, <1>12, <1>13, <1>14, <1>15 DEF Follows, Steady, Drawing

\* What may change in elements beside what they show.
LEMMA SameElements ==
  ASSUME NEW v, Steady(v), NEW u \in Windows, u.bubble = v.bubble, u.queue = v.queue, u.frame = v.frame,
         u.arrived = v.arrived, Len(u.shown) = Len(v.shown),
         \A k \in 1..Len(v.shown) : u.shown[k].kind = v.shown[k].kind /\ u.shown[k].ids = v.shown[k].ids
  PROVE  Steady(u)
<1>1. v \in Windows /\ Drawing(v, 0) /\ Len(v.shown) \in Nat /\ v.bubble \in Nat \cup {Detached}
  BY SteadyFields, Fields
<1>2. BubbleFits(u)
  <2> SUFFICES ASSUME v.bubble > 0
               PROVE  /\ v.bubble <= Len(u.shown) /\ u.shown[v.bubble].kind = "claude"
                      /\ \A k \in (v.bubble + 1)..Len(u.shown) : u.shown[k].kind = "claude" => u.shown[k].ids = <<>>
    BY DEF BubbleFits
  <2>1. /\ v.bubble \in 1..Len(v.shown) /\ v.shown[v.bubble].kind = "claude"
        /\ \A k \in (v.bubble + 1)..Len(v.shown) : v.shown[k].kind = "claude" => v.shown[k].ids = <<>>
    BY <1>1, BubblePlace DEF Drawing
  <2>2. \A k \in (v.bubble + 1)..Len(v.shown) : k \in 1..Len(v.shown)
    BY <1>1, <2>1
  <2>3. v.bubble <= Len(u.shown) /\ u.shown[v.bubble].kind = "claude"
    BY <1>1, <2>1
  <2>4. \A k \in (v.bubble + 1)..Len(u.shown) : u.shown[k].kind = "claude" => u.shown[k].ids = <<>>
    BY <2>1, <2>2
  <2> QED BY <2>3, <2>4, Zenon
<1>3. Ordered(u)
  BY <1>1 DEF Drawing, Ordered, InElements
<1>4. Behind(u, 0) /\ InLine(u)
  BY <1>1 DEF Drawing, Behind, InLine
<1>5. Numbered(u)
  BY <1>1 DEF Drawing, Numbered
<1>6. u.queue # <<>> => u.frame
  BY DEF Steady
<1> QED BY <1>2, <1>3, <1>4, <1>5, <1>6 DEF Steady, Drawing

LEMMA ThinkingFinalized ==
  ASSUME NEW v, Steady(v), NEW u, u = FinalizeThinking(v)
  PROVE  Follows(v, u)
<1> DEFINE i == Len(v.shown)
           old == v.shown[i]
           e == [old EXCEPT !.done = TRUE, !.open = Len(old.ids) <= FoldAt]
           s == [v.shown EXCEPT ![i] = e]
<1>1. v \in Windows /\ Drawing(v, 0) /\ Len(v.shown) \in Nat /\ v.shown \in Seq(Elements) /\ v.bubble \in Nat \cup {Detached}
  BY SteadyFields, Fields
<1>2. CASE ~ThinkingIsLast(v) \/ old.done
  <2>1. u = v
    BY <1>2 DEF FinalizeThinking
  <2>2. AllGrown(v, v)
    BY <1>1, Skipped
  <2>3. Rest(v, v)
    BY DEF Rest
  <2> QED BY <2>1, <2>2, <2>3 DEF Follows
<1>3. CASE ~(~ThinkingIsLast(v) \/ old.done)
  <2>1. i \in 1..Len(v.shown) /\ old.kind = "thinking" /\ ~old.done
    BY <1>1, <1>3 DEF ThinkingIsLast
  <2>2. old \in Elements
    BY <1>1, <2>1, ElementAt
  <2>3. e \in Elements /\ e.kind = "thinking" /\ e.ids = old.ids /\ e.open = (Len(old.ids) <= FoldAt)
    <3> DEFINE few == Len(old.ids) <= FoldAt
    <3>1. e = [old EXCEPT !.done = TRUE, !.open = few] /\ few \in BOOLEAN
      OBVIOUS
    <3> HIDE DEF old, few, e
    <3>2. e \in Elements /\ e.kind = "thinking" /\ e.ids = old.ids /\ e.open = few
      BY <2>1, <2>2, <3>1 DEF Elements
    <3> QED BY <3>2 DEF few
  <2>4. u = [v EXCEPT !.shown = s]
    BY <1>1, <1>3, <2>1 DEF FinalizeThinking
  <2>5. s \in Seq(Elements) /\ Len(s) = Len(v.shown) /\ \A k \in 1..Len(v.shown) : s[k] = IF k = i THEN e ELSE v.shown[k]
    BY <1>1, <2>1, <2>3, Replaced
  <2>6. Grown(old, e)
    <3> HIDE DEF e, old
    <3> QED BY <2>1, <2>3 DEF Grown, Folded
  <2> HIDE DEF e, s
  <2>7. u \in Windows
    BY <1>1, <2>4, <2>5 DEF Windows
  <2>8. u.shown = s /\ u.bubble = v.bubble /\ u.queue = v.queue /\ u.frame = v.frame /\ u.arrived = v.arrived /\ Rest(v, u)
    BY <1>1, <2>4 DEF Windows, Rest
  <2>9. Len(u.shown) = Len(v.shown)
        /\ \A k \in 1..Len(v.shown) : u.shown[k].kind = v.shown[k].kind /\ u.shown[k].ids = v.shown[k].ids
    BY <2>1, <2>3, <2>5, <2>8
  <2>10. AllGrown(v, u)
    BY <1>1, <2>1, <2>5, <2>6, <2>7, <2>8, OtherElement
  <2> HIDE DEF i, old
  <2>11. Steady(u)
    BY <2>7, <2>8, <2>9, SameElements
  <2> QED BY <2>8, <2>10, <2>11 DEF Follows
<1> QED BY <1>2, <1>3

LEMMA Enqueued ==
  ASSUME NEW v, Steady(v), NoneYet(v), v.arrived > 0, NEW kind \in {"text", "thinking"}, NEW u, u = Enqueue(v, kind)
  PROVE  Follows(v, u)
<1> DEFINE delta == [kind |-> kind, id |-> v.arrived]
           q == Append(v.queue, delta)
           n == Len(v.queue)
<1>1. v \in Windows /\ Drawing(v, 0) /\ v.arrived \in Nat /\ n \in Nat /\ v.queue \in Seq(Deltas) /\ Len(v.shown) \in Nat
  BY SteadyFields, Fields
<1>2. delta \in Deltas /\ delta.id = v.arrived /\ delta.kind = kind
  BY <1>1 DEF Deltas
<1>3. u = [v EXCEPT !.queue = q, !.frame = TRUE]
  BY DEF Enqueue
<1> HIDE DEF delta
<1>4. q \in Seq(Deltas) /\ Len(q) = n + 1 /\ q[n + 1] = delta /\ \A k \in 1..n : q[k] = v.queue[k]
  BY <1>1, <1>2
<1> HIDE DEF q
<1>5. u \in Windows
  BY <1>1, <1>3, <1>4 DEF Windows
<1>6. u.shown = v.shown /\ u.bubble = v.bubble /\ u.queue = q /\ u.frame = TRUE /\ u.arrived = v.arrived /\ Rest(v, u)
  BY <1>1, <1>3 DEF Windows, Rest
<1>7. AllGrown(v, u) /\ BubbleFits(u) /\ Ordered(u)
  BY <1>1, <1>6, GrownSame DEF AllGrown, Drawing, BubbleFits, Ordered, InElements
<1>8. \A k \in 1..Len(q) : (k \in 1..n /\ q[k] = v.queue[k]) \/ (k = n + 1 /\ q[k] = delta)
  BY <1>1, <1>4
<1>9. Behind(u, 0)
  <2> SUFFICES ASSUME NEW k \in 1..Len(q), NEW i \in 1..Len(v.shown), v.shown[i].kind \in Bodies,
                      q[k].kind = DeltaOf(v.shown[i].kind), NEW m \in Range(v.shown[i].ids)
               PROVE  m < q[k].id
    BY <1>6 DEF Behind
  <2>1. CASE k \in 1..n /\ q[k] = v.queue[k]
    BY <1>1, <2>1 DEF Drawing, Behind
  <2>2. CASE k = n + 1 /\ q[k] = delta
    BY <1>2, <2>2 DEF NoneYet
  <2> QED BY <1>8, <2>1, <2>2
<1>10. InLine(u)
  <2> SUFFICES ASSUME NEW i \in 1..Len(q), NEW k \in 1..Len(q), i < k, q[i].kind = q[k].kind
               PROVE  q[i].id < q[k].id
    BY <1>6 DEF InLine
  <2>1. i \in 1..n /\ q[i] = v.queue[i]
    BY <1>1, <1>4
  <2>2. CASE k \in 1..n /\ q[k] = v.queue[k]
    BY <1>1, <2>1, <2>2 DEF Drawing, InLine
  <2>3. CASE k = n + 1 /\ q[k] = delta
    BY <1>2, <2>1, <2>3 DEF NoneYet
  <2> QED BY <1>8, <2>2, <2>3
<1>11. Numbered(u)
  <2>1. \A k \in 1..Len(q) : q[k].id \in 1..v.arrived
    BY <1>1, <1>2, <1>8 DEF Drawing, Numbered
  <2> QED BY <1>1, <1>6, <2>1 DEF Drawing, Numbered
<1> QED BY <1>5, <1>6, <1>7, <1>9, <1>10, <1>11 DEF Follows, Steady, Drawing

-----------------------------------------------------------------------------
(* An event *)

LEMMA ResultEnded ==
  ASSUME NEW v, Steady(v), NEW u, u = EndOfResult(v)
  PROVE  Follows(v, u)
<1> DEFINE a == FinalizeThinking(v)
           b == [a EXCEPT !.bubble = NoBubble]
           c == FlushDeltas(b)
           d == ResetStreamBuffers(c)
<1>1. Follows(v, a)
  BY ThinkingFinalized
<1> HIDE DEF a
<1>2. Follows(a, b)
  BY <1>1, BubbleDropped DEF Follows
<1> HIDE DEF b
<1>3. Follows(b, c)
  BY <1>2, Flushed DEF Follows
<1> HIDE DEF c
<1>4. Follows(c, d)
  BY <1>3, BuffersReset DEF Follows
<1> HIDE DEF d
<1>5. u = SetSending(d, FALSE)
  BY DEF EndOfResult, a, b, c, d
<1>6. Follows(d, u)
  BY <1>4, <1>5, SendingSet DEF Follows
<1>7. Follows(v, b)
  BY <1>1, <1>2, FollowsTwice
<1>8. Follows(v, c)
  BY <1>3, <1>7, FollowsTwice
<1>9. Follows(v, d)
  BY <1>4, <1>8, FollowsTwice
<1> QED BY <1>6, <1>9, FollowsTwice

LEMMA Handled ==
  ASSUME NEW v, Steady(v), NoneYet(v), v.arrived > 0, NEW kind \in Kinds, NEW u, u = HandleSSEEvent(v, kind)
  PROVE  Follows(v, u)
<1>1. CASE kind \in {"text", "thinking"}
  BY <1>1, Enqueued DEF HandleSSEEvent
<1>2. CASE kind = "tool"
  BY <1>2, MessageAdded DEF HandleSSEEvent, AppendTool
<1>3. CASE kind = "complete"
  <2> DEFINE a == FinalizeThinking(v)
  <2>1. Follows(v, a)
    BY ThinkingFinalized
  <2>2. u = [a EXCEPT !.bubble = NoBubble]
    BY <1>3 DEF HandleSSEEvent
  <2> HIDE DEF a
  <2>3. Follows(a, u)
    BY <2>1, <2>2, BubbleDropped DEF Follows
  <2> QED BY <2>1, <2>3, FollowsTwice
<1>4. CASE kind = "result"
  BY <1>4, ResultEnded DEF HandleSSEEvent
<1>5. CASE kind = "failed"
  <2> DEFINE a == EndOfResult(v)
  <2>1. Follows(v, a)
    BY ResultEnded
  <2>2. u = AddMessage(a, "note")
    BY <1>5 DEF HandleSSEEvent
  <2> HIDE DEF a
  <2>3. Follows(a, u)
    BY <2>1, <2>2, MessageAdded DEF Follows
  <2> QED BY <2>1, <2>3, FollowsTwice
<1>6. CASE kind \in {"error", "closed"}
  <2> DEFINE a == AddMessage(v, "note")
             b == SetSending(a, FALSE)
             c == Abort(b)
             d == [c EXCEPT !.session = FALSE]
             e == UpdateStatus(d, "cut")
  <2>1. u = IF kind = "error" THEN b ELSE e
    BY <1>6 DEF HandleSSEEvent
  <2>2. Follows(v, a)
    BY MessageAdded
  <2> HIDE DEF a
  <2>3. Follows(a, b)
    BY <2>2, SendingSet DEF Follows
  <2> HIDE DEF b
  <2>4. Follows(b, c)
    BY <2>3, Aborted DEF Follows
  <2> HIDE DEF c
  <2>5. Follows(c, d)
    BY <2>4, SessionLeft DEF Follows
  <2> HIDE DEF d
  <2>6. Follows(d, e)
    <3>1. "cut" \in Statuses
      BY DEF Statuses
    <3> QED BY <2>5, <3>1, StatusSet DEF Follows
  <2> HIDE DEF e
  <2>7. Follows(v, b)
    BY <2>2, <2>3, FollowsTwice
  <2>8. Follows(v, c)
    BY <2>4, <2>7, FollowsTwice
  <2>9. Follows(v, d)
    BY <2>5, <2>8, FollowsTwice
  <2>10. Follows(v, e)
    BY <2>6, <2>9, FollowsTwice
  <2> QED BY <2>1, <2>7, <2>10
<1> QED BY <1>1, <1>2, <1>3, <1>4, <1>5, <1>6 DEF Kinds

-----------------------------------------------------------------------------
(* A chunk of a response *)

\* How many rows are too many, and what remains without the oldest ones.
Surplus(n) == IF n > DebugRows THEN n - DebugRows ELSE 0
Shifted(rows) == SubSeq(rows, Surplus(Len(rows)) + 1, Len(rows))

LEMMA RowCount ==
  ASSUME NEW a \in Nat, NEW n \in Nat, n = Capped(a)
  PROVE  Surplus(n + 1) \in Nat /\ Surplus(n + 1) <= n + 1 /\ (n + 1) - Surplus(n + 1) = Capped(a + 1)
<1>0. DebugRows \in Nat
  BY TranscriptAssumption
<1>1. CASE a < DebugRows
  BY <1>0, <1>1 DEF Capped, Surplus
<1>2. CASE ~(a < DebugRows)
  <2>1. n = DebugRows /\ n + 1 > DebugRows /\ ~(a + 1 < DebugRows)
    BY <1>0, <1>2 DEF Capped
  <2> QED BY <1>0, <2>1 DEF Capped, Surplus
<1> QED BY <1>1, <1>2

LEMMA TailOf ==
  ASSUME NEW all \in Seq(Nat), NEW x \in Nat, x <= Len(all)
  PROVE  /\ SubSeq(all, x + 1, Len(all)) \in Seq(Nat) /\ Len(SubSeq(all, x + 1, Len(all))) = Len(all) - x
         /\ \A i \in 1..(Len(all) - x) : SubSeq(all, x + 1, Len(all))[i] = all[x + i]
<1> DEFINE m == Len(all)
<1>1. m \in Nat /\ \A i \in 1..m : all[i] \in Nat
  OBVIOUS
<1>2. x + 1 \in Int /\ m \in Int /\ \A i \in (x + 1)..m : i \in 1..m
  BY <1>1
<1>3. \A i \in (x + 1)..m : all[i] \in Nat
  BY <1>1, <1>2
<1>4. /\ SubSeq(all, x + 1, m) \in Seq(Nat)
      /\ Len(SubSeq(all, x + 1, m)) = IF x + 1 <= m THEN m - (x + 1) + 1 ELSE 0
      /\ \A i \in 1..(m - (x + 1) + 1) : SubSeq(all, x + 1, m)[i] = all[x + 1 + i - 1]
  BY <1>2, <1>3, SubSeqProperties
<1> DEFINE tail == SubSeq(all, x + 1, m)
<1>6. (IF x + 1 <= m THEN m - (x + 1) + 1 ELSE 0) = m - x
  BY <1>1
<1>7. m - (x + 1) + 1 = m - x
  BY <1>1
<1>8. \A i \in 1..(m - x) : x + 1 + i - 1 = x + i
  BY <1>1
<1> HIDE DEF tail, m
<1>9. tail \in Seq(Nat) /\ Len(tail) = m - x
  BY <1>4, <1>6 DEF tail
<1>10. \A i \in 1..(m - x) : tail[i] = all[x + i]
  BY <1>4, <1>7, <1>8 DEF tail
<1> QED BY <1>9, <1>10, Zenon DEF tail, m

\* The rows of the debug panel go on with the newest event.
LEMMA RowsLonger ==
  ASSUME NEW rows \in Seq(Nat), NEW a \in Nat, LatestRows(rows, a)
  PROVE  /\ Append(rows, a + 1) \in Seq(Nat) /\ Len(Append(rows, a + 1)) = Len(rows) + 1
         /\ \A i \in 1..(Len(rows) + 1) : Append(rows, a + 1)[i] = a - Len(rows) + i
<1> DEFINE n == Len(rows)
           all == Append(rows, a + 1)
<1>1. a + 1 \in Nat /\ n \in Nat
  OBVIOUS
<1>2. all \in Seq(Nat) /\ Len(all) = n + 1 /\ all[n + 1] = a + 1 /\ \A i \in 1..n : all[i] = rows[i]
  BY <1>1
<1>3. \A i \in 1..n : rows[i] = a - n + i
  BY Zenon DEF LatestRows
<1> HIDE DEF all, n
<1>4. ASSUME NEW i \in 1..(n + 1) PROVE all[i] = a - n + i
  <2>1. CASE i \in 1..n
    BY <1>2, <1>3, <2>1
  <2>2. CASE i = n + 1
    BY <1>1, <1>2, <2>2
  <2> QED BY <1>1, <2>1, <2>2
<1> QED BY <1>2, <1>4, Zenon DEF all, n

LEMMA RowsShift ==
  ASSUME NEW rows \in Seq(Nat), NEW a \in Nat, LatestRows(rows, a)
  PROVE  Shifted(Append(rows, a + 1)) \in Seq(Nat) /\ LatestRows(Shifted(Append(rows, a + 1)), a + 1)
<1> DEFINE n == Len(rows)
           all == Append(rows, a + 1)
           x == Surplus(n + 1)
           next == SubSeq(all, x + 1, Len(all))
           m == Len(next)
<1>1. all \in Seq(Nat) /\ Len(all) = n + 1 /\ \A i \in 1..(n + 1) : all[i] = a - n + i
  BY RowsLonger
<1>2. n = Capped(a)
  BY Zenon DEF LatestRows
<1>3. n \in Nat
  OBVIOUS
<1>4. Shifted(all) = next
  BY <1>1 DEF Shifted
<1> HIDE DEF all, n
<1>5. x \in Nat /\ x <= n + 1 /\ (n + 1) - x = Capped(a + 1)
  BY <1>2, <1>3, RowCount, Zenon
<1> HIDE DEF x
<1>6. x <= Len(all)
  BY <1>1, <1>5
<1>7. next \in Seq(Nat) /\ Len(next) = Len(all) - x /\ \A i \in 1..(Len(all) - x) : next[i] = all[x + i]
  BY <1>1, <1>5, <1>6, TailOf, Zenon
<1> HIDE DEF next
<1>8. m = Len(all) - x /\ m = (n + 1) - x
  <2>1. Len(all) = n + 1
    BY <1>1
  <2>2. m = Len(all) - x
    BY <1>7
  <2> QED BY <2>1, <2>2, Zenon
<1>9. \A i \in 1..m : next[i] = all[x + i]
  BY <1>7, <1>8
<1> HIDE DEF m
<1>10. \A i \in 1..m : x + i \in 1..(n + 1) /\ a - n + (x + i) = (a + 1) - m + i
  BY <1>3, <1>5, <1>8
<1>11. \A i \in 1..m : next[i] = (a + 1) - m + i
  BY <1>1, <1>9, <1>10
<1>12. m = Capped(a + 1)
  BY <1>5, <1>8
<1>13. LatestRows(next, a + 1)
  BY <1>11, <1>12, Zenon DEF LatestRows, m
<1> QED BY <1>4, <1>7, <1>13 DEF all

LEMMA Logged ==
  ASSUME NEW v, Steady(v), RowsFit(v), v.transport = "sse", NEW event \in Nat, NEW kind \in Kinds,
         NEW u, u = LogSSEEvent(Heard(v, event), kind)
  PROVE  /\ Steady(u) /\ NoneYet(u) /\ AllGrown(v, u) /\ RowsFit(u) /\ u.arrived > 0
         /\ u.seen = Append(v.seen, event) /\ u.read = v.read /\ u.buffer = v.buffer
         /\ u.transport = v.transport /\ u.polling = v.polling
<1> DEFINE h == Heard(v, event)
           all == Append(v.rows, v.arrived + 1)
           next == Shifted(all)
           seen == Append(v.seen, event)
           status == IF v.sending THEN kind ELSE v.status
<1>1. v \in Windows /\ v.arrived \in Nat /\ v.seen \in Seq(Nat) /\ v.rows \in Seq(Nat) /\ v.status \in Statuses
  BY SteadyFields, Fields
<1>2. seen \in Seq(Nat) /\ status \in Statuses
  BY <1>1 DEF Statuses
<1>3. h = [v EXCEPT !.seen = seen, !.arrived = v.arrived + 1]
  BY <1>1 DEF Heard
<1>4. h.rows = v.rows /\ h.arrived = v.arrived + 1 /\ h.sending = v.sending /\ h.status = v.status
  BY <1>1, <1>3 DEF Windows
<1>5. u = [h EXCEPT !.rows = next, !.status = status]
  BY <1>4 DEF LogSSEEvent, Shifted, Surplus
<1>6. next \in Seq(Nat) /\ LatestRows(next, v.arrived + 1)
  <2>1. LatestRows(v.rows, v.arrived)
    BY DEF RowsFit
  <2> QED BY <1>1, <2>1, RowsShift, Zenon
<1> HIDE DEF next, seen, status, h, all
<1>7. u = [v EXCEPT !.seen = seen, !.arrived = v.arrived + 1, !.rows = next, !.status = status]
  BY <1>3, <1>5
<1>8. u \in Windows
  <2>1. v.arrived + 1 \in Nat
    BY <1>1
  <2>2. h \in Windows
    BY <1>1, <1>2, <1>3, <2>1 DEF Windows
  <2> QED BY <1>2, <1>5, <1>6, <2>2 DEF Windows
<1>9. /\ u.shown = v.shown /\ u.bubble = v.bubble /\ u.queue = v.queue /\ u.frame = v.frame
      /\ u.arrived = v.arrived + 1 /\ u.seen = seen /\ u.read = v.read /\ u.buffer = v.buffer
      /\ u.transport = v.transport /\ u.polling = v.polling /\ u.rows = next
  BY <1>1, <1>7 DEF Windows
<1>10. u.arrived > v.arrived /\ u.arrived >= v.arrived /\ u.arrived > 0
  BY <1>1, <1>9
<1>11. Steady(u) /\ AllGrown(v, u) /\ NoneYet(u)
  BY <1>8, <1>9, <1>10, SameShown
<1>12. RowsFit(u)
  BY <1>6, <1>9 DEF RowsFit
<1> QED BY <1>9, <1>10, <1>11, <1>12 DEF seen

\* What is left after the last empty line holds none.
LEMMA LastBoundary ==
  ASSUME NEW text \in Seq(Nat), Boundaries(text) # {}
  PROVE  \E i \in Boundaries(text) : \A j \in Boundaries(text) : j <= i
<1> DEFINE n == Len(text)
           T == {n - i : i \in Boundaries(text)}
<1>1. n \in Nat /\ \A i \in Boundaries(text) : i \in 1..n
  BY DEF Boundaries
<1> HIDE DEF n
<1>2. T \subseteq Nat /\ T # {}
  BY <1>1
<1> HIDE DEF T
<1>3. PICK k \in T : \A i \in T : ~ (<<i, k>> \in OpToRel(<, Nat))
  BY <1>2, WFMin, NatLessThanWellFounded
<1>4. PICK i \in Boundaries(text) : k = n - i
  BY DEF T
<1>5. ASSUME NEW j \in Boundaries(text) PROVE j <= i
  <2>1. n - j \in T /\ n - j \in Nat /\ k \in Nat
    BY <1>1, <1>2 DEF T
  <2>2. ~(n - j < k)
    BY <1>3, <2>1 DEF OpToRel
  <2> QED BY <1>1, <1>4, <2>1, <2>2
<1> QED BY <1>5

LEMMA RemainderFits ==
  ASSUME NEW text \in Seq(Nat)
  PROVE  Remainder(text) \in Seq(Nat) /\ \A k \in 1..Len(Remainder(text)) : ~Ends(Remainder(text)[k])
<1>1. CASE Boundaries(text) = {}
  BY <1>1 DEF Remainder, Boundaries
<1>2. CASE Boundaries(text) # {}
  <2> DEFINE x == CHOOSE i \in Boundaries(text) : \A j \in Boundaries(text) : j <= i
             rest == SubSeq(text, x + 1, Len(text))
             n == Len(text)
  <2>1. x \in Boundaries(text) /\ \A j \in Boundaries(text) : j <= x
    BY <1>2, LastBoundary
  <2>2. Remainder(text) = rest
    BY <1>2 DEF Remainder
  <2> HIDE DEF x
  <2>3. x \in 1..n /\ n \in Nat
    BY <2>1 DEF Boundaries
  <2>4. x \in Nat /\ x <= Len(text)
    BY <2>3
  <2>5. rest \in Seq(Nat) /\ Len(rest) = Len(text) - x /\ \A i \in 1..(Len(text) - x) : rest[i] = text[x + i]
    BY <2>4, TailOf, Zenon
  <2> HIDE DEF rest
  <2>6. ASSUME NEW k \in 1..Len(rest) PROVE ~Ends(rest[k])
    <3>1. k \in 1..(n - x)
      BY <2>5, <2>6
    <3> HIDE DEF n
    <3>2. x + k \in 1..n /\ ~(x + k <= x)
      BY <2>3, <3>1
    <3>3. x + k \notin Boundaries(text)
      BY <2>1, <3>2
    <3>4. ~Ends(text[x + k])
      BY <3>2, <3>3 DEF Boundaries, n
    <3>5. rest[k] = text[x + k]
      BY <2>5, <3>1 DEF n
    <3> QED BY <3>4, <3>5
  <2> QED BY <2>2, <2>5, <2>6
<1> QED BY <1>1, <1>2

\* The text that is parsed: only what is new in it ends events.
LEMMA TextFits ==
  ASSUME NEW v \in Windows, \A k \in 1..Len(v.buffer) : ~Ends(v.buffer[k]), NEW length \in Nat, v.read <= length
  PROVE  /\ TextFrom(v, length) \in Seq(Nat)
         /\ \A i \in 1..Len(TextFrom(v, length)) : Ends(TextFrom(v, length)[i]) =>
              /\ i > Len(v.buffer) /\ TextFrom(v, length)[i] = v.read + (i - Len(v.buffer))
              /\ TextFrom(v, length)[i] <= length
<1> DEFINE b == v.buffer
           m == length - v.read
           c == [i \in 1..m |-> v.read + i]
           text == b \o c
<1>1. b \in Seq(Nat) /\ v.read \in Nat /\ Len(b) \in Nat
  BY Fields
<1>2. m \in Nat
  BY <1>1
<1> HIDE DEF m
<1>3. c \in Seq(Nat) /\ Len(c) = m
  BY <1>1, <1>2
<1>4. \A i \in 1..m : c[i] = v.read + i
  OBVIOUS
<1> HIDE DEF b, c
<1>5. /\ text \in Seq(Nat) /\ Len(text) = Len(b) + Len(c)
      /\ \A i \in 1..(Len(b) + Len(c)) : text[i] = IF i <= Len(b) THEN b[i] ELSE c[i - Len(b)]
  BY <1>1, <1>3, Joined, Zenon
<1>6. TextFrom(v, length) = text
  BY DEF TextFrom, b, c, m
<1> HIDE DEF text
<1>7. ASSUME NEW i \in 1..Len(text), Ends(text[i])
      PROVE  i > Len(b) /\ text[i] = v.read + (i - Len(b)) /\ text[i] <= length
  <2>1. i \in 1..(Len(b) + m)
    BY <1>3, <1>5
  <2>2. ~(i <= Len(b))
    <3> SUFFICES ASSUME i <= Len(b) PROVE FALSE
      OBVIOUS
    <3>1. i \in 1..Len(b) /\ text[i] = b[i]
      BY <1>1, <1>3, <1>5, <2>1
    <3> QED BY <1>7, <3>1 DEF b
  <2>3. i - Len(b) \in 1..m /\ text[i] = c[i - Len(b)]
    BY <1>1, <1>2, <1>3, <1>5, <2>1, <2>2
  <2>4. text[i] = v.read + (i - Len(b))
    BY <1>4, <2>3
  <2>5. v.read + (i - Len(b)) <= length
    BY <1>1, <1>2, <2>3 DEF m
  <2> QED BY <1>1, <2>2, <2>4, <2>5
<1> QED BY <1>5, <1>6, <1>7 DEF b

\* An event is handled: it is seen, logged and drawn.
TakenIn(u, event, kind) == HandleSSEEvent(LogSSEEvent(Heard(u, event), kind), kind)

LEMMA EventTaken ==
  ASSUME NEW v, Steady(v), RowsFit(v), v.transport = "sse", NEW event \in Nat, NEW kind \in Kinds,
         NEW u, u = TakenIn(v, event, kind)
  PROVE  /\ Steady(u) /\ AllGrown(v, u) /\ RowsFit(u) /\ u.transport = "sse"
         /\ u.seen = Append(v.seen, event) /\ u.read = v.read /\ u.buffer \in {v.buffer, <<>>}
         /\ (u.polling => v.polling)
<1> DEFINE x == LogSSEEvent(Heard(v, event), kind)
<1>1. /\ Steady(x) /\ NoneYet(x) /\ AllGrown(v, x) /\ RowsFit(x) /\ x.arrived > 0
      /\ x.seen = Append(v.seen, event) /\ x.read = v.read /\ x.buffer = v.buffer
      /\ x.transport = v.transport /\ x.polling = v.polling
  BY Logged
<1>2. u = HandleSSEEvent(x, kind)
  BY DEF TakenIn
<1> HIDE DEF x
<1>3. Follows(x, u)
  BY <1>1, <1>2, Handled
<1>4. v \in Windows /\ x \in Windows /\ u \in Windows
  BY <1>1, <1>3, SteadyFields DEF Follows
<1>5. AllGrown(v, u)
  BY <1>1, <1>3, <1>4, AllGrownTwice DEF Follows
<1>6. Rest(x, u)
  BY <1>3 DEF Follows
<1>7. RowsFit(u)
  BY <1>1, <1>6 DEF RowsFit, Rest
<1> QED BY <1>1, <1>3, <1>5, <1>6, <1>7 DEF Follows, Rest

\* What the first places of the text have made of the window.
Begun(v, length) == [v EXCEPT !.read = length, !.buffer = Remainder(TextFrom(v, length))]
Onward(text, kinds, u, i) == IF i \in Whole(text) THEN TakenIn(u, EventOf(text[i]), kinds[i]) ELSE u
ParsedTo(first, text, kinds, f, m) ==
  f = [i \in 0..m |-> IF i = 0 THEN first ELSE Onward(text, kinds, f[i - 1], i)]

LEMMA ParsedLonger ==
  ASSUME NEW first, NEW text, NEW kinds, NEW m \in Nat, NEW f, ParsedTo(first, text, kinds, f, m)
  PROVE  \E g : ParsedTo(first, text, kinds, g, m + 1)
<1> DEFINE g == [n \in 0..(m + 1) |-> IF n = m + 1 THEN Onward(text, kinds, f[m], m + 1) ELSE f[n]]
           h == [n \in 0..(m + 1) |-> IF n = 0 THEN first ELSE Onward(text, kinds, g[n - 1], n)]
<1>1. \A n \in 0..m : f[n] = IF n = 0 THEN first ELSE Onward(text, kinds, f[n - 1], n)
  BY Zenon DEF ParsedTo
<1>2. \A n \in 0..(m + 1) : g[n] = IF n = m + 1 THEN Onward(text, kinds, f[m], m + 1) ELSE f[n]
  OBVIOUS
<1>3. ASSUME NEW n \in 0..(m + 1) PROVE g[n] = IF n = 0 THEN first ELSE Onward(text, kinds, g[n - 1], n)
  <2> HIDE DEF g
  <2>1. CASE n = 0
    BY <1>1, <1>2, <2>1
  <2>2. CASE n = m + 1
    <3>1. m \in 0..(m + 1) /\ m # m + 1 /\ n - 1 = m /\ n # 0
      BY <2>2
    <3>2. g[m] = f[m]
      BY <1>2, <3>1
    <3> QED BY <1>2, <2>2, <3>1, <3>2
  <2>3. CASE n \in 1..m
    <3>1. n \in 0..m /\ n - 1 \in 0..(m + 1) /\ n # m + 1 /\ n - 1 # m + 1 /\ n # 0
      BY <2>3
    <3>2. g[n] = f[n] /\ g[n - 1] = f[n - 1] /\ f[n] = Onward(text, kinds, f[n - 1], n)
      BY <1>1, <1>2, <3>1
    <3> QED BY <3>1, <3>2
  <2> QED BY <2>1, <2>2, <2>3
<1>4. g = h
  <2>1. g = [n \in 0..(m + 1) |-> g[n]]
    OBVIOUS
  <2> HIDE DEF g
  <2> QED BY <1>3, <2>1
<1> QED BY <1>4 DEF ParsedTo

LEMMA TextParsed ==
  ASSUME NEW v, NEW kinds, NEW length, NEW text, text = TextFrom(v, length), Len(text) \in Nat
  PROVE  \E f : ParsedTo(Begun(v, length), text, kinds, f, Len(text)) /\ Parse(v, kinds, length) = f[Len(text)]
<1> DEFINE m == Len(text)
           first == Begun(v, length)
           S == {n \in 0..m : \E f : ParsedTo(first, text, kinds, f, n)}
<1> HIDE DEF first
<1>1. 0 \in S
  <2> DEFINE f == [n \in 0..0 |-> first]
  <2>1. f = [n \in 0..0 |-> IF n = 0 THEN first ELSE Onward(text, kinds, f[n - 1], n)]
    OBVIOUS
  <2>2. ParsedTo(first, text, kinds, f, 0)
    BY <2>1 DEF ParsedTo
  <2> QED BY <2>2
<1>2. \A n \in 0..(m - 1) : n \in S => n + 1 \in S
  BY ParsedLonger
<1>3. S = 0..m
  <2>1. S \in SUBSET (0..m)
    OBVIOUS
  <2> HIDE DEF S
  <2> QED BY <1>1, <1>2, <2>1, Walk
<1>4. PICK f : ParsedTo(first, text, kinds, f, m)
  BY <1>3
<1> DEFINE g == CHOOSE d : d = [i \in 0..Len(text) |-> IF i = 0 THEN first ELSE Onward(text, kinds, d[i - 1], i)]
<1>5. ParsedTo(first, text, kinds, g, m)
  <2>1. f = [i \in 0..Len(text) |-> IF i = 0 THEN first ELSE Onward(text, kinds, f[i - 1], i)]
    BY <1>4, Zenon DEF ParsedTo
  <2>2. g = [i \in 0..Len(text) |-> IF i = 0 THEN first ELSE Onward(text, kinds, g[i - 1], i)]
    BY <2>1
  <2> HIDE DEF g
  <2> QED BY <2>2, Zenon DEF ParsedTo
<1>6. Parse(v, kinds, length) = g[m]
  BY DEF Parse, first, Begun, Onward, TakenIn
<1> QED BY <1>5, <1>6 DEF first

\* The events that were seen come before those of the text after place n.
SeenBefore(ids, text, n, length) ==
  /\ Increasing(ids)
  /\ \A k \in 1..Len(ids) :
       /\ 2 * ids[k] <= length
       /\ \A j \in (n + 1)..Len(text) : Ends(text[j]) => 2 * ids[k] < text[j]

LEMMA PlacesAhead ==
  ASSUME NEW n \in Nat, NEW text \in Seq(Nat)
  PROVE  \A j \in (n + 1 + 1)..Len(text) : j \in (n + 2)..Len(text) /\ j \in (n + 1)..Len(text)
<1>1. Len(text) \in Nat
  OBVIOUS
<1> QED BY <1>1

LEMMA SeenAppend ==
  ASSUME NEW ids \in Seq(Nat), NEW text \in Seq(Nat), NEW n \in Nat, NEW length \in Nat,
         SeenBefore(ids, text, n, length), n + 1 \in 1..Len(text), Ends(text[n + 1]), text[n + 1] <= length,
         \A j \in (n + 2)..Len(text) : Ends(text[j]) => text[n + 1] < text[j]
  PROVE  EventOf(text[n + 1]) \in Nat /\ SeenBefore(Append(ids, EventOf(text[n + 1])), text, n + 1, length)
<1> DEFINE event == EventOf(text[n + 1])
           longer == Append(ids, event)
<1>1. text[n + 1] \in Nat
  OBVIOUS
<1>2. event \in Nat /\ 2 * event = text[n + 1]
  BY <1>1 DEF EventOf, Ends
<1> HIDE DEF event
<1>3. \A k \in 1..Len(ids) : ids[k] \in Nat /\ 2 * ids[k] < text[n + 1]
  BY DEF SeenBefore
<1>4. \A m \in Range(ids) : m < event
  <2>1. ASSUME NEW k \in 1..Len(ids) PROVE ids[k] < event
    <3>1. ids[k] \in Nat /\ 2 * ids[k] < 2 * event
      BY <1>2, <1>3
    <3> QED BY <1>2, <3>1
  <2>2. DOMAIN ids = 1..Len(ids)
    OBVIOUS
  <2> QED BY <2>1, <2>2, Zenon DEF Range
<1>5. Increasing(longer)
  BY <1>2, <1>4, IncreasingAppend DEF SeenBefore
<1>6. Len(longer) = Len(ids) + 1 /\ Len(ids) \in Nat /\ longer[Len(ids) + 1] = event /\ \A k \in 1..Len(ids) : longer[k] = ids[k]
  BY <1>2
<1> HIDE DEF longer
<1>7. ASSUME NEW k \in 1..Len(longer)
      PROVE  /\ 2 * longer[k] <= length
             /\ \A j \in (n + 1 + 1)..Len(text) : Ends(text[j]) => 2 * longer[k] < text[j]
  <2>1. \A j \in (n + 1 + 1)..Len(text) : j \in (n + 2)..Len(text) /\ j \in (n + 1)..Len(text)
    BY PlacesAhead
  <2>2. CASE k \in 1..Len(ids)
    <3>1. longer[k] = ids[k]
      BY <1>6, <2>2
    <3>2. 2 * ids[k] <= length /\ \A j \in (n + 1)..Len(text) : Ends(text[j]) => 2 * ids[k] < text[j]
      BY <2>2, Zenon DEF SeenBefore
    <3> QED BY <2>1, <3>1, <3>2, Zenon
  <2>3. CASE k = Len(ids) + 1
    <3>1. 2 * longer[k] = text[n + 1]
      BY <1>2, <1>6, <2>3
    <3> QED BY <2>1, <3>1, Zenon
  <2> QED BY <1>6, <2>2, <2>3
<1> QED BY <1>2, <1>5, <1>7 DEF SeenBefore, event, longer

LEMMA SeenLater ==
  ASSUME NEW ids \in Seq(Nat), NEW text \in Seq(Nat), NEW n \in Nat, NEW length \in Nat,
         SeenBefore(ids, text, n, length)
  PROVE  SeenBefore(ids, text, n + 1, length)
<1>1. \A j \in (n + 1 + 1)..Len(text) : j \in (n + 1)..Len(text)
  OBVIOUS
<1> QED BY <1>1 DEF SeenBefore

\* While a chunk is parsed, up to place n of its text.
Parsing(v, u, text, n, length) ==
  /\ Steady(u) /\ AllGrown(v, u) /\ RowsFit(u) /\ u.transport = "sse" /\ u.read = length
  /\ (u.polling => v.polling)
  /\ u.buffer \in {Remainder(text), <<>>}
  /\ SeenBefore(u.seen, text, n, length)

LEMMA ParsingBegins ==
  ASSUME NEW v, Good(v), v.transport = "sse", NEW length \in Nat, v.read <= length, NEW text, text = TextFrom(v, length),
         NEW u, u = Begun(v, length)
  PROVE  Parsing(v, u, text, 0, length)
<1>1. /\ v \in Windows /\ Steady(v) /\ SeenFits(v) /\ RowsFit(v)
      /\ v.read \in Nat /\ v.seen \in Seq(Nat) /\ v.arrived \in Nat /\ Len(v.buffer) \in Nat
  BY SteadyFields, Fields DEF Good
<1>2. \A k \in 1..Len(v.buffer) : ~Ends(v.buffer[k])
  BY <1>1 DEF SeenFits
<1>3. /\ text \in Seq(Nat)
      /\ \A i \in 1..Len(text) : Ends(text[i]) => i > Len(v.buffer) /\ text[i] = v.read + (i - Len(v.buffer))
  BY <1>1, <1>2, TextFits
<1> DEFINE rest == Remainder(text)
<1>4. rest \in Seq(Nat)
  BY <1>3, RemainderFits
<1>5. u = [v EXCEPT !.read = length, !.buffer = rest]
  BY DEF Begun
<1> HIDE DEF rest
<1>6. u \in Windows
  BY <1>1, <1>4, <1>5 DEF Windows
<1>7. /\ u.shown = v.shown /\ u.bubble = v.bubble /\ u.queue = v.queue /\ u.frame = v.frame
      /\ u.arrived = v.arrived /\ u.seen = v.seen /\ u.rows = v.rows /\ u.transport = v.transport
      /\ u.polling = v.polling /\ u.read = length /\ u.buffer = rest
  BY <1>1, <1>5 DEF Windows
<1>8. Steady(u) /\ AllGrown(v, u)
  <2>1. u.arrived >= v.arrived
    BY <1>1, <1>7
  <2> QED BY <1>1, <1>6, <1>7, <2>1, SameShown
<1>9. RowsFit(u)
  BY <1>1, <1>7 DEF RowsFit
<1>10. SeenBefore(u.seen, text, 0, length)
  <2>1. \A k \in 1..Len(v.seen) : v.seen[k] \in Nat /\ 2 * v.seen[k] <= v.read
    BY <1>1 DEF SeenFits
  <2>2. ASSUME NEW k \in 1..Len(v.seen), NEW j \in (0 + 1)..Len(text), Ends(text[j]) PROVE 2 * v.seen[k] < text[j]
    <3>1. j > Len(v.buffer) /\ text[j] = v.read + (j - Len(v.buffer)) /\ j \in Nat
      BY <1>3, <2>2
    <3>2. text[j] > v.read /\ text[j] \in Nat
      BY <1>1, <3>1
    <3>3. v.seen[k] \in Nat /\ 2 * v.seen[k] <= v.read
      BY <2>1
    <3>4. v.read \in Nat
      BY <1>1
    <3> DEFINE twice == 2 * v.seen[k]
    <3>5. twice \in Nat /\ twice <= v.read
      BY <3>3
    <3> HIDE DEF twice
    <3>6. twice < text[j]
      BY <3>2, <3>4, <3>5
    <3> QED BY <3>6 DEF twice
  <2>3. \A k \in 1..Len(v.seen) : 2 * v.seen[k] <= length
    BY <1>1, <2>1
  <2>4. Increasing(v.seen)
    BY <1>1 DEF SeenFits
  <2> QED BY <1>7, <2>2, <2>3, <2>4 DEF SeenBefore
<1> QED BY <1>7, <1>8, <1>9, <1>10 DEF Parsing, rest

LEMMA ParsingGoesOn ==
  ASSUME NEW v, Steady(v), NEW text \in Seq(Nat), NEW length \in Nat, NEW n \in Nat, n + 1 \in 1..Len(text),
         \A i, j \in 1..Len(text) : i < j /\ Ends(text[i]) /\ Ends(text[j]) => text[i] < text[j],
         \A i \in 1..Len(text) : Ends(text[i]) => text[i] <= length,
         NEW kinds \in [Whole(text) -> Kinds], NEW u, Parsing(v, u, text, n, length),
         NEW x, x = Onward(text, kinds, u, n + 1)
  PROVE  Parsing(v, x, text, n + 1, length)
<1> DEFINE i == n + 1
           event == EventOf(text[i])
<1>1. /\ Steady(u) /\ AllGrown(v, u) /\ RowsFit(u) /\ u.transport = "sse" /\ u.read = length
      /\ (u.polling => v.polling) /\ u.buffer \in {Remainder(text), <<>>} /\ SeenBefore(u.seen, text, n, length)
  BY DEF Parsing
<1>2. u \in Windows /\ v \in Windows /\ u.seen \in Seq(Nat)
  BY <1>1, SteadyFields, Fields
<1>3. CASE i \notin Whole(text)
  <2>1. x = u
    BY <1>3 DEF Onward
  <2>2. SeenBefore(u.seen, text, n + 1, length)
    BY <1>1, <1>2, SeenLater
  <2> QED BY <1>1, <2>1, <2>2 DEF Parsing
<1>4. CASE i \in Whole(text)
  <2>1. Ends(text[i]) /\ kinds[i] \in Kinds /\ x = TakenIn(u, event, kinds[i]) /\ i \in 1..Len(text)
    BY <1>4 DEF Onward, Whole
  <2>2. \A j \in (n + 2)..Len(text) : j \in 1..Len(text) /\ i < j
    OBVIOUS
  <2>3. \A j \in (n + 2)..Len(text) : Ends(text[j]) => text[i] < text[j]
    BY <2>1, <2>2
  <2>4. text[i] <= length
    BY <2>1
  <2>5. event \in Nat /\ SeenBefore(Append(u.seen, event), text, n + 1, length)
    BY <1>1, <1>2, <2>1, <2>3, <2>4, SeenAppend
  <2> HIDE DEF event, i
  <2>6. /\ Steady(x) /\ AllGrown(u, x) /\ RowsFit(x) /\ x.transport = "sse"
        /\ x.seen = Append(u.seen, event) /\ x.read = u.read /\ x.buffer \in {u.buffer, <<>>}
        /\ (x.polling => u.polling)
    <3> DEFINE kind == kinds[i]
    <3>1. event \in Nat /\ kind \in Kinds /\ x = TakenIn(u, event, kind)
      BY <2>1, <2>5
    <3>2. Steady(u) /\ RowsFit(u) /\ u.transport = "sse"
      BY <1>1
    <3> HIDE DEF kind
    <3> DEFINE y == TakenIn(u, event, kind)
    <3>3. /\ Steady(y) /\ AllGrown(u, y) /\ RowsFit(y) /\ y.transport = "sse"
          /\ y.seen = Append(u.seen, event) /\ y.read = u.read /\ y.buffer \in {u.buffer, <<>>}
          /\ (y.polling => u.polling)
      BY <3>1, <3>2, EventTaken, Zenon
    <3> HIDE DEF y
    <3> QED BY <3>1, <3>3 DEF y
  <2>7. x \in Windows
    BY <2>6, SteadyFields
  <2>8. AllGrown(v, x)
    BY <1>1, <1>2, <2>6, <2>7, AllGrownTwice
  <2> QED BY <1>1, <2>5, <2>6, <2>8 DEF Parsing
<1> QED BY <1>3, <1>4

LEMMA ChunkParsed ==
  ASSUME NEW v, Good(v), v.transport = "sse", NEW length \in Nat, v.read <= length,
         NEW kinds \in [Whole(TextFrom(v, length)) -> Kinds], NEW u, u = Parse(v, kinds, length)
  PROVE  Good(u) /\ AllGrown(v, u) /\ u.transport = "sse" /\ u.read = length /\ (u.polling => v.polling)
<1> DEFINE text == TextFrom(v, length)
           m == Len(text)
<1>1. v \in Windows /\ Steady(v) /\ SeenFits(v) /\ v.read \in Nat /\ Len(v.buffer) \in Nat
  BY SteadyFields, Fields DEF Good
<1>2. \A k \in 1..Len(v.buffer) : ~Ends(v.buffer[k])
  BY <1>1 DEF SeenFits
<1>3. /\ text \in Seq(Nat)
      /\ \A i \in 1..m : Ends(text[i]) => text[i] = v.read + (i - Len(v.buffer)) /\ text[i] <= length
  BY <1>1, <1>2, TextFits
<1>4. kinds \in [Whole(text) -> Kinds]
  OBVIOUS
<1>5. m \in Nat
  BY <1>3
<1>6. PICK f : ParsedTo(Begun(v, length), text, kinds, f, m) /\ u = f[m]
  BY <1>5, TextParsed
<1>7. \A n \in 0..m : f[n] = IF n = 0 THEN Begun(v, length) ELSE Onward(text, kinds, f[n - 1], n)
  BY <1>6, Zenon DEF ParsedTo
<1> DEFINE S == {n \in 0..m : Parsing(v, f[n], text, n, length)}
<1>8. 0 \in S
  <2>1. f[0] = Begun(v, length) /\ 0 \in 0..m
    BY <1>5, <1>7
  <2>2. Parsing(v, f[0], text, 0, length)
    BY <2>1, ParsingBegins
  <2> QED BY <2>1, <2>2
<1> HIDE DEF text
<1>9. \A i, j \in 1..m : i < j /\ Ends(text[i]) /\ Ends(text[j]) => text[i] < text[j]
  BY <1>1, <1>3, <1>5
<1>10. ASSUME NEW n \in 0..(m - 1), n \in S PROVE n + 1 \in S
  <2>1. n + 1 \in 0..m /\ n + 1 # 0 /\ n + 1 - 1 = n /\ n \in Nat /\ n + 1 \in 1..m
    BY <1>5
  <2>2. f[n + 1] = Onward(text, kinds, f[n], n + 1)
    BY <1>7, <2>1
  <2>3. Parsing(v, f[n], text, n, length)
    BY <1>10
  <2>4. \A i \in 1..m : Ends(text[i]) => text[i] <= length
    BY <1>3
  <2>5. Parsing(v, f[n + 1], text, n + 1, length)
    BY <1>1, <1>3, <1>4, <1>9, <2>1, <2>2, <2>3, <2>4, ParsingGoesOn
  <2> QED BY <2>1, <2>5
<1>11. S = 0..m
  <2>1. S \in SUBSET (0..m)
    OBVIOUS
  <2> HIDE DEF S
  <2> QED BY <1>5, <1>8, <1>10, <2>1, Walk
<1>12. Parsing(v, u, text, m, length)
  <2>1. m \in S
    BY <1>5, <1>11
  <2> QED BY <1>6, <2>1
<1> HIDE DEF S, m
<1>13. SeenFits(u)
  <2>1. Remainder(text) \in Seq(Nat) /\ \A k \in 1..Len(Remainder(text)) : ~Ends(Remainder(text)[k])
    BY <1>3, RemainderFits
  <2>2. \A k \in 1..Len(u.buffer) : ~Ends(u.buffer[k])
    <3>1. CASE u.buffer = <<>>
      BY <3>1
    <3>2. CASE u.buffer = Remainder(text)
      BY <2>1, <3>2, Zenon
    <3> QED BY <1>12, <3>1, <3>2 DEF Parsing
  <2>3. Increasing(u.seen) /\ \A k \in 1..Len(u.seen) : 2 * u.seen[k] <= u.read
    BY <1>12 DEF Parsing, SeenBefore
  <2> QED BY <2>2, <2>3 DEF SeenFits
<1> QED BY <1>12, <1>13 DEF Parsing, Good

-----------------------------------------------------------------------------
(* The steps *)

\* What ThinkingIsKept says of a step from v to u.
Kept(v, u) ==
  \A i \in 1..Len(v.shown) :
    i <= Len(u.shown) /\ u.shown[i].kind = "thinking" /\ u.shown[i].ids # v.shown[i].ids
      => ~v.shown[i].done /\ (Len(u.shown[i].ids) <= FoldAt \/ ~u.shown[i].open)

Operations == {"send", "reset", "history"}

LEMMA GrownKept == ASSUME NEW v, NEW u, AllGrown(v, u) PROVE Kept(v, u)
BY DEF AllGrown, Grown, Folded, Kept

LEMMA FollowsSelf == ASSUME NEW v, Steady(v) PROVE Follows(v, v)
<1>1. AllGrown(v, v)
  BY SteadyFields, Skipped
<1> QED BY <1>1 DEF Follows, Rest

LEMMA SeenKept ==
  ASSUME NEW v, SeenFits(v), NEW u, u.seen = v.seen, u.read = v.read, u.buffer \in {v.buffer, <<>>}
  PROVE  SeenFits(u)
<1>1. CASE u.buffer = v.buffer
  BY <1>1 DEF SeenFits
<1>2. CASE u.buffer = <<>>
  BY <1>2 DEF SeenFits
<1> QED BY <1>1, <1>2

LEMMA FollowsGood ==
  ASSUME NEW v, Good(v), NEW u, Follows(v, u)
  PROVE  Good(u)
<1>1. SeenFits(u)
  BY SeenKept DEF Good, Follows, Rest
<1>2. RowsFit(u)
  BY DEF Good, Follows, Rest, RowsFit
<1> QED BY <1>1, <1>2 DEF Good, Follows

LEMMA FollowsStep ==
  ASSUME TranscriptInv, Follows(w, w'), asked' \in Seq(Operations), loop' = loop, received' = received
  PROVE  TranscriptInv' /\ Kept(w, w')
<1>1. Good(w')
  BY FollowsGood DEF TranscriptInv
<1>2. Rest(w, w') /\ AllGrown(w, w')
  BY DEF Follows
<1>3. Kept(w, w')
  BY <1>2, GrownKept
<1>4. w'.arrived = w.arrived /\ w'.read = w.read /\ w'.transport = w.transport /\ (w'.polling => w.polling)
  BY <1>2 DEF Rest
<1> QED BY <1>1, <1>3, <1>4 DEF TranscriptInv, Operations

LEMMA FollowsThrice ==
  ASSUME NEW v, Steady(v), NEW u, Follows(v, u), NEW x, Follows(u, x), NEW y, Follows(x, y)
  PROVE  Follows(v, y)
<1>1. Follows(v, x)
  BY FollowsTwice
<1> QED BY <1>1, FollowsTwice

LEMMA AskedAppend ==
  ASSUME asked \in Seq(Operations), NEW op \in Operations
  PROVE  Append(asked, op) \in Seq(Operations)
OBVIOUS

LEMMA AskedRemove ==
  ASSUME asked \in Seq(Operations), NEW i \in 1..Len(asked)
  PROVE  RemoveAt(asked, i) \in Seq(Operations)
<1> DEFINE n == Len(asked)
<1>1. n \in Nat /\ \A k \in 1..n : asked[k] \in Operations
  OBVIOUS
<1>2. (\A k \in 1..(i - 1) : k \in 1..n) /\ \A k \in (i + 1)..n : k \in 1..n
  BY <1>1
<1>3. SubSeq(asked, 1, i - 1) \in Seq(Operations)
  <2>1. \A k \in 1..(i - 1) : asked[k] \in Operations
    BY <1>1, <1>2
  <2> QED BY <1>1, <2>1, SubSeqProperties
<1>4. SubSeq(asked, i + 1, n) \in Seq(Operations)
  <2>1. \A k \in (i + 1)..n : asked[k] \in Operations
    BY <1>1, <1>2
  <2> QED BY <1>1, <2>1, SubSeqProperties
<1> QED BY <1>3, <1>4, ConcatProperties DEF RemoveAt

LEMMA WasAsked ==
  ASSUME TranscriptInv, NEW op, Answered(op)
  PROVE  asked' \in Seq(Operations)
<1>1. asked \in Seq(Operations)
  BY DEF TranscriptInv, Operations
<1> QED BY <1>1, AskedRemove DEF Answered

LEMMA IsSteady == ASSUME TranscriptInv PROVE Steady(w) /\ w \in Windows
BY SteadyFields DEF TranscriptInv, Good

\* The request is over, or the polling; the window belongs to another session.
LEMMA RequestOver ==
  ASSUME NEW v, Steady(v), NEW u, u = [v EXCEPT !.sseRequest = FALSE]
  PROVE  Follows(v, u)
<1>1. v \in Windows
  BY SteadyFields
<1>2. u \in Windows
  BY <1>1 DEF Windows
<1>3. u.shown = v.shown /\ u.bubble = v.bubble /\ u.queue = v.queue /\ u.frame = v.frame /\ Rest(v, u)
  BY <1>1 DEF Windows, Rest
<1>4. u.arrived >= v.arrived
  BY <1>1, <1>3, Fields DEF Rest
<1> QED BY <1>2, <1>3, <1>4, SameShown DEF Follows

LEMMA PollingOver ==
  ASSUME NEW v, Steady(v), NEW u, u = [v EXCEPT !.polling = FALSE]
  PROVE  Follows(v, u) /\ ~u.polling
<1>1. v \in Windows
  BY SteadyFields
<1>2. u \in Windows
  BY <1>1 DEF Windows
<1>3. u.shown = v.shown /\ u.bubble = v.bubble /\ u.queue = v.queue /\ u.frame = v.frame /\ Rest(v, u) /\ ~u.polling
  BY <1>1 DEF Windows, Rest
<1>4. u.arrived >= v.arrived
  BY <1>1, <1>3, Fields DEF Rest
<1> QED BY <1>2, <1>3, <1>4, SameShown DEF Follows

LEMMA SendingLeft ==
  ASSUME NEW v, Steady(v), NEW u, u = [v EXCEPT !.sending = FALSE, !.session = TRUE]
  PROVE  Follows(v, u)
<1>1. v \in Windows
  BY SteadyFields
<1>2. u \in Windows
  BY <1>1 DEF Windows
<1>3. u.shown = v.shown /\ u.bubble = v.bubble /\ u.queue = v.queue /\ u.frame = v.frame /\ Rest(v, u)
  BY <1>1 DEF Windows, Rest
<1>4. u.arrived >= v.arrived
  BY <1>1, <1>3, Fields DEF Rest
<1> QED BY <1>2, <1>3, <1>4, SameShown DEF Follows

\* The message area is emptied; what waits in the queue is drawn into the new one.
LEMMA Cleared ==
  ASSUME NEW v, Steady(v), NEW u, u = ClearMessages(v)
  PROVE  Steady(u) /\ Rest(v, u) /\ u.shown = <<>>
<1> DEFINE b == IF v.bubble = NoBubble THEN NoBubble ELSE Detached
<1>1. v \in Windows /\ Drawing(v, 0) /\ <<>> \in Seq(Elements)
  BY SteadyFields
<1>2. b \in Nat \cup {Detached} /\ ~(b > 0)
  BY DEF NoBubble, Detached
<1>3. u = [v EXCEPT !.shown = <<>>, !.bubble = b]
  BY <1>1 DEF ClearMessages, Windows
<1> HIDE DEF b
<1>4. u \in Windows
  BY <1>1, <1>2, <1>3 DEF Windows
<1>5. u.shown = <<>> /\ u.bubble = b /\ u.queue = v.queue /\ u.frame = v.frame /\ u.arrived = v.arrived /\ Rest(v, u)
  BY <1>1, <1>3 DEF Windows, Rest
<1>6. BubbleFits(u)
  BY <1>2, <1>5 DEF BubbleFits
<1>7. Ordered(u) /\ Behind(u, 0)
  BY <1>5 DEF Ordered, InElements, Behind
<1>8. InLine(u) /\ Numbered(u)
  BY <1>1, <1>5 DEF Drawing, InLine, Numbered
<1>9. u.queue # <<>> => u.frame
  BY <1>5 DEF Steady
<1> QED BY <1>4, <1>5, <1>6, <1>7, <1>8, <1>9 DEF Steady, Drawing

LEMMA PolledEventStep ==
  ASSUME TranscriptInv, NEW kind \in Kinds, PolledEvent(kind)
  PROVE  TranscriptInv' /\ Kept(w, w')
<1> DEFINE next == w.arrived + 1
           v == [w EXCEPT !.arrived = next]
<1>1. /\ loop /\ w.arrived < MaxArrivals /\ w' = HandleSSEEvent(v, kind)
      /\ asked' = asked /\ loop' = loop /\ received' = received
  BY DEF PolledEvent
<1>2. Steady(w) /\ w \in Windows /\ w.arrived \in Nat /\ MaxArrivals \in Nat
  BY IsSteady, Fields, TranscriptAssumption
<1>3. v \in Windows
  <2>1. next \in Nat
    BY <1>2
  <2> HIDE DEF next
  <2> QED BY <1>2, <2>1 DEF Windows
<1>4. /\ v.shown = w.shown /\ v.bubble = w.bubble /\ v.queue = w.queue /\ v.frame = w.frame
      /\ v.arrived = w.arrived + 1 /\ v.seen = w.seen /\ v.read = w.read /\ v.buffer = w.buffer
      /\ v.transport = w.transport /\ v.polling = w.polling
  BY <1>2 DEF Windows
<1> HIDE DEF v
<1>5. v.arrived > w.arrived /\ v.arrived >= w.arrived /\ v.arrived > 0 /\ v.arrived <= MaxArrivals
  BY <1>1, <1>2, <1>4
<1>6. Steady(v) /\ NoneYet(v) /\ AllGrown(w, v)
  BY <1>2, <1>3, <1>4, <1>5, SameShown
<1>7. Follows(v, w')
  BY <1>1, <1>5, <1>6, Handled
<1>8. Steady(w') /\ AllGrown(v, w') /\ Rest(v, w')
  BY <1>7 DEF Follows
<1>9. AllGrown(w, w')
  BY <1>2, <1>3, <1>6, <1>8, SteadyFields, AllGrownTwice
<1>10. SeenFits(w')
  <2>1. SeenFits(w)
    BY DEF TranscriptInv, Good
  <2>2. w'.seen = w.seen /\ w'.read = w.read /\ w'.buffer \in {w.buffer, <<>>}
    BY <1>4, <1>8 DEF Rest
  <2> QED BY <2>1, <2>2, SeenKept
<1>11. w'.transport = "polling" /\ w.transport = "polling"
  BY <1>1, <1>4, <1>8 DEF TranscriptInv, Rest
<1>12. Good(w')
  BY <1>8, <1>10, <1>11 DEF Good, RowsFit
<1>13. w'.arrived <= MaxArrivals /\ w'.read = w.read /\ (w'.polling => w.polling)
  BY <1>4, <1>5, <1>8 DEF Rest
<1>14. Kept(w, w')
  BY <1>9, GrownKept
<1> QED BY <1>1, <1>11, <1>12, <1>13, <1>14 DEF TranscriptInv

LEMMA LoopEndsStep ==
  ASSUME TranscriptInv, LoopEnds
  PROVE  TranscriptInv' /\ Kept(w, w')
<1>1. w' = [w EXCEPT !.polling = FALSE] /\ asked' = asked /\ loop' = FALSE /\ received' = received
  BY DEF LoopEnds
<1>2. Follows(w, w') /\ ~w'.polling
  BY <1>1, IsSteady, PollingOver
<1>3. Good(w')
  BY <1>2, FollowsGood DEF TranscriptInv
<1>4. Rest(w, w') /\ AllGrown(w, w')
  BY <1>2 DEF Follows
<1>5. Kept(w, w')
  BY <1>4, GrownKept
<1>6. w'.arrived = w.arrived /\ w'.read = w.read
  BY <1>4 DEF Rest
<1> QED BY <1>1, <1>2, <1>3, <1>5, <1>6 DEF TranscriptInv

LEMMA ChunkStep ==
  ASSUME TranscriptInv, NEW n \in 1..MaxChunk, Chunk(n)
  PROVE  TranscriptInv' /\ Kept(w, w')
<1>1. PICK kinds \in [Whole(TextFrom(w, received')) -> Kinds] : w' = Parse(w, kinds, received')
  BY DEF Chunk
<1>2. w.transport = "sse" /\ received' = received + n /\ w'.arrived <= MaxArrivals /\ asked' = asked /\ loop' = loop
  BY DEF Chunk
<1>3. Good(w) /\ received \in Nat /\ w.read <= received /\ w.read \in Nat
  BY IsSteady, Fields DEF TranscriptInv
<1>4. received' \in Nat /\ w.read <= received'
  BY <1>2, <1>3
<1> DEFINE length == received'
<1>5. length \in Nat /\ w.read <= length /\ kinds \in [Whole(TextFrom(w, length)) -> Kinds] /\ w' = Parse(w, kinds, length)
  BY <1>1, <1>4
<1> HIDE DEF length
<1>6. Good(w') /\ AllGrown(w, w') /\ w'.transport = "sse" /\ w'.read = length /\ (w'.polling => w.polling)
  BY <1>2, <1>3, <1>5, ChunkParsed
<1>7. Kept(w, w')
  BY <1>6, GrownKept
<1>8. w'.read <= received'
  BY <1>4, <1>6 DEF length
<1>9. loop' \in BOOLEAN /\ asked' \in Seq({"send", "reset", "history"}) /\ (w'.polling => loop')
      /\ (loop' => w'.transport = "polling")
  BY <1>2, <1>6 DEF TranscriptInv
<1> QED BY <1>2, <1>4, <1>6, <1>7, <1>8, <1>9 DEF TranscriptInv

LEMMA ResponseEndsStep ==
  ASSUME TranscriptInv, ResponseEnds
  PROVE  TranscriptInv' /\ Kept(w, w')
<1> DEFINE a == [w EXCEPT !.sseRequest = FALSE]
           b == ResetStreamBuffers(a)
           c == SetSending(b, FALSE)
<1>1. w' \in {c, AddMessage(c, "note")} /\ asked' = asked /\ loop' = loop /\ received' = received
  BY DEF ResponseEnds
<1>2. Follows(w, a)
  BY IsSteady, RequestOver
<1> HIDE DEF a
<1>3. Follows(a, b)
  BY <1>2, BuffersReset DEF Follows
<1> HIDE DEF b
<1>4. Follows(b, c)
  BY <1>3, SendingSet DEF Follows
<1> HIDE DEF c
<1>5. Follows(w, c)
  BY <1>2, <1>3, <1>4, IsSteady, FollowsThrice
<1>6. Follows(w, w')
  <2>1. CASE w' = c
    BY <1>5, <2>1
  <2>2. CASE w' = AddMessage(c, "note")
    <3>1. Follows(c, w')
      BY <1>5, <2>2, MessageAdded DEF Follows
    <3> QED BY <1>5, <3>1, IsSteady, FollowsTwice
  <2> QED BY <1>1, <2>1, <2>2
<1>7. asked' \in Seq(Operations)
  BY <1>1 DEF TranscriptInv, Operations
<1> QED BY <1>1, <1>6, <1>7, FollowsStep

LEMMA FrameStep ==
  ASSUME TranscriptInv, Frame
  PROVE  TranscriptInv' /\ Kept(w, w')
<1>1. w' = FlushDeltas(w) /\ asked' = asked /\ loop' = loop /\ received' = received
  BY DEF Frame
<1>2. Follows(w, w')
  BY <1>1, IsSteady, Flushed
<1>3. asked' \in Seq(Operations)
  BY <1>1 DEF TranscriptInv, Operations
<1> QED BY <1>1, <1>2, <1>3, FollowsStep

LEMMA EnterStep ==
  ASSUME TranscriptInv, NEW op \in {"send", "reset"}, Enter(op)
  PROVE  TranscriptInv' /\ Kept(w, w')
<1> DEFINE a == ResetStreamBuffers(w)
           b == AddMessage(a, "user")
<1>1. /\ \/ w' = SetSending(b, TRUE) /\ asked' = Append(asked, op)
         \/ w' = AddMessage(b, "note") /\ asked' = asked
      /\ loop' = loop /\ received' = received
  BY DEF Enter, Ask
<1>2. Follows(w, a)
  BY IsSteady, BuffersReset
<1> HIDE DEF a
<1>3. Follows(a, b)
  BY <1>2, MessageAdded DEF Follows
<1> HIDE DEF b
<1>4. Follows(b, w')
  <2>1. CASE w' = SetSending(b, TRUE)
    BY <1>3, <2>1, SendingSet DEF Follows
  <2>2. CASE w' = AddMessage(b, "note")
    BY <1>3, <2>2, MessageAdded DEF Follows
  <2> QED BY <1>1, <2>1, <2>2
<1>5. Follows(w, w')
  BY <1>2, <1>3, <1>4, IsSteady, FollowsThrice
<1>6. asked' \in Seq(Operations)
  <2>1. asked \in Seq(Operations) /\ op \in Operations
    BY DEF TranscriptInv, Operations
  <2>2. Append(asked, op) \in Seq(Operations)
    BY <2>1, AskedAppend
  <2> QED BY <1>1, <2>1, <2>2
<1> QED BY <1>1, <1>5, <1>6, FollowsStep

LEMMA AcceptedStep ==
  ASSUME TranscriptInv, Accepted
  PROVE  TranscriptInv' /\ Kept(w, w')
<1>1. Answered("send") /\ Connect
  BY DEF Accepted
<1>2. asked' \in Seq(Operations)
  BY <1>1, WasAsked
<1>3. Steady(w) /\ w \in Windows /\ w.arrived \in Nat /\ w.transport \in {"polling", "sse"}
  BY IsSteady, Fields
<1>4. CASE w.polling \/ w.sseRequest
  <2>1. w' = w /\ loop' = loop /\ received' = received
    BY <1>1, <1>4 DEF Connect
  <2>2. Follows(w, w')
    BY <1>3, <2>1, FollowsSelf
  <2> QED BY <1>2, <2>1, <2>2, FollowsStep
<1>5. CASE ~(w.polling \/ w.sseRequest)
  <2> DEFINE poll == w.transport = "polling"
  <2>1. /\ w' = [w EXCEPT !.sseRequest = TRUE, !.bubble = NoBubble, !.read = 0, !.seen = <<>>, !.polling = poll]
        /\ loop' = (loop \/ poll) /\ received' = 0
    BY <1>1, <1>5 DEF Connect
  <2>2. poll \in BOOLEAN /\ <<>> \in Seq(Nat) /\ NoBubble \in Nat
    BY DEF NoBubble
  <2> HIDE DEF poll
  <2>3. w' \in Windows
    BY <1>3, <2>1, <2>2 DEF Windows
  <2>4. /\ w'.shown = w.shown /\ w'.bubble = NoBubble /\ w'.queue = w.queue /\ w'.frame = w.frame
        /\ w'.arrived = w.arrived /\ w'.seen = <<>> /\ w'.read = 0 /\ w'.buffer = w.buffer
        /\ w'.transport = w.transport /\ w'.rows = w.rows /\ w'.polling = poll
    BY <1>3, <2>1 DEF Windows
  <2>5. Steady(w') /\ AllGrown(w, w')
    <3>1. w'.arrived >= w.arrived
      BY <1>3, <2>4
    <3> QED BY <1>3, <2>3, <2>4, <3>1, SameShown
  <2>6. SeenFits(w')
    <3>1. \A k \in 1..Len(w.buffer) : ~Ends(w.buffer[k])
      BY DEF TranscriptInv, Good, SeenFits
    <3> QED BY <2>4, <3>1 DEF SeenFits, Increasing
  <2>7. RowsFit(w')
    BY <2>4 DEF TranscriptInv, Good, RowsFit
  <2>8. Kept(w, w')
    BY <2>5, GrownKept
  <2>9. loop' \in BOOLEAN /\ (w'.polling => loop') /\ (loop' => w'.transport = "polling")
    BY <2>1, <2>2, <2>4 DEF TranscriptInv, poll
  <2>10. w'.arrived <= MaxArrivals /\ received' \in Nat /\ w'.read <= received'
    BY <2>1, <2>4 DEF TranscriptInv
  <2> QED BY <1>2, <2>5, <2>6, <2>7, <2>8, <2>9, <2>10 DEF TranscriptInv, Good, Operations
<1> QED BY <1>4, <1>5

LEMMA NotAcceptedStep ==
  ASSUME TranscriptInv, NotAccepted
  PROVE  TranscriptInv' /\ Kept(w, w')
<1>1. PICK kind \in {"note", "claude"} : w' = SetSending(AddMessage(w, kind), FALSE)
  BY DEF NotAccepted
<1>2. asked' \in Seq(Operations) /\ loop' = loop /\ received' = received
  BY WasAsked DEF NotAccepted
<1> DEFINE a == AddMessage(w, kind)
<1>3. Follows(w, a)
  BY IsSteady, MessageAdded
<1>4. w' = SetSending(a, FALSE)
  BY <1>1
<1> HIDE DEF a
<1>5. Follows(a, w')
  BY <1>3, <1>4, SendingSet DEF Follows
<1>6. Follows(w, w')
  BY <1>3, <1>5, IsSteady, FollowsTwice
<1> QED BY <1>2, <1>6, FollowsStep

\* A step that leaves no thinking block of those before it.
LEMMA ClearedStep ==
  ASSUME TranscriptInv, NEW v, Follows(w, v), NEW u, u = ClearMessages(v), Follows(u, w'),
         \A i \in 1..Len(w'.shown) : w'.shown[i].kind # "thinking",
         asked' \in Seq(Operations), loop' = loop, received' = received
  PROVE  TranscriptInv' /\ Kept(w, w')
<1>1. Steady(v) /\ Rest(w, v)
  BY DEF Follows
<1>2. Steady(u) /\ Rest(v, u)
  BY <1>1, Cleared
<1>3. Steady(w') /\ Rest(u, w')
  BY DEF Follows
<1>4. Rest(w, w')
  BY <1>1, <1>2, <1>3 DEF Rest
<1>5. Good(w')
  <2>1. SeenFits(w')
    BY <1>4, SeenKept DEF TranscriptInv, Good, Rest
  <2>2. RowsFit(w')
    BY <1>4 DEF TranscriptInv, Good, Rest, RowsFit
  <2> QED BY <1>3, <2>1, <2>2 DEF Good
<1>6. Kept(w, w')
  <2>1. w \in Windows /\ w' \in Windows
    BY <1>3, IsSteady, SteadyFields
  <2>2. Len(w.shown) \in Nat /\ Len(w'.shown) \in Nat
    BY <2>1, Fields
  <2>3. ASSUME NEW i \in 1..Len(w.shown), i <= Len(w'.shown) PROVE w'.shown[i].kind # "thinking"
    <3>1. i \in 1..Len(w'.shown)
      BY <2>2, <2>3
    <3> QED BY <3>1
  <2> QED BY <2>3 DEF Kept
<1>7. w'.arrived = w.arrived /\ w'.read = w.read /\ w'.transport = w.transport /\ (w'.polling => w.polling)
  BY <1>4 DEF Rest
<1> QED BY <1>5, <1>6, <1>7 DEF TranscriptInv, Operations

LEMMA WasResetStep ==
  ASSUME TranscriptInv, WasReset
  PROVE  TranscriptInv' /\ Kept(w, w')
<1> DEFINE a == [w EXCEPT !.session = TRUE]
           b == ClearMessages(a)
           c == AddMessage(b, "note")
<1>1. w' = SetSending(c, FALSE) /\ loop' = loop /\ received' = received /\ asked' \in Seq(Operations)
  BY WasAsked DEF WasReset
<1>2. Follows(w, a)
  BY IsSteady, SessionLeft
<1> HIDE DEF a
<1>3. Steady(b) /\ b.shown = <<>>
  BY <1>2, Cleared DEF Follows
<1>4. b = ClearMessages(a)
  BY DEF b
<1> HIDE DEF b
<1>5. Follows(b, c)
  BY <1>3, MessageAdded
<1>6. c.shown = <<Element("note", <<>>, FALSE)>>
  <2> DEFINE e == Element("note", <<>>, FALSE)
  <2> HIDE DEF e
  <2>1. b \in Windows
    BY <1>3, SteadyFields
  <2>2. c.shown = Append(b.shown, e)
    BY <2>1 DEF AddMessage, Windows, e
  <2>3. Append(<<>>, e) = <<e>>
    OBVIOUS
  <2> QED BY <1>3, <2>2, <2>3 DEF e
<1> HIDE DEF c
<1>7. Follows(c, w')
  BY <1>1, <1>5, SendingSet DEF Follows
<1>8. Follows(b, w')
  BY <1>3, <1>5, <1>7, FollowsTwice
<1>9. w'.shown = c.shown
  <2>1. c \in Windows
    BY <1>5, SteadyFields DEF Follows
  <2> QED BY <1>1, <2>1 DEF SetSending, UpdateStatus, Windows
<1>10. \A i \in 1..Len(w'.shown) : w'.shown[i].kind # "thinking"
  BY <1>6, <1>9 DEF Element
<1> QED BY <1>1, <1>2, <1>4, <1>8, <1>10, ClearedStep

LEMMA StopStep ==
  ASSUME TranscriptInv, Stop
  PROVE  TranscriptInv' /\ Kept(w, w')
<1> DEFINE a == Abort(w)
           b == [a EXCEPT !.polling = FALSE]
           c == FinalizeThinking(b)
           d == [c EXCEPT !.bubble = NoBubble]
           e == ResetStreamBuffers(d)
           f == SetSending(e, FALSE)
<1>1. w' = AddMessage(f, "note") /\ asked' = asked /\ loop' = loop /\ received' = received
  BY DEF Stop
<1>2. Follows(w, a)
  BY IsSteady, Aborted
<1> HIDE DEF a
<1>3. Follows(a, b)
  BY <1>2, PollingOver DEF Follows
<1> HIDE DEF b
<1>4. Follows(b, c)
  BY <1>3, ThinkingFinalized DEF Follows
<1> HIDE DEF c
<1>5. Follows(c, d)
  BY <1>4, BubbleDropped DEF Follows
<1> HIDE DEF d
<1>6. Follows(d, e)
  BY <1>5, BuffersReset DEF Follows
<1> HIDE DEF e
<1>7. Follows(e, f)
  BY <1>6, SendingSet DEF Follows
<1> HIDE DEF f
<1>8. Follows(f, w')
  BY <1>1, <1>7, MessageAdded DEF Follows
<1>9. Follows(w, c)
  BY <1>2, <1>3, <1>4, IsSteady, FollowsThrice
<1>10. Follows(w, e)
  BY <1>5, <1>6, <1>9, IsSteady, FollowsThrice
<1>11. Follows(w, w')
  BY <1>7, <1>8, <1>10, IsSteady, FollowsThrice
<1>12. asked' \in Seq(Operations)
  BY <1>1 DEF TranscriptInv, Operations
<1> QED BY <1>1, <1>11, <1>12, FollowsStep

LEMMA SwitchStep ==
  ASSUME TranscriptInv, Switch
  PROVE  TranscriptInv' /\ Kept(w, w')
<1> DEFINE a == Abort(w)
           b == [a EXCEPT !.sending = FALSE, !.session = TRUE]
<1>1. w' = ClearMessages(b) /\ asked' = Append(asked, "history") /\ loop' = loop /\ received' = received
  BY DEF Switch, Ask
<1>2. Follows(w, a)
  BY IsSteady, Aborted
<1> HIDE DEF a
<1>3. Follows(a, b)
  BY <1>2, SendingLeft DEF Follows
<1> HIDE DEF b
<1>4. Follows(w, b)
  BY <1>2, <1>3, IsSteady, FollowsTwice
<1>5. Steady(w') /\ w'.shown = <<>>
  BY <1>1, <1>4, Cleared DEF Follows
<1>6. Follows(w', w')
  BY <1>5, FollowsSelf
<1>7. \A i \in 1..Len(w'.shown) : w'.shown[i].kind # "thinking"
  BY <1>5
<1>8. asked' \in Seq(Operations)
  <2>1. asked \in Seq(Operations) /\ "history" \in Operations
    BY DEF TranscriptInv, Operations
  <2> QED BY <1>1, <2>1, AskedAppend
<1> QED BY <1>1, <1>4, <1>6, <1>7, <1>8, ClearedStep

LEMMA HistoryStep ==
  ASSUME TranscriptInv, History
  PROVE  TranscriptInv' /\ Kept(w, w')
<1> DEFINE a == AddMessage(w, "user")
<1>1. w' \in {w, AddMessage(a, "claude"), AddMessage(w, "note")} /\ loop' = loop /\ received' = received
  BY DEF History
<1>2. asked' \in Seq(Operations)
  BY WasAsked DEF History
<1>3. Follows(w, a)
  BY IsSteady, MessageAdded
<1> HIDE DEF a
<1>4. CASE w' = w
  <2>1. Follows(w, w')
    BY <1>4, IsSteady, FollowsSelf
  <2> QED BY <1>1, <1>2, <2>1, FollowsStep
<1>5. CASE w' = AddMessage(a, "claude")
  <2>1. Follows(a, w')
    BY <1>3, <1>5, MessageAdded DEF Follows
  <2>2. Follows(w, w')
    BY <1>3, <2>1, IsSteady, FollowsTwice
  <2> QED BY <1>1, <1>2, <2>2, FollowsStep
<1>6. CASE w' = AddMessage(w, "note")
  <2>1. Follows(w, w')
    BY <1>6, IsSteady, MessageAdded
  <2> QED BY <1>1, <1>2, <2>1, FollowsStep
<1> QED BY <1>1, <1>4, <1>5, <1>6

LEMMA ToggleStep ==
  ASSUME TranscriptInv, NEW i \in 1..Len(w.shown), Toggle(i)
  PROVE  TranscriptInv' /\ Kept(w, w')
<1> DEFINE old == w.shown[i]
           e == [old EXCEPT !.open = ~old.open]
           s == [w.shown EXCEPT ![i] = e]
<1>1. /\ old.kind = "thinking" /\ w' = [w EXCEPT !.shown = s]
      /\ asked' = asked /\ loop' = loop /\ received' = received
  BY DEF Toggle
<1>2. Steady(w) /\ w \in Windows /\ Drawing(w, 0) /\ Len(w.shown) \in Nat
  BY IsSteady, SteadyFields, Fields
<1>3. old \in Elements
  BY <1>2, ElementAt
<1>4. e \in Elements /\ e.kind = "thinking" /\ e.ids = old.ids
  <2> HIDE DEF old
  <2> QED BY <1>1, <1>3 DEF Elements
<1>5. s \in Seq(Elements) /\ Len(s) = Len(w.shown) /\ \A k \in 1..Len(w.shown) : s[k] = IF k = i THEN e ELSE w.shown[k]
  BY <1>2, <1>4, Replaced
<1> HIDE DEF e, s
<1>6. w' \in Windows
  BY <1>1, <1>2, <1>5 DEF Windows
<1>7. /\ w'.shown = s /\ w'.bubble = w.bubble /\ w'.queue = w.queue /\ w'.frame = w.frame /\ Rest(w, w')
  BY <1>1, <1>2 DEF Windows, Rest
<1>8. Len(w'.shown) = Len(w.shown)
      /\ \A k \in 1..Len(w.shown) : w'.shown[k].kind = w.shown[k].kind /\ w'.shown[k].ids = w.shown[k].ids
  BY <1>1, <1>4, <1>5, <1>7
<1> HIDE DEF old
<1>9. Steady(w')
  BY <1>2, <1>6, <1>7, <1>8, SameElements DEF Steady, Rest
<1>10. SeenFits(w') /\ RowsFit(w')
  BY <1>7, SeenKept DEF TranscriptInv, Good, Rest, RowsFit
<1>11. Kept(w, w')
  BY <1>8 DEF Kept
<1>12. w'.arrived = w.arrived /\ w'.read = w.read /\ w'.transport = w.transport /\ (w'.polling => w.polling)
  BY <1>7 DEF Rest
<1> QED BY <1>1, <1>9, <1>10, <1>11, <1>12 DEF TranscriptInv, Good

-----------------------------------------------------------------------------
(* The theorems *)

LEMMA TranscriptBegins == Init => TranscriptInv
<1> SUFFICES ASSUME Init PROVE TranscriptInv
  OBVIOUS
<1>1. PICK t \in Transports :
        w = [transport |-> t, session |-> TRUE, shown |-> <<>>, bubble |-> NoBubble,
             queue |-> <<>>, frame |-> FALSE, sseRequest |-> FALSE, polling |-> FALSE,
             read |-> 0, buffer |-> <<>>, seen |-> <<>>, sending |-> FALSE, stopIcon |-> FALSE,
             disabled |-> FALSE, status |-> "connected", rows |-> <<>>, arrived |-> 0]
  BY DEF Init
<1>2. asked = <<>> /\ loop = FALSE /\ received = 0
  BY DEF Init
<1>3. t \in {"polling", "sse"} /\ MaxArrivals \in Nat /\ DebugRows \in Nat
  BY TranscriptAssumption
<1>4. /\ w.transport = t /\ w.shown = <<>> /\ w.bubble = 0 /\ w.queue = <<>> /\ w.polling = FALSE
      /\ w.read = 0 /\ w.buffer = <<>> /\ w.seen = <<>> /\ w.rows = <<>> /\ w.arrived = 0
  BY <1>1 DEF NoBubble
<1>5. w \in Windows
  <2>1. "connected" \in Statuses /\ NoBubble \in Nat /\ <<>> \in Seq(Elements) /\ <<>> \in Seq(Deltas) /\ <<>> \in Seq(Nat)
    BY DEF Statuses, NoBubble
  <2> QED BY <1>1, <1>3, <2>1 DEF Windows
<1>6. BubbleFits(w) /\ Ordered(w) /\ Behind(w, 0) /\ InLine(w) /\ Numbered(w)
  BY <1>4 DEF BubbleFits, Ordered, InElements, Behind, InLine, Numbered
<1>7. SeenFits(w)
  BY <1>4 DEF SeenFits, Increasing
<1>8. RowsFit(w)
  BY <1>3, <1>4 DEF RowsFit, LatestRows, Capped
<1>9. Good(w)
  BY <1>4, <1>5, <1>6, <1>7, <1>8 DEF Good, Steady, Drawing
<1>10. asked \in Seq({"send", "reset", "history"})
  BY <1>2
<1>11. w.arrived <= MaxArrivals /\ received \in Nat /\ w.read <= received
  BY <1>2, <1>3, <1>4
<1>12. loop \in BOOLEAN /\ (w.polling => loop) /\ (loop => w.transport = "polling")
  BY <1>2, <1>4
<1> QED BY <1>9, <1>10, <1>11, <1>12, Zenon DEF TranscriptInv

LEMMA TranscriptStutters == ASSUME TranscriptInv, UNCHANGED vars PROVE TranscriptInv' /\ Kept(w, w')
<1>1. w' = w /\ asked' = asked /\ loop' = loop /\ received' = received
  BY DEF vars
<1>2. Follows(w, w')
  BY <1>1, IsSteady, FollowsSelf
<1>3. asked' \in Seq(Operations)
  BY <1>1 DEF TranscriptInv, Operations
<1> QED BY <1>1, <1>2, <1>3, FollowsStep

LEMMA TranscriptGoesOn == ASSUME TranscriptInv, [Next]_vars PROVE TranscriptInv' /\ Kept(w, w')
<1>1. CASE \E kind \in Kinds : PolledEvent(kind)
  BY <1>1, PolledEventStep
<1>2. CASE LoopEnds
  BY <1>2, LoopEndsStep
<1>3. CASE \E n \in 1..MaxChunk : Chunk(n)
  BY <1>3, ChunkStep
<1>4. CASE ResponseEnds
  BY <1>4, ResponseEndsStep
<1>5. CASE Frame
  BY <1>5, FrameStep
<1>6. CASE \E op \in {"send", "reset"} : Enter(op)
  BY <1>6, EnterStep
<1>7. CASE Accepted
  BY <1>7, AcceptedStep
<1>8. CASE NotAccepted
  BY <1>8, NotAcceptedStep
<1>9. CASE WasReset
  BY <1>9, WasResetStep
<1>10. CASE Stop
  BY <1>10, StopStep
<1>11. CASE Switch
  BY <1>11, SwitchStep
<1>12. CASE History
  BY <1>12, HistoryStep
<1>13. CASE \E i \in 1..Len(w.shown) : Toggle(i)
  BY <1>13, ToggleStep
<1>14. CASE UNCHANGED vars
  BY <1>14, TranscriptStutters
<1> QED BY <1>1, <1>2, <1>3, <1>4, <1>5, <1>6, <1>7, <1>8, <1>9, <1>10, <1>11, <1>12, <1>13, <1>14 DEF Next

\* TranscriptInv is an inductive invariant.
THEOREM TranscriptInvariance == Spec => []TranscriptInv
<1>1. Init => TranscriptInv
  BY TranscriptBegins
<1>2. TranscriptInv /\ [Next]_vars => TranscriptInv'
  BY TranscriptGoesOn
<1> QED BY <1>1, <1>2, PTL DEF Spec

LEMMA NumbersFit ==
  ASSUME NEW ids \in Seq(Nat), NEW n \in Nat, \A m \in Range(ids) : m \in 1..n
  PROVE  ids \in Seq(1..n)
<1>1. \A k \in 1..Len(ids) : ids[k] \in 1..n
  BY DEF Range
<1> QED BY <1>1

LEMMA TypesFit == TranscriptInv => TypeOK
<1> SUFFICES ASSUME TranscriptInv PROVE TypeOK
  OBVIOUS
<1>1. /\ w \in Windows /\ Drawing(w, 0) /\ w.arrived \in Nat /\ MaxArrivals \in Nat /\ w.arrived <= MaxArrivals
      /\ w.queue \in Seq(Deltas)
  BY IsSteady, SteadyFields, Fields, TranscriptAssumption DEF TranscriptInv
<1>2. \A m \in 1..w.arrived : m \in 1..MaxArrivals
  BY <1>1
<1>3. ASSUME NEW i \in 1..Len(w.shown)
      PROVE  w.shown[i] \in [kind : {"user", "claude", "note", "tool", "thinking"},
                             ids : Seq(1..MaxArrivals), done : BOOLEAN, open : BOOLEAN]
  <2> DEFINE e == w.shown[i]
  <2>1. e \in Elements /\ e.ids \in Seq(Nat)
    BY <1>1, ElementAt
  <2>2. \A m \in Range(e.ids) : m \in 1..MaxArrivals
    BY <1>1, <1>2 DEF Drawing, Numbered
  <2> HIDE DEF e
  <2>3. e.ids \in Seq(1..MaxArrivals)
    BY <1>1, <2>1, <2>2, NumbersFit
  <2>4. e \in [kind : {"user", "claude", "note", "tool", "thinking"},
               ids : Seq(1..MaxArrivals), done : BOOLEAN, open : BOOLEAN]
    BY <2>1, <2>3 DEF Elements
  <2> QED BY <2>4 DEF e
<1>4. w.bubble > 0 => w.bubble \in 1..Len(w.shown) /\ w.shown[w.bubble].kind = "claude"
  BY <1>1, BubblePlace DEF Drawing
<1>5. w.queue \in Seq([kind : {"text", "thinking"}, id : 1..MaxArrivals])
  <2> DEFINE q == w.queue
             T == [kind : {"text", "thinking"}, id : 1..MaxArrivals]
  <2>1. \A k \in 1..Len(q) : q[k].id \in 1..MaxArrivals
    BY <1>1, <1>2 DEF Drawing, Numbered
  <2> HIDE DEF q
  <2>2. q \in Seq(Deltas)
    BY <1>1 DEF q
  <2>3. ASSUME NEW k \in 1..Len(q) PROVE q[k] \in T
    <3>1. q[k] \in Deltas /\ q[k].id \in 1..MaxArrivals
      BY <2>1, <2>2
    <3> QED BY <3>1 DEF Deltas
  <2> HIDE DEF T
  <2>4. q \in Seq(T)
    BY <2>2, <2>3
  <2> QED BY <2>4 DEF q, T
<1>6. asked \in Seq({"send", "reset", "history"}) /\ (w.polling => loop) /\ w.arrived \in 0..MaxArrivals
  BY <1>1 DEF TranscriptInv
<1> QED BY <1>3, <1>4, <1>5, <1>6 DEF TypeOK

\* The variables of the message area keep their types: the bubble that deltas are written to is
\* shown and is one of Claude's, whatever was cleared, reset or replayed (sendMessage,
\* switchToSession, appendText).
THEOREM TranscriptTypes == Spec => []TypeOK
BY TranscriptInvariance, TypesFit, PTL

\* No delta waits in the queue without a frame that draws it (scheduleFlush, flushDeltas,
\* resetStreamBuffers).
THEOREM NoneIsStuck == Spec => []NothingIsStuck
<1>1. TranscriptInv => NothingIsStuck
  BY DEF TranscriptInv, Good, Steady, NothingIsStuck
<1> QED BY <1>1, TranscriptInvariance, PTL

\* The deltas of a kind are shown, and wait, in the order of their arrival (flushDeltas, appendText,
\* appendThinking), for every number of deltas, of elements and of rows.
THEOREM OrderIsShown == Spec => []ShownInOrder
<1>1. TranscriptInv => ShownInOrder
  <2> SUFFICES ASSUME TranscriptInv PROVE ShownInOrder
    OBVIOUS
  <2>1. Ordered(w) /\ Behind(w, 0) /\ InLine(w) /\ Len(w.queue) \in Nat
    BY IsSteady, Fields DEF Steady, Drawing
  <2>2. "claude" \in Bodies /\ "thinking" \in Bodies /\ DeltaOf("claude") = "text" /\ DeltaOf("thinking") = "thinking"
    BY DEF Bodies, DeltaOf
  <2>3. InElements(w, "claude") /\ InElements(w, "thinking")
    BY <2>1, <2>2 DEF Ordered
  <2>4. \A k \in 1..Len(w.queue) : \A i \in 1..(k - 1) : i \in 1..Len(w.queue) /\ i < k
    BY <2>1
  <2>5. ASSUME NEW kind \in Bodies PROVE InQueue(w, kind, DeltaOf(kind))
    <3> SUFFICES ASSUME NEW k \in 1..Len(w.queue), w.queue[k].kind = DeltaOf(kind)
                 PROVE  /\ \A i \in 1..Len(w.shown) : w.shown[i].kind = kind =>
                             \A m \in Range(w.shown[i].ids) : m < w.queue[k].id
                        /\ \A i \in 1..(k - 1) : w.queue[i].kind = DeltaOf(kind) => w.queue[i].id < w.queue[k].id
      BY DEF InQueue
    <3>1. k \in (0 + 1)..Len(w.queue)
      OBVIOUS
    <3>2. \A i \in 1..Len(w.shown) : w.shown[i].kind = kind => \A m \in Range(w.shown[i].ids) : m < w.queue[k].id
      BY <2>1, <3>1 DEF Behind
    <3>3. \A i \in 1..(k - 1) : w.queue[i].kind = DeltaOf(kind) => w.queue[i].id < w.queue[k].id
      BY <2>1, <2>4 DEF InLine
    <3> QED BY <3>2, <3>3
  <2>6. InQueue(w, "claude", "text") /\ InQueue(w, "thinking", "thinking")
    BY <2>2, <2>5
  <2> QED BY <2>3, <2>6 DEF ShownInOrder
<1> QED BY <1>1, TranscriptInvariance, PTL

\* However the text of a response is cut, its events are handled in order and once, and the debug
\* panel shows the newest (parseSSEChunk, logSSEEvent).
THEOREM OrderIsSeen == Spec => []SeenInOrder
<1>1. TranscriptInv => SeenInOrder
  BY DEF TranscriptInv, Good, SeenFits, RowsFit, LatestRows, Capped, SeenInOrder
<1> QED BY <1>1, TranscriptInvariance, PTL

\* A completed thinking block is not written again, and one that grows too long is folded
\* (appendThinking, finalizeThinking).
THEOREM BlocksAreKept == Spec => ThinkingIsKept
<1>1. TranscriptInv /\ [Next]_vars => Kept(w, w')
  BY TranscriptGoesOn
<1>2. TranscriptInv /\ [Next]_vars =>
        [\A i \in 1..Len(w.shown) :
           i <= Len(w'.shown) /\ w'.shown[i].kind = "thinking" /\ w'.shown[i].ids # w.shown[i].ids
             => ~w.shown[i].done /\ (Len(w'.shown[i].ids) <= FoldAt \/ ~w'.shown[i].open)]_vars
  BY <1>1 DEF Kept
<1> QED BY <1>2, TranscriptInvariance, PTL DEF Spec, ThinkingIsKept
=============================================================================
