------------------------------ MODULE Transcript ------------------------------
(***************************************************************************)
(* The message area of the floating window: how the events of a session    *)
(* become text bubbles, thinking blocks and tool lines.                    *)
(*                                                                         *)
(* Deltas are queued and drawn in the next animation frame; all other      *)
(* events act at once.  Events come from connectPolling or, in the client  *)
(* that is kept beside it, from connectSSE.  The fields of w are those of  *)
(* the object state of the code and the DOM that the handlers write, and a *)
(* function of the code is an operator from w to w.                        *)
(*                                                                         *)
(* A delta is the number of its arrival: a replayed event is a new one.    *)
(***************************************************************************)
EXTENDS Integers, SequencesExt

CONSTANTS
  Transports,  \* of connectPolling ("polling") and connectSSE ("sse")
  MaxArrivals, \* bound: events
  MaxShown,    \* bound: elements of the message area when the user acts
  MaxAsked,    \* bound: requests under way
  MaxChunk,    \* bound: halves of events in a chunk of an SSE response
  FoldAt,      \* 200 characters, counted in deltas
  DebugRows    \* DEBUG_MAX_ROWS

ASSUME TranscriptAssumption ==
  /\ Transports \subseteq {"polling", "sse"}
  /\ {MaxArrivals, MaxShown, MaxAsked, MaxChunk, FoldAt, DebugRows} \subseteq Nat

VARIABLES
  w,       \* the window
  asked,   \* sends and resets that wait for the Bridge
  loop,    \* a poll request is under way, or its timer is set
  received \* the length of responseText

vars == <<w, asked, loop, received>>

Kinds == {"text", "thinking", "tool", "complete", "result", "failed", "error", "closed"}

\* state.currentAssistantBubble: none, an element, or one that is not shown now
NoBubble == 0
Detached == -1

Element(kind, ids, open) == [kind |-> kind, ids |-> ids, done |-> FALSE, open |-> open]

\* The window has a session and an empty message area.
Init ==
  /\ \E t \in Transports :
       w = [transport |-> t, session |-> TRUE, shown |-> <<>>, bubble |-> NoBubble,
            queue |-> <<>>, frame |-> FALSE, sseRequest |-> FALSE, polling |-> FALSE,
            read |-> 0, buffer |-> <<>>, seen |-> <<>>, sending |-> FALSE, stopIcon |-> FALSE,
            disabled |-> FALSE, status |-> "connected", rows |-> <<>>, arrived |-> 0]
  /\ asked = <<>>
  /\ loop = FALSE
  /\ received = 0

-----------------------------------------------------------------------------
(* The functions that draw *)

AddMessage(v, kind) == [v EXCEPT !.shown = Append(@, Element(kind, <<>>, FALSE))]

\* appendToolCall, appendToolResult
AppendTool(v) == AddMessage(v, "tool")

ThinkingIsLast(v) == v.shown # <<>> /\ v.shown[Len(v.shown)].kind = "thinking"

NewBlock(v, id) ==
  [v EXCEPT !.shown = Append(@, Element("thinking", <<id>>, 1 <= FoldAt))]

GrownBlock(v, id) ==
  LET n == Len(v.shown) IN [v EXCEPT !.shown[n].ids = Append(@, id)]

FoldedBlock(v, id) ==
  LET n == Len(v.shown) IN
  [GrownBlock(v, id) EXCEPT !.shown[n].open = @ /\ Len(v.shown[n].ids) + 1 <= FoldAt]

AppendToAnyBlock(v, id) == \* faulty: to a completed block, too
  IF ~ThinkingIsLast(v) THEN NewBlock(v, id) ELSE FoldedBlock(v, id)

AppendThinking(v, id) ==
  IF ~ThinkingIsLast(v) \/ v.shown[Len(v.shown)].done THEN NewBlock(v, id) ELSE FoldedBlock(v, id)

FinalizeThinking(v) ==
  LET n == Len(v.shown) IN
  IF ~ThinkingIsLast(v) \/ v.shown[n].done THEN v
  ELSE [v EXCEPT !.shown[n].done = TRUE, !.shown[n].open = Len(v.shown[n].ids) <= FoldAt]

NewText(v, id) ==
  [v EXCEPT !.shown = Append(@, Element("claude", <<id>>, FALSE)), !.bubble = Len(v.shown) + 1]

MoreText(v, id) == [v EXCEPT !.shown[v.bubble].ids = Append(@, id)]

AppendToPrevious(v, id) == \* faulty: remembers the element before the new bubble
  CASE v.bubble = NoBubble -> [NewText(v, id) EXCEPT !.bubble = @ - 1]
    [] v.bubble = Detached -> v
    [] OTHER -> MoreText(v, id)

AppendText(v, id) ==
  CASE v.bubble = NoBubble -> NewText(v, id)
    [] v.bubble = Detached -> v
    [] OTHER -> MoreText(v, id)

Draw(v, delta) ==
  IF delta.kind = "text" THEN AppendText(v, delta.id) ELSE AppendThinking(v, delta.id)

\* The queue is drawn one delta after another.
DrawQueue(v) ==
  LET drawn[n \in 0..Len(v.queue)] == IF n = 0 THEN v ELSE Draw(drawn[n - 1], v.queue[n])
  IN drawn[Len(v.queue)]

DrawTwice(v) == [DrawQueue(v) EXCEPT !.frame = FALSE] \* faulty: the queue is kept
FlushDeltas(v) == [DrawQueue(v) EXCEPT !.queue = <<>>, !.frame = FALSE]

Enqueue(v, kind) == \* scheduleFlush
  [v EXCEPT !.queue = Append(@, [kind |-> kind, id |-> v.arrived]), !.frame = TRUE]

DropFrame(v) == [v EXCEPT !.buffer = <<>>, !.frame = FALSE] \* faulty: keeps the queue
ResetStreamBuffers(v) == [v EXCEPT !.buffer = <<>>, !.queue = <<>>, !.frame = FALSE]

ClearMessages(v) ==
  [v EXCEPT !.shown = <<>>, !.bubble = IF @ = NoBubble THEN NoBubble ELSE Detached]

UpdateStatus(v, text) == [v EXCEPT !.status = text]

SetSending(v, on) ==
  UpdateStatus([v EXCEPT !.sending = on, !.stopIcon = on, !.disabled = on],
               IF on THEN "thinking" ELSE IF v.session THEN "connected" ELSE "none")

\* state.sseRequest.abort(), of the poll client or of the SSE client
Abort(v) == [v EXCEPT !.polling = @ /\ ~v.sseRequest, !.sseRequest = FALSE]

-----------------------------------------------------------------------------
(* handleSSEEvent; system, raw, unknown and heartbeat draw nothing.          *)
(* "failed" is a result with is_error.                                       *)

EndOfResult(v) == SetSending(ResetStreamBuffers(FlushDeltas(
  [FinalizeThinking(v) EXCEPT !.bubble = NoBubble])), FALSE)

HandleSSEEvent(v, kind) ==
  CASE kind \in {"text", "thinking"} -> Enqueue(v, kind)
    [] kind = "tool" -> AppendTool(v)
    [] kind = "complete" -> [FinalizeThinking(v) EXCEPT !.bubble = NoBubble]
    [] kind = "result" -> EndOfResult(v)
    [] kind = "failed" -> AddMessage(EndOfResult(v), "note")
    [] kind = "error" -> SetSending(AddMessage(v, "note"), FALSE)
    [] kind = "closed" ->
         UpdateStatus([Abort(SetSending(AddMessage(v, "note"), FALSE)) EXCEPT !.session = FALSE],
                      "cut")

-----------------------------------------------------------------------------
(* Polling *)

\* A poll loop brings events one after another; one that was aborted may still
\* bring those of its last answer.
PolledEvent(kind) ==
  /\ loop
  /\ w.arrived < MaxArrivals
  /\ w' = HandleSSEEvent([w EXCEPT !.arrived = @ + 1], kind)
  /\ UNCHANGED <<asked, loop, received>>

LoopEnds ==
  /\ loop
  /\ ~w.polling \/ ~w.session
  /\ loop' = FALSE
  /\ w' = [w EXCEPT !.polling = FALSE]
  /\ UNCHANGED <<asked, received>>

-----------------------------------------------------------------------------
(* The SSE client.  The text of a response is counted in halves of events: an *)
(* event ends with its even half, which brings the empty line.               *)

EventOf(half) == half \div 2
Ends(half) == half % 2 = 0

\* logSSEEvent: the debug panel keeps the newest rows, the title line follows.
LogSSEEvent(v, kind) ==
  LET all == Append(v.rows, v.arrived)
      extra == IF Len(all) > DebugRows THEN Len(all) - DebugRows ELSE 0
  IN [v EXCEPT !.rows = SubSeq(all, extra + 1, Len(all)),
               !.status = IF v.sending THEN kind ELSE @]

\* The buffer after the last empty line, and the events before it that are whole.
Boundaries(text) == {i \in 1..Len(text) : Ends(text[i])}
KeepBuffer(text) == text \* faulty: what was parsed stays in the buffer
Remainder(text) ==
  IF Boundaries(text) = {} THEN text
  ELSE SubSeq(text, (CHOOSE i \in Boundaries(text) : \A j \in Boundaries(text) : j <= i) + 1,
              Len(text))
Whole(text) == {i \in 2..Len(text) : Ends(text[i]) /\ text[i - 1] = text[i] - 1}

\* parseSSEChunk: the chunk is responseText.slice(sseLastIndex).  A half whose other
\* half was dropped from the buffer is not JSON, and is passed over.
TextFrom(v, length) == v.buffer \o [i \in 1..(length - v.read) |-> v.read + i]

Heard(v, event) == [v EXCEPT !.seen = Append(@, event), !.arrived = @ + 1]

Parse(v, kinds, length) ==
  LET text == TextFrom(v, length)
      One(u, i) == HandleSSEEvent(LogSSEEvent(Heard(u, EventOf(text[i])), kinds[i]), kinds[i])
      parsed[i \in 0..Len(text)] ==
        IF i = 0 THEN [v EXCEPT !.read = length, !.buffer = Remainder(text)]
        ELSE IF i \in Whole(text) THEN One(parsed[i - 1], i) ELSE parsed[i - 1]
  IN parsed[Len(text)]

\* onprogress, and the rest of the response that onload finds
Chunk(n) ==
  /\ w.sseRequest
  /\ w.transport = "sse"
  /\ received' = received + n
  /\ EventOf(received') <= MaxArrivals
  /\ \E kinds \in [Whole(TextFrom(w, received')) -> Kinds] : w' = Parse(w, kinds, received')
  /\ w'.arrived <= MaxArrivals
  /\ UNCHANGED <<asked, loop>>

\* onload once all was parsed, onerror, ontimeout
ResponseEnds ==
  /\ w.sseRequest
  /\ w.transport = "sse"
  /\ LET over == SetSending(ResetStreamBuffers([w EXCEPT !.sseRequest = FALSE]), FALSE)
     IN w' \in {over, AddMessage(over, "note")}
  /\ UNCHANGED <<asked, loop, received>>

-----------------------------------------------------------------------------
(* Frames and the user *)

Frame ==
  /\ w.frame
  /\ w' = FlushDeltas(w)
  /\ UNCHANGED <<asked, loop, received>>

\* connectPolling or connectSSE
Connect ==
  IF w.polling \/ w.sseRequest THEN UNCHANGED <<w, loop, received>>
  ELSE /\ w' = [w EXCEPT !.sseRequest = TRUE, !.bubble = NoBubble, !.read = 0, !.seen = <<>>,
                         !.polling = (w.transport = "polling")]
       /\ loop' = (loop \/ w.transport = "polling")
       /\ received' = 0

Room == Len(w.shown) < MaxShown
Ask(op) == Len(asked) < MaxAsked /\ asked' = Append(asked, op)

\* sendMessage up to its await; with /reset, handleLocalCommand; or the command
\* is not for a chat.
Enter(op) ==
  /\ Room
  /\ w.session
  /\ ~w.sending
  /\ LET cleared == AddMessage(ResetStreamBuffers(w), "user") IN
     \/ w' = SetSending(cleared, TRUE) /\ Ask(op)
     \/ op = "send" /\ w' = AddMessage(cleared, "note") /\ UNCHANGED asked
  /\ UNCHANGED <<loop, received>>

Answered(op) == \E i \in 1..Len(asked) : asked[i] = op /\ asked' = RemoveAt(asked, i)

Accepted ==
  /\ Answered("send")
  /\ Connect

\* The send was refused or failed, or a command was answered.
NotAccepted ==
  /\ \E op \in {"send", "reset"} : Answered(op)
  /\ \E kind \in {"note", "claude"} : w' = SetSending(AddMessage(w, kind), FALSE)
  /\ UNCHANGED <<loop, received>>

WasReset ==
  /\ Answered("reset")
  /\ w' = SetSending(AddMessage(ClearMessages([w EXCEPT !.session = TRUE]), "note"), FALSE)
  /\ UNCHANGED <<loop, received>>

\* stopCurrentRun
Stop ==
  /\ Room
  /\ w.sending
  /\ LET quiet == [FinalizeThinking([Abort(w) EXCEPT !.polling = FALSE]) EXCEPT !.bubble = NoBubble]
     IN w' = AddMessage(SetSending(ResetStreamBuffers(quiet), FALSE), "note")
  /\ UNCHANGED <<asked, loop, received>>

\* switchToSession, or the window leaves a session that it deleted
Switch ==
  /\ w' = ClearMessages([Abort(w) EXCEPT !.sending = FALSE, !.session = TRUE])
  /\ Ask("history")
  /\ UNCHANGED <<loop, received>>

\* loadSessionHistory: a message of each role
History ==
  /\ Answered("history")
  /\ w' \in {w, AddMessage(AddMessage(w, "user"), "claude"), AddMessage(w, "note")}
  /\ UNCHANGED <<loop, received>>

\* A click on the summary of a thinking block.
Toggle(i) ==
  /\ i \in 1..Len(w.shown)
  /\ w.shown[i].kind = "thinking"
  /\ w' = [w EXCEPT !.shown[i].open = ~@]
  /\ UNCHANGED <<asked, loop, received>>

-----------------------------------------------------------------------------
Next ==
  \/ \E kind \in Kinds : PolledEvent(kind)
  \/ LoopEnds
  \/ \E n \in 1..MaxChunk : Chunk(n)
  \/ ResponseEnds
  \/ Frame
  \/ \E op \in {"send", "reset"} : Enter(op)
  \/ Accepted \/ NotAccepted \/ WasReset \/ Stop \/ Switch \/ History
  \/ \E i \in 1..Len(w.shown) : Toggle(i)

Spec == Init /\ [][Next]_vars

-----------------------------------------------------------------------------
(* Properties *)

Increasing(ids) == \A i, k \in 1..Len(ids) : i < k => ids[i] < ids[k]

\* The deltas of one kind that elements show, and those that wait.
InElements(v, kind) ==
  \A i, k \in 1..Len(v.shown) :
    v.shown[i].kind = kind /\ v.shown[k].kind = kind =>
      /\ Increasing(v.shown[i].ids)
      /\ i < k => \A m \in Range(v.shown[i].ids), n \in Range(v.shown[k].ids) : m < n

InQueue(v, kind, delta) ==
  \A k \in 1..Len(v.queue) : v.queue[k].kind = delta =>
    /\ \A i \in 1..Len(v.shown) : v.shown[i].kind = kind => \A m \in Range(v.shown[i].ids) : m < v.queue[k].id
    /\ \A i \in 1..(k - 1) : v.queue[i].kind = delta => v.queue[i].id < v.queue[k].id

\* What the variables hold.
TypeOK ==
  /\ \A i \in 1..Len(w.shown) :
       w.shown[i] \in [kind : {"user", "claude", "note", "tool", "thinking"},
                       ids : Seq(1..MaxArrivals), done : BOOLEAN, open : BOOLEAN]
  /\ w.bubble > 0 => w.bubble \in 1..Len(w.shown) /\ w.shown[w.bubble].kind = "claude"
  /\ w.queue \in Seq([kind : {"text", "thinking"}, id : 1..MaxArrivals])
  /\ asked \in Seq({"send", "reset", "history"})
  /\ w.polling => loop
  /\ w.arrived \in 0..MaxArrivals

\* scheduleFlush asks for a frame only when it believes that none is asked for,
\* and five handlers empty the queue or take the frame back, each in its way: a
\* delta never waits without a frame that draws it.
NothingIsStuck == w.queue # <<>> => w.frame

\* The deltas of a kind are shown in the order of their arrival, none of them twice,
\* whatever was drawn, queued, dropped and replayed before.
ShownInOrder ==
  /\ InElements(w, "claude") /\ InQueue(w, "claude", "text")
  /\ InElements(w, "thinking") /\ InQueue(w, "thinking", "thinking")

\* However a response is cut into chunks, the client handles its events in their order and
\* none of them twice, and the debug panel shows those that came last, as many as it has rows for.
SeenInOrder ==
  /\ Increasing(w.seen)
  /\ w.transport = "sse" =>
       /\ Len(w.rows) = IF w.arrived < DebugRows THEN w.arrived ELSE DebugRows
       /\ \A i \in 1..Len(w.rows) : w.rows[i] = w.arrived - Len(w.rows) + i

\* A thinking block that is closed with its final count of characters is not written again,
\* although later deltas look for the last block; and one that grows past 200 characters is
\* folded, also when the user has it open.
ThinkingIsKept ==
  [][\A i \in 1..Len(w.shown) :
       i <= Len(w'.shown) /\ w'.shown[i].kind = "thinking" /\ w'.shown[i].ids # w.shown[i].ids
         => ~w.shown[i].done /\ (Len(w'.shown[i].ids) <= FoldAt \/ ~w'.shown[i].open)]_vars
=============================================================================
