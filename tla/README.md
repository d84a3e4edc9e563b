# TLA+ verification of Dify Helper

Dify Helper lets a person who works in the Dify console talk to a Claude Code
agent that can read and change Dify applications. This directory holds TLA+
models of its stateful parts, TLC runs on small instances of them, and theorems
checked by TLAPS. `src/` below is the root of the repository.

## 1. The system

### Components and their state

| Component | Source | State | Operations |
|---|---|---|---|
| **SessionManager**: chat sessions, each backed by one `claude` stream-json process | `src/bridge/bridge/session_manager.py`, `session.py` | `_sessions` by (user, session), `_active_per_user`, one `asyncio.Lock`, per session: status, mode, process, read task, config file, messages, events | create, send (with lazy restart and local commands), abort, set_mode, close, reset, /switch, rename, history/export, one read loop per process, idle clean-up, start/stop |
| **EventStore** and polling endpoint | `event_store.py`, `session_manager.py:330`, `app.py:292` | list of (id, event), next id, an `asyncio.Event` | append, snapshot_since, long poll, SSE queue |
| **TaskQueue / Worker**: one-shot `claude -p` tasks | `task_queue.py`, `worker.py`, `models.py` | tasks by (user, task), submission order, the task being run | submit, get, pick_pending, update, run with timeout, start/stop |
| **SqliteStore** | `sqlite_store.py`, `migrations/` | users, sessions, messages, events, tasks | upsert_user, resolve_display_name, append_message, append_event, ... |
| **Identity** | `auth.py` | none (a user id is computed from the request) | compute_user_id, get_current_user |
| **HTTP API** | `app.py` | none of its own | 30 endpoints over the above, Dify proxies, DSL validation, DocHub |
| **Floating window**, sending and polling | `src/tampermonkey/*.user.js` | session id, event cursor, poll loop, "sending" flag | init, switch, delete, send, stop, reset, poll |
| **Floating window**, message area | the same | elements shown, queue of deltas, animation frame, SSE buffer, debug rows | handle an event, flush, append to a bubble or a thinking block, parse a chunk |
| **Floating window**, sessions and identity | the same | fingerprint, display name, MRU list, session list, drafts, their copies in the GM storage | bootstrap, open, switch, create, delete, rename, migrate keys, reload |
| **Floating window**, guest of the page | the same | host element, console hooks and buffer, page context, probes, badge, Bridge address | inject, restore, follow a route, capture, search for the Bridge, leave |
| **Floating window**, placement and controls | the same | places of button and panel, drag; popovers and their listeners, tabs, input, palette, mode | drag, clamp, resize; click, type, set the mode, load |
| **Dify console client** | `src/mcp_server/mcp_server/dify_client.py` | access, refresh and CSRF tokens | login, refresh, request with one retry |
| **MCP tools** | `src/mcp_server/mcp_server/server.py` | none between calls | read and write Dify apps, datasets, workflows |
| **Dify plugin** | `src/dify_plugin/` | none | submit a task, query it, fetch its result |
| **Scripts, skills, memory, docs** | `src/scripts/`, `src/skills/`, ... | files | offline |

### How they interact

The userscript calls the HTTP API with `GM_xmlhttpRequest` and polls for
events; the plugin calls the task endpoints. The API calls SessionManager and
TaskQueue in the same asyncio process. SessionManager and Worker start Claude
processes and talk to them through pipes; Claude starts the MCP server, which
calls the Dify console. SessionManager copies what it does to SQLite, and
follows its own memory only.

### What is hard

* Everything in the Bridge interleaves at its `await`s. One lock protects the
  session table, but `send_message` and `abort_session` let go of it before they
  are done, and read loops never take it.
* Processes die when they like; stopping one takes two steps (signal, wait), and
  its end of file starts yet another task (the read loop's `finally`).
* Cancelling a read loop runs code in it.
* The clean-up, the reset and the lazy restart decide on what they saw under an
  earlier hold of the lock.
* The poll client changes the session it follows while an answer is on its way.
* In the window everything interleaves at `await`s, timers, animation frames and
  observers, several handlers at a time, and the page may throw the window out,
  patch the console and change its route at any moment.
* What the window stores outlives the page; what it shows does not.
* A restart of the Bridge keeps the clients' ids and loses what they name.

What makes each component correct:

* SessionManager: no Claude process without a session that will kill it; one
  read loop per session, on the right process; a removed session is inert and
  was announced; config files live as long as their session; a request stays
  with its user; the active pointer never dangles; every request is answered.
* Worker: tasks run one at a time in the order of submission; a finished task
  stays finished and left neither process nor config file behind; every
  accepted task finishes.
* EventStore and poller: a poller sees every event once and in order, and
  learns that its session ended.
* Floating window: what it says of itself is true (it polls while it says so,
  and somebody will end its sending), and answers stay in their session.
* Message area: every delta is drawn once and in order, and what is finished
  stays as it is.
* Sessions of the window: the list of recent sessions is short and names each once;
  texts stay with the session they belong to.
* Guest of the page: one window at most, the console captured once and never
  against the user's switch, the badge true when no search is under way.
* Placement and controls: button and panel can be reached, popovers can be
  closed, nothing waits for what is not under way, the badge tells the mode.
* SqliteStore: message numbers are unique, nothing is refused silently, a
  display name belongs to one user.
* Dify console client: a request is retried at most once and never with a token
  known to be stale.

## 2. Plan

The modules in the order in which they were built, the most important behaviour
first:

1. `SessionManager`, `MCSessionManager`, `SessionManager_proofs`: the chat
   sessions, where most of the concurrency of the Bridge is.
2. `TaskService`, `TaskWorker`, `TaskWorker_proofs`: the one-shot tasks, as an
   abstract service and as the queue and worker that implement it.
3. `EventStream`: event store, long poll and the poll loop of one window, with proofs
   in `Events_proofs`.
4. `FloatingWindow`, `MCFloatingWindow`, `FloatingWindow_proofs`: the userscript
   as a client with several sessions (send, stop, switch, reset, create, delete),
   its handlers suspended at their awaits.
5. `Transcript`, `Events_proofs`: what the events of a session become on the screen.
6. `SessionClient`, `MCSessionClient`, `SessionClient_proofs`: identity, session list, drafts, storage.
7. `PageHost`, `MCPageHost`, `PageHost_proofs`: the window as a guest of the page, console
   capture and the search for the Bridge.
8. `Placement`, `MCPlacement`, `Placement_proofs`: where button and panel are.
9. `Panel`, `Panel_proofs`: popovers, tabs, input box and mode.

Not built: the copy in SQLite (`MessageLog`), the resolution of display names
(`DisplayName`), the console client of the MCP server (`DifyClient`), the DSL
validator (`ValidateDsl`), and an abstract specification of what `SessionManager`
promises (`SessionRegistry`). Section 6 says why they come last.

## 3. Modules

### SessionManager

One asyncio process runs a piece of code without interruption from one `await`
to the next. Every action is such a piece and is named after the method and the
point where it resumes; `job[h].pc` says where request `h` is suspended. The
program's objects appear as follows.

| Variable | Code |
|---|---|
| `sessions` | the keys of `_sessions` |
| `ses` | `ChatSession` objects: owner, status, mode, process, read task, whether the config file exists, kind of the newest event. They outlive their key, because suspended requests and read loops keep a reference |
| `activePerUser`, `lock` | `_active_per_user`, holder of `_lock` |
| `procs`, `rd` | Claude processes; read loops, each named by the process whose start created it. A loop records the process it really reads (`bound`), which the code looks up only when the loop first runs |
| `job` | the requests and the clean-up |
| `expired` | the clean-up's list |

What the model decides, and why:

* A request that waits for the lock takes its step when the lock is free;
  `asyncio.Lock` is first come, first served, which matters for liveness only.
* A wait for a process ends when the process is gone; the SIGKILL after the time
  limit is `Signal` followed by `ProcExit`. `_close_session_internal` goes on
  after its last `await` (the SQLite update) with the lock still held and without
  another assignment, so `CloseDrop` ends the request.
* `drain()` returns, and SQLite writes finish. Cancelling a read loop inside a
  SQLite write leaves through `finally`, like any other cancellation.
* `set_mode` gives the read loop two seconds (`ModeReaderTimeout`). What it does after
  them depends on who cancelled the loop, and on what the session refers to by then
  (`ModeReaderCancelled`, `ModeReaderDone`, `ModeReaderTimedOut`).
* Messages, history and event contents are left out; `asked` counts messages and
  `inbox` the ones a process has not answered.
* `config` is a file written in full.

### TaskService and TaskWorker

`TaskService` is what the endpoints promise: a task is pending, then running or
failed, then final, in the order of submission; a restart forgets everything.
`TaskWorker` has the queue, the worker suspended at its four `await`s, the
process of each task, the config files and what callers were last told. Its
`Implements` says that it is a `TaskService`, with `status` and `order` mapped to
themselves. The lock of `TaskQueue` is never contended, since its holders do not
await, so it does not appear. `Stop` (cancellation at shutdown), `Crash` and
`Start` are steps; whether the interpreter still kills Claude while it stops is
open, so both happen. Task keys are (user, id): a caller who is not the owner is
one who does not know the id.

### EventStream

The event at place `i` of `log` has the id `i - 1`, as in `EventStore`. The
endpoint checks that the session is registered (`Arrive`), looks up the store
under the manager's lock and takes the backlog (`LookUp`), and otherwise waits for
the event object or `max_wait` (`WakeUp`, possible at any time). The window is
`connectPolling` (`ConnectPolling`), `pollOnce` up to its `await` (`Poll`) and after it
(`Handle`); `Fail` loses the request or the answer anywhere between. The events
of an answer are the ids after `since`; `shown` is the sequence of ids the window has
handled since it connected. A stop (`StopPolling`) clears `pollingActive` (`active`) and
leaves the loop to end at its next look; a new connection sets the cursor to the
beginning, so that the whole log comes again. Here it is made when the old loop has
ended; two loops at a time, and what switching and deleting do to them, belong to
`FloatingWindow`. A
`session_closed` may stand anywhere in the log, because the read loop also pushes
one when Claude exits and the session stays registered then.

### FloatingWindow

The client with everything that can happen while an answer is on its way.
JavaScript interrupts a handler at its `await` only, so a handler is an entry of
`jobs`: the piece up to the `await` (`Enter`, `New`, `Delete`, `OpenPanel`), the
request at the Bridge (`Serve`, `Refuse`), and the piece that handles the answer
(`Sent`, `WasReset`, `Created`, `Deleted`, `Opened`, `Failed`). `Stop` and
`Switch` have no `await` before their last assignment. Reading a history or a mode
after a switch changes no variable of the model. A poll loop is an entry of
`loops`: a 50 ms timer, a request or its answer. `abort()` of a poll only clears
`pollingActive`, so a loop that was stopped goes on if the flag is set again before
it looks, beside the loop that set it; this is why there are several.

The Bridge appears as what a window can see of it: the log of every session,
which sessions are registered, and in which Claude works. An event is of the kind
`data`, `result` (or `error`) or `closed`. Drafts, the session list and the GM
storage are in `SessionClient`; here a window that leaves a deleted session takes
any other.

The five modules that follow are about the same script, each about the state that
its properties need. They share no variable, but some handlers appear in several of
them with the part that concerns each: `switchToSession` moves the poll loop in
`FloatingWindow`, drafts and storage in `SessionClient`, the message area in
`Transcript`, and the input box in `Panel`.

### Transcript

The state object and the message area are one record `w`, and a function of the
code is an operator from `w` to `w`, so that `HandleSSEEvent` is composed as the
code composes it. A delta is the number of its arrival, a replayed one a new number.
`w.queue` and `w.frame` are `pendingDeltaQueue` and `pendingFlush`. `PolledEvent` is
what `pollOnce` does with an event. `Chunk` and `ResponseEnds` are the SSE client
(`connectSSE`, `parseSSEChunk`), where a response is a sequence of halves of events
that is cut anywhere; the script still has it and nothing in it calls `connectSSE` any
more, since `sendMessage` connects by `connectPolling` only. A stopped run, a switch, a reset and a history act on the same
record. `w.disabled` and `w.stopIcon` are the two ways in which `setSending` marks the
button.

### SessionClient

A handler is a sequence of stages, the first of which waits for its answer; what the
code does after the answer is one action (`Stored`, `Recent`, `Created`, `Listed`,
`Deleted`, ...), which may put further stages in front. A text is the set of sessions
in whose view its parts were typed, since all that matters is where a
text ends up. `gm` is the GM storage under the two prefixes that `getStoragePrefix`
can give; `Users` are the three identities that the headers of `gmFetch` can carry. A
request may be refused or lost at every stage. Sessions end or are created by others
at any time (`End`, `Other`). The GM storage is one for all windows of the user:
another window writes its own session, list, drafts, fingerprint and name under the same
keys (`OtherStores` for the prefixes in `OtherPrefixes`, `OtherNames`). `SessionClosed`
may come at any time, for whatever session is shown, because a polled event carries no
session: the one that is shown has ended, its run was stopped, or the answer is about one
that was left. `lost` remembers that it took away a session that had not ended. The message
area is in `Transcript`. `Patient` says that the user waits for handlers to end
before the next act, and does not change the display name while a session is shown;
the run sets it, see section 4.

### PageHost

A step is one task of the browser. `hosts` counts the host elements in the body,
`hostEl` is the variable of the script; the observer runs in the task that removed the
element (`Removed` with `Restore`). It watches the body that was there at the start; the
page may replace that (`BodyReplaced`), and nothing notices a window that went with it
until `injectUI` runs for another reason (`watched`). `console` is the stack of functions
around the console of the browser, `saved` what `_installConsoleHooks` remembers. A library
of the page may put a function on top (`Patch`) and later put back what it found there
(`Unpatch`). That may be hooks that the script has taken out meanwhile; `putBack` remembers
it. `probes`, `runs`
and `url` are the search: a run waits for the candidate it asks (`Detect`, `Answers`,
`Fails`), and any number of runs overlap. `Advice` is what the diagnosis concludes from
the probes.

### Placement

Coordinates are integers, sizes those of the code. `host` and `panel` say whether
`style.left` and `style.top` are set and to what; `HostX`, `PanelX` and the others are
where the browser then shows them. A drag is a press, moves and a release; `FabVisible`
and `TitleVisible` say what the pointer can hit.

### Panel

The window, its DOM, its timers and its requests are one record `w`, again with one
operator per function. `w.ears` are the listeners on document and root that close a
popover; one is known while the variable of its handler refers to it, and one that is
no longer known can no longer be removed. `w.tasks` counts the timers and requests under
way. `Reinjected` is a new window in place of one that the page has thrown out: requests
of the old one go on and write into elements nobody sees, and set flags that the new one
reads. A session that comes to be shown is asked for its mode (`ShowSession`); a new one
brings its mode with it, which is taken before an `await` and drawn after it
(`SessionCreated`, `CreatedStatus`).

## 4. Runs

| Run | Instance | Shows |
|---|---|---|
| `session_users` | two users with one client each, two sessions, two processes, two modes, one message per session | `Isolation`, `ActivePointerLive`, `NoOrphanProcess`, `OneReadLoop`, `DroppedIsInert`, `DropIsAnnounced`, as long as a caller waits for its answers |
| `session_live` | two clients of one user and the clean-up, one session, one process, two modes, one message | `ConfigLifetime`, `WaitsAreServed`, `RequestsFinish` when requests overlap |
| `session_mode_finding` | one client | `set_mode` stops the process, whose end closes the session before a new process is started (`ModeChangeRestarts` fails) |
| `task` | two tasks | `Fifo`, `FinishedIsClean`, `AnswersAdvance`, `Implements`, `EveryTaskEnds` |
| `stream` | one window that stops and connects again, a log of six events | `InOrderOnce`, `EventsArrive` |
| `window` | two sessions, one handler, two loops, logs of three events, everything a user can do | `PollingIsServed` |
| `window_live` | one session, two handlers, two loops, a log of five events, sends and stops | `SendingEnds`, `PollingEnds` |
| `transcript` | both transports, four events, two elements when the user acts, chunks of up to three halves | `TypeOK`, `NothingIsStuck`, `ShownInOrder`, `SeenInOrder`, `ThinkingIsKept` |
| `client` | two sessions, two handlers, two recent sessions, all acts (of name, reload and ends of sessions, any two; switches beside another window), a patient user | `MruIsSound`, `DraftsStayApart` |
| `page` | a page of Dify and another, two addresses, two searches, three console lines, a buffer of two, a library over at most two layers | `OneWindow`, `PanelIsKept`, `CapturedOnce`, `OffIsOff`, `SearchIsTold` |
| `placement` | a low, a just fitting and a large viewport, four movements | `WithinViewport` |
| `panel` | two modes, three timers and requests at a time, sessions shown and created, head or body of the window | `OutsidePressCloses`, `NoEmptyWait`, `BadgeTellsMode`, `SentIsCleared` |

### Bounds

`MaxAsked` bounds messages per session, `Procs` the process starts, `MaxEvents`
the log; the other constants are the sets themselves. Two clients are enough for
every pair of requests to overlap at every pair of `await`s. Two processes let one
session be started and restarted while the earlier read loop is still ending, or two
sessions be started. The clean-up runs where it can collide with a request
(`session_live`). Two tasks let one wait for, and be picked after, every
way the other can end. Six events leave room for answers with several events,
events that are appended while an answer is on its way, and an end of the session
in the middle, and for both again after a new connection. The windows of `EventStream` share nothing they can change, so one is enough for
TLC; the proofs are about any number. For the properties with a theorem the bound
of the run does not matter, and type and inductive invariants that are proved are not
checked again.

Two poll loops show what a stopped loop can do beside a new one. One handler
at a time meets every answer of a poll and every stop and switch; two are in
`window_live`. (`window` with two handlers was run twice, without `close` and without
`delete` and `open`: 5 to 7 million states, no error. It takes too long to be
repeated each time, and the invariant is proved for any number.)
`window_live` leaves out switches: with them an answer of another session may move the
cursor past the result, and the window waits until it is stopped.

In `transcript`, four events make every pair of kinds meet a queue, a bubble or a block
that another event or the user has ended; a block is folded at one delta, so that two
deltas pass the limit; a chunk of three halves cuts events in the middle and carries
several. `client` has two handlers because opening the panel starts two at once. The user is
patient: who switches while a switch is under way mixes drafts (section 6), and the
run says what holds for one who waits. A third session would only add an older entry to
the list, which is why the list holds two. A name that is set, a page that is loaded again and a
session that ends meet in pairs. The other window writes any session, any recent list and
any draft that it can have, under the prefix that the Bridge gives, beside switches alone:
a write of this kind can come between any two steps. In `page`, the search is over two
addresses, so that one run can have passed the address that another one waits for; three are
no more than a longer walk, and the proofs are about any number. A library finds at most two
functions around the console, so that its own, the script's and one more are on top of each
other. The viewports of `placement`
are one without room, the smallest with room, and one with more; movements are across the
whole screen, a small one and none. `panel` lets three timers and requests be under way, and
has the user work with the head (popovers, mode, names) or with the body (tabs,
input); for the popovers a click in the body is one elsewhere.

TLC treats names of processes, sessions, handlers and searches as interchangeable in the
safety runs, and two users that have one client each (`UsersAndNames`, `Symmetry`), never
where liveness is checked. Deadlock is checked in all runs.

### Fairness

* `SessionManager`: weak fairness of `Resume` and `Reader`, because asyncio runs
  every task whose `await` is over; strong fairness of `ResumeLocked`, because
  the lock is handed out first come, first served; a process that was signalled
  exits (SIGKILL after a time limit). Nothing is assumed of callers, of a Claude
  that was not signalled, or of what it writes.
* `TaskWorker`: weak fairness of `Work` (asyncio, and its timers fire: `Timeout`
  needs no help of the process) and of the exit of a killed process. A Claude
  that runs may run for ever, and `EveryTaskEnds` holds nevertheless.
* `EventStream`: weak fairness of `Poll` (a 50 ms timer), strong fairness of the
  steps a failing network can undo. A network that fails for ever delivers
  nothing, and no retry can change that; this one may fail any number of times.
* `FloatingWindow`: weak fairness of the handlers (every request is answered or
  fails) and of the timers, strong fairness of the steps of a poll, as above;
  Claude comes to an end with a message that it works on. Nothing is assumed of
  the user.

## 5. Proofs

Every theorem holds for all values of the constants that satisfy the one named
assumption of its module (`ConstantsAssumption`, `TasksAssumption`,
`MaxEventsAssumption`, `WindowAssumption`, `PageAssumption`, `PlacementAssumption`,
`PanelAssumption`, `ClientAssumption`, `TranscriptAssumption`).

**`SessionManager_proofs`**: `Spec => []IInv`, and with it type correctness,
`LockDiscipline`, `ConfigLifetime`, `ActivePointerLive` and `Isolation`. None of
the four is inductive by itself: a close removes the config file of its target,
so it must know that the target is still registered (`Targets`), which holds
because only the holder of the lock removes sessions (`LockDiscipline`); a
creation may drop the file of a session nobody else can work on, because its
target is registered nowhere (`Targets` again). A read loop's assignments
change the record of its session, so loops need a session that exists
(`LoopTargets`). Most actions change one session record in fields the invariant
does not mention and one job; `QuietMove` is the lemma for all of these. The
actions that register, remove or take the lock (`CreateSpawnFailed`, `CloseBegin`, `CloseDrop`,
...) have proofs of their own.

The next result is about requests that overlap in any way, and leads up to the liveness
property `RequestsFinish`. `WaitsAreServed`: who waits for the exit of a process or the end
of a read loop, with the lock of everybody in hand or not, waits for something that was told
to end. Its invariant is `WaitInv`. Why it is needed: `abort_session` notes the process of
the session before it waits for the read loop and signals it afterwards, when the session may
refer to another one. That process was started (`Refers` says so of what a session refers
to, `Awaited` of what a request noted), and started processes stay started, signalled ones
signalled, and ending loops ending (`Onward`). A read loop that is begun for a new session is
the one step that could undo this, because it writes its record anew; nobody waits for it,
because its process had no loop before (`create_store` in `Awaited`). Only the request that
holds the lock is at that point, so two never start a loop for one process (`WaitStep` by
`Alone`). That what is told to end does end, and that the lock goes round, is
fairness, and left to TLC (`RequestsFinish`). The read loop that `set_mode` gives two seconds
is the exception in `WaitsAreServed`: nobody has cancelled it yet; it ends at the end of its
process's output, or `ModeReaderTimeout` cancels it. TLC evaluated `WaitInv` and the property
on the 1.3 million states of `session_live` with two processes (clients and processes
interchangeable), and on the 1.3 million of `session_users`.

The last part of the module is about what the lock is worth. `NoOrphanProcess`, `OneReadLoop`,
`DroppedIsInert` and `DropIsAnnounced` are proved for every number of users, clients, sessions
and processes, with any number of clients of one user and with the clean-up, for behaviours in
which `Apart` holds (`Spec /\ []Apart`). `Apart` excludes what the lock does not see to, and
nothing else: while a lazy restart or an abort is under way without the lock, no other request
is on the same session but a message that was let in and is to be written; and nobody closes
the session of a text that was let in and is not recorded yet. Closes, resets, mode changes,
switches, creations, messages and the clean-up overlap freely, on one session too. Each part of
`Apart` is needed: without it TLC finds one of the four properties violated.

`ProcessInv` is the inductive strengthening. It says which process a session owns and at which
place of which request it may have none (`SessionOwns`), what a read loop serves and how far it
has come when its session has a new process (`LoopServes`), what a request finds when it goes on
(`RequestFinds`), that no process is owned twice (`OwnProcess`), and that a session that was
removed was closed and announced so (`DroppedIsOver`). A step works on one session
(`StepOnSession`); what it does not do to the others (`OtherSessionsKept`) carries the invariant
over for them, and who else is at work on this one is a bystander whom it does no harm
(`Bystanders`). TLC evaluated the invariant and the four properties where `Apart` holds: on
341,889 states with two clients of one user, the clean-up, one session and two processes, and
on those of `session_users`, where each user has one client and `Apart` always holds.

**`TaskWorker_proofs`**: `Spec => []IInv`, then `Fifo`, `RunningIsHeld` and
`FinishedIsClean`; `AnswersAdvance`, which needs that what a caller was told is
never ahead of the queue (`SeenBefore`); and `Spec => Implements`, by
`StepSimulation`: every step of the worker is a step of `TaskService` or leaves
`status` and `order` alone. That a picked task is the first unfinished one needs
`Fifo` itself.

**`Events_proofs`** is about both ends of an event's way, `EventStream` and `Transcript` (the
definitions of `EventStream` that other modules have as well are called `StreamInit`,
`StreamSpec`, ..., so that one module can extend both). For the store: `StreamSpec => []StreamInv`,
then the types, `InOrderOnce` and `CursorInLog`. The step that matters is `Handle`: an answer
starts right after the cursor (`AnswerFits`), so what it brings continues what was shown
(`IdsContinue`); a stop does not change that, because the answer on its way is handled
nevertheless.

For the message area: `Spec => []TranscriptInv`, then `TypeOK`, `NothingIsStuck`, `ShownInOrder`,
`SeenInOrder` and `ThinkingIsKept`, so all that `transcript` checks. What is shown stays in order
because every delta of the queue is newer than what is shown of its kind (`Behind`), the queue is
in order (`InLine`), and below the bubble that is written to there is no other with text
(`BubbleFits`). A frame draws the whole queue in one step, and a chunk handles all its events in
one; `Drawing` and `Parsing` are the invariants of these walks. The recursive functions in
`DrawQueue` and `Parse` are shown to exist, and the invariant to reach their end, by
`Walk`: a set of places that has 0, and with each place the next, has all, because otherwise
there were a first place that it lacks. A response is read in order because what is left in
the buffer ends no event (`RemainderFits`, `SeenFits`), so that only the new text does (`TextFits`).
Each function of the code has a lemma saying that it leads from a good window to a good one
and keeps what is finished (`Follows`), and the handlers compose these (`FollowsTwice`). TLC evaluated
`TranscriptInv` on all 1,286,896 states of `transcript` before it was proved.

**`FloatingWindow_proofs`**: `Spec => []TypeOK` and `Spec => []PollingIsServed`, which is
inductive given the types: whoever takes the listener away clears the flag, and a loop that
ends has seen it cleared. Nothing of the kind holds of `isSending`: see the window that hears
nothing any more in section 6.

**`PageHost_proofs`**: the window, the console, the search and the badge are nearly
independent, and each has an invariant. `WindowInv` says that a window is missing only
when the script has removed itself or the page has replaced its body, which makes `OneWindow`
and `PanelIsKept` inductive. `ConsoleInv` says that no function that is saved is one of the
script's own, and that the console has none when nothing is saved, so that putting back what
is saved really ends the capture; this lasts until a library puts back hooks that were out of
use (`putBack`), and so do `OffIsOff` and `CapturedOnce`.
`SearchInv` and `BadgeInv` relate what a run has still to ask to what the probes say; the
badge says "probing" for no longer than a run or a fresh window can account for.
`ContextIsFresh` is proved and not run. `CapturedOnce` needs that at most one of the layers
around the console, and of those that the library has saved, is the script's own
(`HookedOnce`), and that every line in the buffer was
written before the next one (`BufferInv`). `PlaceInv` has the types of page, search and address,
and `TypeOK` follows from it and from `BufferInv`.

**`SessionClient_proofs`**: about every user, patient or not, and with another window that
writes to the storage: `TypeInv` gives the types and `MruIsSound`. The list of recent sessions
is what `Without`, a filter, leaves of the old list behind the new entry; the proof numbers the
places that stay, so that a filtered list is known to be as long as the places that are left and
to repeat none. `DraftsStayApart` is left to TLC: it is about a user who waits for handlers to
end, which the code does not make anybody do.

**`Placement_proofs`**: for every viewport and every movement. `HostFits` is what makes the
properties inductive: a host that was dragged keeps room for the panel above and to the
left of it, or as much as the viewport has. `FabIsReachable`, `PanelIsWithin`
(`WithinViewport` is the two together), and `PressKeepsPlace`, the last one proved and not
run.

**`Panel_proofs`**: `Spec => []Good(w)`, where `Good` is the type, `Closable` (a popover
that is shown has its listeners, or a timer that will add them), `Told` (the badge shows the
mode, unless somebody is left who will draw it or the answer that should have drawn it was lost), `Named` and `Loading` (what is waited for is
under way). Each function of the code has a lemma saying that it keeps `Good`, and the
actions compose them as the code composes the functions. `OutsidePressCloses` is about the
listeners that hear a press, and follows from `Closable` by `ClosableCloses`.
`SentIsCleared` holds because every step but those that send asks for no message (`Silent`), and
a palette that is closed completes nothing.

### Only model-checked

* Liveness (`RequestsFinish`, `EveryTaskEnds`, `EventsArrive`, `SendingEnds`,
  `PollingEnds`): outside what the provers do.
* `DraftsStayApart`, for two sessions and two handlers.
* What the finding shows.

Inductive invariants, the type invariants but `TypeOK` of `Transcript`, `LockDiscipline`, `RunningIsHeld`, `CursorInLog`,
`ContextIsFresh` and `PressKeepsPlace` are proved and are not in a run.

## 6. Not modelled

* **SqliteStore**: the Bridge writes to it and never reads back what it decides on, so no
  state of the other components depends on it. Message numbers read before an `await` and
  stored after it, and the default user under which messages are stored, are listed as
  hazards.
* **Identity** as computed by the Bridge is a function of two headers; the window's part
  (which headers a request carries) is in `SessionClient`. The resolution of a display name
  that is taken is a read and a write of one database row, without memory in the process.
* **Dify console client and MCP tools**: one request at a time in a process of its own,
  tokens in three variables, one retry. The tools keep nothing between calls, and most of
  their text reads or writes Dify documents.
* **SessionManager**: `stop()` and `rename`, the skills prompt written to a new process,
  the SSE queue (its endpoint has no default client any more), history and export. An abstract
  specification of what it promises would have to allow every exception listed below, and
  would say little else; `Isolation` and the other invariants say what it does promise.
* **Endpoints** that only read or forward (resources, diagnosis, DocHub, DSL
  validation), command lines, schema scripts and texts for the model: no state between
  calls.
* **Userscript**: style sheets and markup, the text of the diagnosis, the rows of probes and
  sessions, the fatal overlay, the list of hosts on which the script starts, the copy
  buttons. The remote variant is nearly the same text, with another address.

### Where the code and its comments part

These disagreements were met while modelling and have no run of their own; paths are those
of the components above, `userscript` is `dify-claude-floating-window.user.js`.

Bridge. A message sent while its session is being closed starts a process that nobody
kills, because `send_message` restarts a process for a session it looked up before the close
(`session_manager.py:281`, 300 and 497). An abort cancels the read loop, which then
announces `session_closed`, although `session_manager.py:427` says an abort does not
destroy the session. A reset creates the new session in the default mode,
although `app.py:487` says that it keeps the mode. The clean-up closes what was
idle when it looked, not what is idle when it closes
(`session_manager.py:1505`). Two messages after an abort start two processes,
although `app.py:431` says that requests of a user are serial. A session whose Claude exited
by itself refuses every message, because the read loop closes it, although
`session_manager.py:280` restarts a dead process on the next message. A poll with
`since=0` never receives the event with the id 0 (`event_store.py:36` and `app.py:302`).
Tasks do not survive a restart (`task_queue.py:24`), although `app.py:82` says that the store
recovers after one.

Window as a client. It polls for ever when its session was removed, because it takes the 404
answers for answers without events. An answer to a send that comes after `session_closed`
sets `sseRequest`, and the loop, which finds no session, ends and clears `pollingActive` only
(3314): a listener without a loop. The next message, to the next session, takes it for one (3288) and starts no
loop; the window hears nothing, and `isSending` stays set until the user stops. An
answer that is on its way during a switch is handled in the session switched to (userscript
3323), although 2695 says that the old poll is ended. `switchToSession` and
`deleteSession` clear `isSending` and leave the button as it is. Polled events are never
written to the log of the debug panel.

Message area. The send button, which is the stop button while Claude works
(3973), is disabled then (3956), so that only Enter stops. `result` takes the bubble away
before it flushes the queue (3464), so that the last deltas stand in a bubble of their own,
which the next turn continues. `assistant_complete` does not flush (3456). Text can be added
to a bubble above a later thinking block, and tool lines are drawn before text that came
earlier and is queued. A thinking block that a bubble follows is never finalised. After a
reset the bubble may be one that is no longer in the page. `result` inside `parseSSEChunk`
empties the buffer of the chunk being parsed.

Sessions. The GM storage is one for all windows of the user, and so is the key of the session
(2644, 2713): a page that is loaded again comes back to the session that any window stored last.
`session_closed` is applied to whatever session is shown (3491): a late answer about the
session that was left, or a stop, takes a living one from the window, whose text stays in the box
and is stored as a draft of the next session. The stored display name is not the one that the bootstrap uses (361, 414 to 446).
Texts of two sessions mix when the user switches again before a switch has ended, or types
while it is under way (2702); the run assumes a patient user. The pencil of any row renames the
active session (2015, 2766). Keys are migrated before the identity is known (4252, 4260), and
so is everything stored by a panel that is opened early. A new display name is a new identity,
under which the current session does not exist. `gmFetch` resolves for HTTP errors, so a
failed request may be shown as a success.

Guest of the page. `pushState` does not run `onRouteChange`, so the hooks stay on routes that
are not Dify's (4173), and switching the capture on installs them on any page. Taking the
hooks out drops functions that the page put on top (834). A library that found the hooks in
place and puts them back after they were taken out makes them capture without being known as
installed, so that the next installation (827) captures every line twice. When the page replaces
its body, the observer goes on watching the old one (4206), and the window stays away until
something else calls `injectUI`. After the script has removed itself
(4317) a timer of `pushState` can bring the window back, and the hooks remain. A re-injected
window has lost its messages and its lists, and its badge says "probing" until the next search
(3625). The diagnosis says that a search is under way for ever when a candidate other than the
last one answered, because it looks for pending probes first (3741) and the search returns early
(575). With overlapping searches the address in use is the one that answered last.

Placement. The button is not always in sight (2453): a viewport lower than 692 and 16 pixels has
no room for it and the panel. A panel out of sight is not put back when it opens, because it is
measured while it is hidden (1067). A drag of the button also opens or closes the panel (2436,
2471). `resetPanelPosition` sets `style.left` of the host to "auto" (2967), which a resize takes
for a number.

Controls. A click on the mode cell closes its popover and opens it again (2040, 3069).
Listeners are lost, and stay, when two timers of 0 ms overlap, which 3041 means to exclude.
After a mode was set and the status could not be read, the cell says "switching" (2996). After a session was created the cell tells the mode of the
one before it until the status is answered (2643, 2649). An
answer about the mode of an earlier session is applied to the present one (2899), and choosing
that mode then does nothing. Of two overlapping loads of the resources the later failure
replaces the list, and a re-injected window waits for a list that the old one has received.
Enter with an entry of the palette chosen sends the text as typed (1908), and while a run is
under way it stops that and fills in the entry. A late answer about the names clears the name
being typed (2228).
