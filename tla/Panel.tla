--------------------------------- MODULE Panel ---------------------------------
(***************************************************************************)
(* The controls of the floating window: the two popovers and the listeners *)
(* that close them, tabs and resources, the input box with its palette of  *)
(* commands, and the badge of the mode.                                    *)
(*                                                                         *)
(* w is the window, its DOM and the timers and requests that are under     *)
(* way; a function of the code is an operator from w to w.  A click is a   *)
(* press and a release, between which no other task runs.                  *)
(***************************************************************************)
EXTENDS Naturals, Functions

CONSTANTS
  Modes,       \* the keys of MODE_LABELS
  DefaultMode, \* state.currentMode at first
  MaxTasks,    \* bound: timers and requests under way
  Parts        \* bound: what the user works with: the "head", the "body", or "both"

ASSUME PanelAssumption ==
  /\ DefaultMode \in Modes
  /\ MaxTasks \in Nat
  /\ Parts \subseteq {"head", "body", "both"}

VARIABLES
  w,   \* the window
  part \* what the user works with in this behaviour

vars == <<w, part>>

Head == part \in {"head", "both"}
Body == part \in {"body", "both"}

Popovers == {"mode", "user"}
Tabs == {"chat", "session", "resource", "quick"}

\* QUICK_ACTIONS; like the prompts that name a resource, these begin with no "/".
Prompts == {"plain"}

\* SLASH_COMMANDS, by the type of a command; "/" begins all of them
Commands == {"native", "local", "disabled"}
Texts == Commands \cup Prompts \cup {"", "/"}
Matching == Commands \cup {"/"}

Listen(p) == IF p = "mode" THEN "listenMode" ELSE "listenUser"
Tasks == {"listenMode", "listenUser", "picker", "load", "oldLoad", "post", "recheck", "status",
          "created", "whoami", "send"}

Add(v, task) == [v EXCEPT !.tasks[task] = @ + 1]
Done(task) == [w EXCEPT !.tasks[task] = @ - 1]
UnderWay(v) == FoldFunction(LAMBDA n, m : n + m, 0, v.tasks)

\* PANEL_HTML, bindPanelEvents.  The picker of names may be called for by bootstrap.
Init ==
  /\ part \in Parts
  /\ \E picker \in {0, 1} :
    w = [open |-> FALSE, shown |-> [p \in Popovers |-> FALSE], ears |-> {},
         tab |-> "chat", seenTab |-> "chat", loaded |-> FALSE, list |-> "loading",
         mode |-> DefaultMode, badge |-> DefaultMode, unsure |-> FALSE,
         input |-> "", palette |-> "hidden", names |-> "unknown",
         tasks |-> [t \in Tasks |-> IF t = "picker" THEN picker ELSE 0]]

-----------------------------------------------------------------------------
(* Popovers.  A listener that closes one is known as long as the variable    *)
(* of its handler refers to it; any other can no longer be removed.          *)

RootOnly(p) == IF p = "mode" THEN {"document"} ELSE {"root"} \* faulty: misses the page
Tiers(p) == IF p = "mode" THEN {"document"} ELSE {"root", "document"}

Forget(v, p) == [v EXCEPT !.ears = {e \in @ : e.pop = p => ~e.known}]
Hide(v, p) == [Forget(v, p) EXCEPT !.shown[p] = FALSE]
Show(v, p) ==
  LET shown == Add([Forget(v, p) EXCEPT !.shown[p] = TRUE], Listen(p))
  IN IF p = "user" THEN Add(shown, "whoami") ELSE shown
TogglePopover(v, p) == IF v.shown[p] THEN Hide(v, p) ELSE Show(v, p)

\* The timer of 0 ms adds the listeners, and the variables refer to the new ones.
Listening(p) ==
  /\ w.tasks[Listen(p)] > 0
  /\ w' = [Done(Listen(p)) EXCEPT !.ears =
             {[e EXCEPT !.known = @ /\ e.pop # p] : e \in w.ears}
               \cup {[pop |-> p, tier |-> t, known |-> TRUE] : t \in Tiers(p)}]

\* What a listener does not take for a press outside of its popover.
Hears(e, place) ==
  \/ e.pop = "mode" /\ place \notin {"modeBadge", "modePopover"}
  \/ e.pop = "user" /\ e.tier = "root" /\ place \notin {"userBadge", "userPopover", "page"}
  \/ e.pop = "user" /\ e.tier = "document" /\ place = "page"

Press(v, place) ==
  LET Heard(p) == \E e \in v.ears : e.pop = p /\ Hears(e, place)
      One == IF Heard("mode") THEN Hide(v, "mode") ELSE v
  IN IF Heard("user") THEN Hide(One, "user") ELSE One

-----------------------------------------------------------------------------
(* The panel, its tabs and the resources *)

LoadOnce(v) == \* faulty: not while one is under way, if for an earlier window
  IF v.tasks["load"] + v.tasks["oldLoad"] > 0 THEN v ELSE Add([v EXCEPT !.list = "loading"], "load")
Load(v) == Add([v EXCEPT !.list = "loading"], "load")

SwitchTab(v, tab) ==
  LET seen == [v EXCEPT !.tab = tab, !.seenTab = tab]
  IN IF tab = "resource" /\ ~v.loaded THEN Load(seen) ELSE seen

TogglePanel(v) ==
  LET toggled == [v EXCEPT !.open = ~@]
  IN IF toggled.open /\ v.tab = "resource" /\ ~v.loaded THEN Load(toggled) ELSE toggled

\* The page has thrown the window out, and injectUI makes a new one.  Listeners on
\* the old root are gone, and requests write into elements that nobody sees.
Reinjected ==
  LET new == [w EXCEPT !.shown = [p \in Popovers |-> FALSE],
                       !.ears = {e \in w.ears : e.tier = "document" /\ ~e.known},
                       !.seenTab = "chat", !.list = "loading",
                       !.badge = w.mode, !.unsure = FALSE,
                       !.input = "", !.palette = "hidden", !.names = "unknown",
                       !.tasks = [w.tasks EXCEPT !["load"] = 0, !["whoami"] = 0,
                                                 !["oldLoad"] = w.tasks["oldLoad"] + w.tasks["load"]]]
  IN w' = IF w.open /\ w.tab = "resource" /\ ~w.loaded THEN Load(new) ELSE new

\* Both answers, one of which may be an error that is shown in its place; or a failure
Loaded ==
  /\ w.tasks["load"] > 0
  /\ w' \in {[Done("load") EXCEPT !.list = "items", !.loaded = TRUE],
             [Done("load") EXCEPT !.list = "failed"]}

OldLoaded ==
  /\ w.tasks["oldLoad"] > 0
  /\ w' \in {[Done("oldLoad") EXCEPT !.loaded = TRUE], Done("oldLoad")}

-----------------------------------------------------------------------------
(* The input box *)

\* handleSlashInput
Typed(text) ==
  /\ w.open /\ w.seenTab = "chat"
  /\ w' = [w EXCEPT !.input = text, !.palette = IF text \in Matching THEN "shown" ELSE "hidden"]

\* The arrow keys choose an item.
Arrow ==
  /\ w.open /\ w.seenTab = "chat" /\ w.palette = "shown"
  /\ w' = [w EXCEPT !.palette = "chosen"]

Completed(v) == {[v EXCEPT !.input = c, !.palette = "hidden"] : c \in Commands}

\* sendMessage up to its await; without a session nothing is sent.
PaletteStays(v) == \* faulty: the palette is closed when the answer is there
  LET cleared == [v EXCEPT !.input = ""]
  IN IF v.input = "" THEN {v}
     ELSE {v, IF v.input = "disabled" THEN cleared ELSE Add(cleared, "send")}
SendMessage(v) ==
  LET cleared == [v EXCEPT !.input = "", !.palette = "hidden"]
  IN IF v.input = "" THEN {v}
     ELSE {v, IF v.input = "disabled" THEN cleared ELSE Add(cleared, "send")}

\* Enter sends, or stops the run; then it goes through the palette.
Enter ==
  /\ w.open /\ w.seenTab = "chat"
  /\ \E v \in {w} \cup SendMessage(w) :
       w' \in IF v.palette = "chosen" THEN Completed(v) ELSE {v}

TabKey == w.open /\ w.seenTab = "chat" /\ w.palette = "chosen" /\ w' \in Completed(w)

\* In the box it closes the palette and, unless there is text, the panel.
Escape ==
  /\ w.open
  /\ LET closed == [w EXCEPT !.palette = "hidden"]
     IN w' \in {IF w.input # "" THEN closed ELSE TogglePanel(closed), TogglePanel(w)}

\* The rest of sendMessage is in Transcript and in FloatingWindow.
Sent == w.tasks["send"] > 0 /\ w' = Done("send")

\* switchToSession puts the draft of a session into the box.
RestoreDraft(text) == w' = [w EXCEPT !.input = text]

-----------------------------------------------------------------------------
(* The mode *)

RefreshModeBadge(v) == [v EXCEPT !.badge = v.mode, !.unsure = FALSE]

\* setMode, with or without a session
SetMode(v, mode) ==
  IF mode = v.mode THEN {v} ELSE {v, Add([v EXCEPT !.badge = "switching"], "post")}

\* The answer may be without a mode that is known; /status is asked anyway.
Accept(v, mode) == IF mode \in Modes THEN [v EXCEPT !.mode = mode] ELSE v

NotRefreshed(v) == v \* faulty
Failed(v) == RefreshModeBadge(v)
Posted ==
  /\ w.tasks["post"] > 0
  /\ \/ \E mode \in Modes \cup {"undefined"} : w' = Add(Accept(Done("post"), mode), "recheck")
     \/ w' = Failed(Done("post"))

\* syncModeFromStatus, for setMode or for a session that comes to be shown; a failure is
\* passed over, and so is that there is no session any more.
Status(task) ==
  /\ w.tasks[task] > 0
  /\ \/ \E mode \in Modes : w' = RefreshModeBadge([Done(task) EXCEPT !.mode = mode])
     \/ w' = [Done(task) EXCEPT !.unsure = @ \/ task = "recheck"]

\* A session of the list: its mode is only asked for.
ShowSession == w' = Add(w, "status")

\* A new session: the mode of the answer is taken at once, and the badge is drawn when
\* /status is answered or has failed.
SessionCreated ==
  \E mode \in Modes \cup {"undefined"} : w' = Add(Accept(w, mode), "created")
CreatedStatus ==
  /\ w.tasks["created"] > 0
  /\ \E mode \in Modes \cup {"undefined"} :
       w' = RefreshModeBadge(Accept(Done("created"), mode))

-----------------------------------------------------------------------------
(* Names *)

\* renderUserPopover, when /auth/whoami is answered
NamesListed ==
  /\ w.tasks["whoami"] > 0
  /\ \E names \in {"listed", "failed"} : w' = [Done("whoami") EXCEPT !.names = names]

\* showDisplayNamePicker
Picker == w.tasks["picker"] > 0 /\ w' = Show(Done("picker"), "user")

-----------------------------------------------------------------------------
(* Clicks *)

In(place) == w.open /\ w' = Press(w, place)

ClickFab == w' = TogglePanel(Press(w, "panel"))
ClickClose == w.open /\ ClickFab
ClickTab(tab) == w.open /\ w' = SwitchTab(Press(w, "panel"), tab)
ClickMode(place) == w.open /\ w' = TogglePopover(Press(w, place), "mode")
ChooseMode(mode) ==
  /\ w.open /\ w.shown["mode"]
  /\ w' \in SetMode(Hide(Press(w, "modePopover"), "mode"), mode)
ClickUser == w.open /\ w' = TogglePopover(Press(w, "userBadge"), "user")

\* setDisplayName of a candidate or of the text in the box, clearDisplayName
ChooseName ==
  /\ w.open /\ w.shown["user"]
  /\ w' = Hide(Press(w, "userPopover"), "user")

\* A resource or a quick action puts its prompt into the box.
ClickPrompt ==
  /\ w.open
  /\ w.seenTab = "quick" \/ (w.seenTab = "resource" /\ w.list = "items")
  /\ \E prompt \in Prompts : w' = [SwitchTab(Press(w, "panel"), "chat") EXCEPT !.input = prompt]

ClickItem ==
  /\ w.open /\ w.seenTab = "chat" /\ w.palette # "hidden"
  /\ w' \in Completed(Press(w, "panel"))
ClickSend ==
  /\ w.open /\ w.seenTab = "chat"
  /\ w' \in SendMessage(Press(w, "panel"))
ClickElsewhere == In("panel") \/ w' = Press(w, "page")

-----------------------------------------------------------------------------
UseHead ==
  \/ Picker \/ NamesListed \/ Posted \/ ClickUser \/ ChooseName
  \/ ShowSession \/ SessionCreated \/ CreatedStatus
  \/ \E p \in Popovers : Listening(p)
  \/ \E task \in {"recheck", "status"} : Status(task)
  \/ \E place \in {"modeBadge", "modeCell"} : ClickMode(place)
  \/ \E mode \in Modes : ChooseMode(mode)

UseBody ==
  \/ Loaded \/ OldLoaded \/ Sent \/ Arrow \/ Enter \/ TabKey
  \/ ClickPrompt \/ ClickItem \/ ClickSend
  \/ \E tab \in Tabs : ClickTab(tab)
  \/ \E text \in Texts : Typed(text) \/ RestoreDraft(text)

\* For the popovers, a click in the body is one elsewhere.
Next ==
  /\ \/ Head /\ UseHead
     \/ Body /\ UseBody
     \/ ClickFab \/ ClickClose \/ ClickElsewhere \/ Escape \/ Reinjected
  /\ UnderWay(w') <= MaxTasks
  /\ UNCHANGED part

Spec == Init /\ [][Next]_vars

-----------------------------------------------------------------------------
(* Properties *)

Ears == [pop : Popovers, tier : {"root", "document"}, known : BOOLEAN]
Windows ==
  [open : BOOLEAN, shown : [Popovers -> BOOLEAN], ears : SUBSET Ears,
   tab : Tabs, seenTab : Tabs, loaded : BOOLEAN, list : {"loading", "items", "failed"},
   mode : Modes, badge : Modes \cup {"switching"}, unsure : BOOLEAN,
   input : Texts, palette : {"hidden", "shown", "chosen"}, names : {"unknown", "listed", "failed"},
   tasks : [Tasks -> Nat]]

\* What the window holds; in particular, its mode is always one that is known.
TypeOK == w \in Windows

\* A popover that is shown closes when the user presses elsewhere in the panel or on the page:
\* its listeners are added by a timer and removed by six places of the code, some of which
\* run for a popover that is closed, opened again, or of a window that is no more.
OutsidePressCloses ==
  \A p \in Popovers, place \in {"panel", "page"} :
    w.shown[p] /\ w.tasks[Listen(p)] = 0 => ~Press(w, place).shown[p]

\* What says that it is loading is being loaded, also in a window that replaces another one: the
\* names in the popover; and the resources, unless an earlier window was told that all is loaded.
NoEmptyWait ==
  /\ w.shown["user"] /\ w.names = "unknown" => w.tasks["whoami"] > 0
  /\ w.open /\ w.seenTab = "resource" /\ ~w.loaded /\ w.list = "loading" => w.tasks["load"] > 0

\* Whatever requests for modes and new sessions overlap, and whatever windows come and go: when
\* nobody is left who will draw the badge (a request of setMode, or initSession between the mode
\* of a new session and its badge), it tells the mode, or the answer that should have drawn it
\* was lost.
BadgeTellsMode ==
  w.tasks["post"] = 0 /\ w.tasks["recheck"] = 0 /\ w.tasks["created"] = 0 /\ ~w.unsure =>
    w.badge = w.mode

\* The key that sends a message does not also put a command into the box, although it goes
\* through the palette after that.
SentIsCleared ==
  [][w'.tasks["send"] > w.tasks["send"] => w'.input = "" /\ w'.palette = "hidden"]_vars
===============================================================================
