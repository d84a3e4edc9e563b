------------------------------- MODULE PageHost -------------------------------
(***************************************************************************)
(* The userscript as a guest of the page: its element in the body of the   *)
(* page, which the page may remove; the routes of the page, which decide   *)
(* what is captured from its console; and the search for the Bridge with   *)
(* the badge that tells of it.                                             *)
(*                                                                         *)
(* The page is a single-page application.  A step is one task of the       *)
(* browser.  The MutationObserver runs at the end of the task that removes *)
(* the element, before any other task.                                     *)
(***************************************************************************)
EXTENDS Naturals, SequencesExt

CONSTANTS
  Pages,      \* routes of the application
  Dify,       \* those that _isDifyPage takes for pages of Dify
  Runs,       \* bound: runs of detectBridge at a time
  Candidates, \* the length of BRIDGE_CANDIDATES
  MaxSize,    \* consoleCapture.maxSize
  MaxLogs,    \* bound: lines the page writes to the console
  MaxPushes,  \* bound: timers of pushState and replaceState at a time
  MaxLayers   \* bound: functions around the console before a library puts another on top

ASSUME PageAssumption ==
  /\ Dify \subseteq Pages
  /\ {Candidates, MaxSize, MaxLogs, MaxPushes, MaxLayers} \subseteq Nat \ {0}

VARIABLES
  page,      \* the route that is shown
  pushes,    \* timers of 50 ms of history.pushState and replaceState
  leaving,   \* the timer of 500 ms: "set", "stayed", or "left" (the script removed itself)
  hosts,     \* host elements in the body
  hostEl,    \* hostEl is set
  watched,   \* the MutationObserver watches the body that the page has now
  ui,        \* what the host element shows, in the page or not
  panelOpen, \* state.panelOpen
  context,   \* the page of state.activePageContext
  console,   \* the functions around the console of the browser, the outermost last
  saved,     \* consoleCapture.originals
  kept,      \* the functions that a library of the page saved when it put its own on top
  putBack,   \* history: a library has put back hooks of ours that were out of use
  enabled,   \* consoleCapture.enabled
  buffer,    \* consoleCapture.buffer
  logged,    \* lines the page has written
  probes,    \* state.bridgeProbes
  runs,      \* the candidate that every run of detectBridge waits for
  booting,   \* the run that start waits for
  url        \* CONFIG.BRIDGE_URL

route   == <<page, pushes, leaving, context>>
window  == <<hosts, hostEl, watched, ui, panelOpen>>
library == <<kept, putBack>>
capture == <<console, saved, library, enabled, buffer, logged>>
search  == <<probes, runs, booting, url>>
vars    == <<route, window, capture, search>>

Off == 0 \* of runs and of booting
NotInstalled == <<"none">>
NotKept == NotInstalled
NoUI == [badge |-> "none", open |-> FALSE]
Slots == 1..Candidates

-----------------------------------------------------------------------------
(* The console *)

Installed == saved # NotInstalled

Hook == saved' = console /\ console' = Append(console, "ours") \* faulty: also when installed
InstallHooks ==
  IF Installed THEN UNCHANGED <<console, saved>>
  ELSE saved' = console /\ console' = Append(console, "ours")

UninstallHooks ==
  IF Installed THEN console' = saved /\ saved' = NotInstalled
  ELSE UNCHANGED <<console, saved>>

RouteOnly(p) == IF p \in Dify THEN InstallHooks ELSE UninstallHooks \* faulty: forgets enabled

\* onRouteChange
FollowRoute(p) ==
  IF p \in Dify
  THEN IF enabled THEN InstallHooks ELSE UNCHANGED <<console, saved>>
  ELSE UninstallHooks

\* Every layer of ours in the console captures a line of the page.
Layers == Cardinality({i \in DOMAIN console : console[i] = "ours"})

Captured(line) ==
  LET all == buffer \o [i \in 1..Layers |-> line]
  IN IF Len(all) <= MaxSize THEN all ELSE SubSeq(all, Len(all) - MaxSize + 1, Len(all))

Log ==
  /\ logged < MaxLogs
  /\ logged' = logged + 1
  /\ buffer' = IF enabled THEN Captured(logged') ELSE buffer
  /\ UNCHANGED <<route, window, console, saved, library, enabled, search>>

\* A library of the page puts a function of its own on top of the console ...
Patch ==
  /\ kept = NotKept /\ Len(console) < MaxLayers
  /\ kept' = console
  /\ console' = Append(console, "theirs")
  /\ UNCHANGED <<route, window, saved, putBack, enabled, buffer, logged, search>>

\* ... and puts back what it found there, which may be hooks of ours that we took out since.
Unpatch ==
  /\ kept # NotKept
  /\ console' = kept
  /\ kept' = NotKept
  /\ putBack' = (putBack \/ (~Installed /\ Contains(kept, "ours")))
  /\ UNCHANGED <<route, window, saved, enabled, buffer, logged, search>>

\* The user can click in the panel.
PanelInPage == hosts > 0 /\ ui.open

ToggleCapture ==
  /\ PanelInPage
  /\ enabled' = ~enabled
  /\ IF enabled' THEN InstallHooks ELSE UninstallHooks
  /\ UNCHANGED <<route, window, library, buffer, logged, search>>

ClearCapture ==
  /\ PanelInPage
  /\ buffer' = <<>>
  /\ UNCHANGED <<route, window, console, saved, library, enabled, logged, search>>

-----------------------------------------------------------------------------
(* The search for the Bridge *)

Of(status, p) == {i \in Slots : p[i] = status}
First(p) == CHOOSE i \in Of("ok", p) : \A k \in Of("ok", p) : i <= k

\* updateBridgeBadge
Badge(p) ==
  IF Of("ok", p) # {} THEN "connected"
  ELSE IF Of("pending", p) = {} THEN "failed" ELSE "probing"

UpdateBadge(p) == ui' = IF hostEl THEN [ui EXCEPT !.badge = Badge(p)] ELSE ui

\* What buildDiagnosticText advises the user who copies the diagnosis
Advice(p) ==
  IF Of("pending", p) # {} THEN "wait"
  ELSE IF Of("ok", p) = {} THEN "unreachable" ELSE "connected"

\* detectBridge up to its first await
Detect(r) ==
  /\ runs[r] = Off
  /\ probes' = [i \in Slots |-> "pending"]
  /\ runs' = [runs EXCEPT ![r] = 1]
  /\ UpdateBadge(probes')
  /\ UNCHANGED <<route, hosts, hostEl, watched, panelOpen, capture, booting, url>>

\* A click on the badge of the agent searches again, whatever is under way.
ClickAgent(r) == PanelInPage /\ Detect(r)

\* A run is over.  The rest of start follows at once: bootstrap takes the first candidate
\* that has answered.
Ends(r, chosen) ==
  /\ runs' = [runs EXCEPT ![r] = Off]
  /\ booting' = IF booting = r THEN Off ELSE booting
  /\ url' = IF booting = r /\ Of("ok", probes') # {} THEN First(probes') ELSE chosen

\* The request to a candidate was answered.
Answers(r) ==
  /\ runs[r] # Off
  /\ probes' = [probes EXCEPT ![runs[r]] = "ok"]
  /\ Ends(r, runs[r])
  /\ UpdateBadge(probes')
  /\ UNCHANGED <<route, hosts, hostEl, watched, panelOpen, capture>>

\* ... or it failed, after three seconds at the latest, and the next one is tried.
StaysPending(p, i) == p \* faulty: only a success is noted
Failed(p, i) == [p EXCEPT ![i] = "fail"]

Fails(r) ==
  /\ runs[r] # Off
  /\ probes' = Failed(probes, runs[r])
  /\ IF runs[r] < Candidates
     THEN runs' = [runs EXCEPT ![r] = @ + 1] /\ UNCHANGED <<booting, url>>
     ELSE Ends(r, url)
  /\ UpdateBadge(probes')
  /\ UNCHANGED <<route, hosts, hostEl, watched, panelOpen, capture>>

-----------------------------------------------------------------------------
(* The window in the page *)

\* PANEL_HTML; its badge looks like that of a search
NewUI == [badge |-> "initial", open |-> FALSE]

\* injectUI, repositionButton; a window that went with its body is replaced
InjectAnyway == hosts' = hosts + 1 /\ hostEl' = TRUE /\ ui' = NewUI \* faulty: looks for no window
Inject ==
  IF hostEl /\ hosts > 0 THEN UNCHANGED <<hosts, hostEl, ui>>
  ELSE hosts' = hosts + 1 /\ hostEl' = TRUE /\ ui' = NewUI

\* capturePageContext
CaptureContext(p) == context' = p

\* The page removes the element, and the observer brings it back with its panel.
ComeBack(open) == hosts' = 1 /\ hostEl' = TRUE /\ ui' = NewUI \* faulty: with its panel closed
Restore(open) == hosts' = 1 /\ hostEl' = TRUE /\ ui' = [NewUI EXCEPT !.open = open]

Removed ==
  /\ hosts > 0
  /\ IF watched THEN Restore(panelOpen) ELSE hosts' = 0 /\ UNCHANGED <<hostEl, ui>>
  /\ UNCHANGED <<route, watched, panelOpen, capture, search>>

\* The page replaces its body, the window with it: nothing happens in the body that the
\* observer watches, neither now nor later.
BodyReplaced ==
  /\ watched
  /\ watched' = FALSE
  /\ hosts' = 0
  /\ UNCHANGED <<route, hostEl, ui, panelOpen, capture, search>>

\* FAB, the button of the panel, Escape
TogglePanel ==
  /\ hosts > 0
  /\ panelOpen' = ~panelOpen
  /\ ui' = [ui EXCEPT !.open = panelOpen']
  /\ UNCHANGED <<route, hosts, hostEl, watched, capture, search>>

\* The application changes its route ...
Push(p) ==
  /\ pushes < MaxPushes
  /\ page' = p
  /\ pushes' = pushes + 1
  /\ UNCHANGED <<leaving, context, window, capture, search>>

\* ... and the script looks at it 50 ms later.
Pushed ==
  /\ pushes > 0
  /\ pushes' = pushes - 1
  /\ Inject
  /\ CaptureContext(page)
  /\ UNCHANGED <<page, leaving, watched, panelOpen, capture, search>>

\* popstate or hashchange: repositionButton, onRouteChange, onRouteChangeCapture
Pop(p) ==
  /\ page' = p
  /\ Inject
  /\ FollowRoute(p)
  /\ CaptureContext(p)
  /\ UNCHANGED <<pushes, leaving, watched, panelOpen, library, enabled, buffer, logged, search>>

\* visibilitychange, or sendMessage
Look ==
  /\ CaptureContext(page)
  /\ UNCHANGED <<page, pushes, leaving, window, capture, search>>

\* The script finds that it is not in Dify, and removes its window.
Leave ==
  /\ leaving = "set"
  /\ IF hostEl /\ page \notin Dify
     THEN /\ leaving' = "left" /\ hostEl' = FALSE /\ ui' = NoUI
          /\ hosts' = IF hosts > 0 THEN hosts - 1 ELSE 0
     ELSE leaving' = "stayed" /\ UNCHANGED <<hosts, hostEl, ui>>
  /\ UNCHANGED <<page, pushes, context, watched, panelOpen, capture, search>>

-----------------------------------------------------------------------------
\* start up to its await
Init ==
  /\ page \in Pages /\ context = page /\ pushes = 0 /\ leaving = "set"
  /\ hosts = 1 /\ hostEl = TRUE /\ watched = TRUE /\ panelOpen = FALSE
  /\ kept \in {NotKept, <<>>} /\ putBack = FALSE
  /\ LET before == IF kept = NotKept THEN <<>> ELSE <<"theirs">> IN
       IF page \in Dify THEN console = Append(before, "ours") /\ saved = before
       ELSE console = before /\ saved = NotInstalled
  /\ enabled = TRUE /\ buffer = <<>> /\ logged = 0
  /\ probes = [i \in Slots |-> "pending"]
  /\ ui = [badge |-> Badge(probes), open |-> FALSE]
  /\ booting \in Runs
  /\ runs = [r \in Runs |-> IF r = booting THEN 1 ELSE Off]
  /\ url = 1

Next ==
  \/ Log \/ Patch \/ Unpatch \/ ToggleCapture \/ ClearCapture
  \/ \E r \in Runs : ClickAgent(r) \/ Answers(r) \/ Fails(r)
  \/ Removed \/ BodyReplaced \/ TogglePanel \/ Pushed \/ Look \/ Leave
  \/ \E p \in Pages : Push(p) \/ Pop(p)

Spec == Init /\ [][Next]_vars

-----------------------------------------------------------------------------
(* Properties *)

\* What the variables hold.
TypeOK ==
  /\ {page, context} \subseteq Pages
  /\ pushes \in 0..MaxPushes
  /\ leaving \in {"set", "stayed", "left"}
  /\ hosts \in Nat
  /\ {hostEl, watched, panelOpen, putBack, enabled} \subseteq BOOLEAN
  /\ ui \in [badge : {"none", "initial", "probing", "connected", "failed"}, open : BOOLEAN]
  /\ console \in Seq({"ours", "theirs"})
  /\ Installed => saved \in Seq({"ours", "theirs"})
  /\ kept # NotKept => kept \in Seq({"ours", "theirs"})
  /\ logged \in 0..MaxLogs
  /\ buffer \in Seq(1..MaxLogs)
  /\ probes \in [Slots -> {"pending", "ok", "fail"}]
  /\ runs \in [Runs -> Slots \cup {Off}]
  /\ booting \in Runs \cup {Off}
  /\ url \in Slots

\* However removals, routes and timers meet, there is one window at most, and it is the one that
\* the script works on; a window that the script works on is in the page, unless the page has
\* replaced its body.
OneWindow ==
  /\ hosts <= 1
  /\ hosts = 1 => hostEl
  /\ watched /\ hostEl => hosts = 1

\* A panel that the user has opened stays open when the page throws the window out, and a
\* closed one stays closed (unless the script has removed itself, or the page has replaced its
\* body, which the observer does not notice).
PanelIsKept == watched /\ hostEl /\ leaving # "left" => ui.open = panelOpen

\* The context that goes to Claude with a message is that of the page, or a timer that will
\* bring it up to date is set.
ContextIsFresh == context = page \/ pushes > 0

\* Every line is captured once at most, and in order, whatever routes, the user and libraries
\* that come and go have done to the console in between, as long as no library has put back
\* hooks that were taken out before: the script does not recognise these as its own.
CapturedOnce == ~putBack => \A i \in 1..(Len(buffer) - 1) : buffer[i] < buffer[i + 1]

Searched == \A r \in Runs : runs[r] = Off

\* While the user has switched capturing off, no route, new window or library puts a hook
\* around the console (with the same exception).
OffIsOff == ~enabled /\ ~putBack => ~Contains(console, "ours")

\* However searches overlap, the badge of a window that was told of them does not say that one
\* is under way when none is, and the diagnosis that the user copies sends him to his network
\* if and only if the badge says that the Bridge is out of reach.
SearchIsTold ==
  Searched /\ hostEl /\ ui.badge # "initial" =>
    /\ ui.badge = IF Of("ok", probes) # {} THEN "connected" ELSE "failed"
    /\ Advice(probes) = "unreachable" <=> ui.badge = "failed"
=============================================================================
