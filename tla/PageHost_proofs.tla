----------------------------- MODULE PageHost_proofs -----------------------------
(***************************************************************************)
(* PageHost for any routes, any number of searches at a time, of           *)
(* candidates and of timers.  The window, the console and the search are   *)
(* nearly independent of each other, so each has an invariant of its own.  *)
(***************************************************************************)
EXTENDS PageHost, FiniteSetTheorems, WellFoundedInduction, TLAPS

-----------------------------------------------------------------------------
(* The window *)

Badges == {"none", "initial", "probing", "connected", "failed"}
UIs == [badge : Badges, open : BOOLEAN]

\* As long as the observer watches the body, the window is in the page, or the script has removed
\* itself; if it is there and the script has not, it shows the panel as the user left it.
WindowInv ==
  /\ OneWindow
  /\ hosts \in {0, 1}
  /\ hostEl \in BOOLEAN /\ panelOpen \in BOOLEAN /\ watched \in BOOLEAN
  /\ ui \in UIs
  /\ ~hostEl => leaving = "left"
  /\ PanelIsKept

\* A badge that a search has drawn is one of three.
LEMMA BadgeType == \A p : Badge(p) \in {"connected", "failed", "probing"}
BY DEF Badge

\* A search changes the badge and nothing else of a window.
LEMMA SearchKeepsWindow ==
  ASSUME WindowInv, NEW p, UpdateBadge(p), UNCHANGED <<hosts, hostEl, watched, panelOpen, leaving>>
  PROVE  WindowInv'
<1>1. ui' \in UIs /\ ui'.open = ui.open
  BY BadgeType DEF UpdateBadge, WindowInv, UIs, Badges
<1> QED BY <1>1 DEF WindowInv, PanelIsKept, OneWindow

\* A new window that a route brings comes after the script has removed itself, or after the page
\* has replaced its body.
LEMMA InjectKeepsWindow ==
  ASSUME WindowInv, Inject, UNCHANGED <<watched, panelOpen, leaving>>
  PROVE  WindowInv'
<1>1. CASE hostEl /\ hosts > 0
  BY <1>1 DEF Inject, WindowInv, PanelIsKept, OneWindow
<1>2. CASE ~(hostEl /\ hosts > 0)
  <2>1. /\ ui' = NewUI /\ hostEl' = TRUE /\ hosts = 0 /\ hosts' = 1
        /\ ~watched' \/ leaving' = "left"
    BY <1>2 DEF Inject, WindowInv, OneWindow
  <2>2. ui' \in UIs
    BY <2>1 DEF NewUI, UIs, Badges
  <2> QED BY <2>1, <2>2 DEF WindowInv, PanelIsKept, OneWindow
<1> QED BY <1>1, <1>2

LEMMA WindowInit == Init => WindowInv
<1> SUFFICES ASSUME Init PROVE WindowInv
  OBVIOUS
<1>1. ui \in UIs /\ ui.open = FALSE
  BY BadgeType DEF Init, UIs, Badges
<1>2. hosts = 1 /\ hostEl = TRUE /\ panelOpen = FALSE /\ watched = TRUE
  BY DEF Init
<1>3. hosts \in {0, 1} /\ OneWindow
  BY <1>2 DEF OneWindow
<1>4. hostEl \in BOOLEAN /\ panelOpen \in BOOLEAN /\ watched \in BOOLEAN
  BY <1>2
<1>5. PanelIsKept
  BY <1>1, <1>2 DEF PanelIsKept
<1> QED BY <1>1, <1>2, <1>3, <1>4, <1>5 DEF WindowInv

LEMMA WindowNext == WindowInv /\ [Next]_vars => WindowInv'
<1> SUFFICES ASSUME WindowInv, [Next]_vars PROVE WindowInv'
  OBVIOUS
<1>1. CASE Log \/ Patch \/ Unpatch \/ ToggleCapture \/ ClearCapture
  BY <1>1 DEF Log, Patch, Unpatch, ToggleCapture, ClearCapture, window, route, WindowInv, OneWindow, PanelIsKept
<1>2. ASSUME NEW r \in Runs, ClickAgent(r) \/ Answers(r) \/ Fails(r) PROVE WindowInv'
  <2>1. UpdateBadge(probes') /\ UNCHANGED <<hosts, hostEl, watched, panelOpen, leaving>>
    BY <1>2 DEF ClickAgent, Detect, Answers, Fails, route
  <2> QED BY <2>1, SearchKeepsWindow
<1>3. CASE Removed
  <2>1. CASE watched
    <3>1. /\ hosts' = 1 /\ hostEl' = TRUE /\ ui' = [badge |-> "initial", open |-> panelOpen]
          /\ UNCHANGED <<watched, panelOpen, leaving>>
      BY <1>3, <2>1 DEF Removed, Restore, NewUI, route
    <3>2. ui' \in UIs
      BY <3>1 DEF UIs, Badges, WindowInv
    <3> QED BY <3>1, <3>2 DEF WindowInv, OneWindow, PanelIsKept
  <2>2. CASE ~watched
    <3>1. hosts' = 0 /\ UNCHANGED <<hostEl, watched, ui, panelOpen, leaving>>
      BY <1>3, <2>2 DEF Removed, route
    <3> QED BY <2>2, <3>1 DEF WindowInv, OneWindow, PanelIsKept
  <2> QED BY <2>1, <2>2 DEF WindowInv
<1>11. CASE BodyReplaced
  <2>1. hosts' = 0 /\ ~watched' /\ UNCHANGED <<hostEl, ui, panelOpen, leaving>>
    BY <1>11 DEF BodyReplaced, route
  <2>2. watched' \in BOOLEAN
    BY <1>11 DEF BodyReplaced
  <2> QED BY <2>1, <2>2 DEF WindowInv, OneWindow, PanelIsKept
<1>4. CASE TogglePanel
  <2>1. ui' = [ui EXCEPT !.open = panelOpen'] /\ panelOpen' = ~panelOpen /\ UNCHANGED <<hosts, hostEl, watched, leaving>>
    BY <1>4 DEF TogglePanel, route
  <2>2. ui' \in UIs /\ ui'.open = panelOpen'
    BY <2>1 DEF UIs, WindowInv
  <2> QED BY <2>1, <2>2 DEF WindowInv, OneWindow, PanelIsKept
<1>5. CASE Pushed
  BY <1>5, InjectKeepsWindow DEF Pushed
<1>6. ASSUME NEW p \in Pages, Pop(p) PROVE WindowInv'
  BY <1>6, InjectKeepsWindow DEF Pop
<1>7. ASSUME NEW p \in Pages, Push(p) PROVE WindowInv'
  BY <1>7 DEF Push, window, WindowInv, OneWindow, PanelIsKept
<1>8. CASE Look
  BY <1>8 DEF Look, window, WindowInv, OneWindow, PanelIsKept
<1>9. CASE Leave
  <2>1. CASE hostEl /\ page \notin Dify
    <3>1. /\ leaving' = "left" /\ hostEl' = FALSE /\ ui' = NoUI /\ hosts' = 0
          /\ UNCHANGED <<watched, panelOpen>>
      BY <1>9, <2>1 DEF Leave, WindowInv
    <3>2. ui' \in UIs
      BY <3>1 DEF NoUI, UIs, Badges
    <3>4. OneWindow'
      BY <3>1 DEF OneWindow
    <3>5. panelOpen' \in BOOLEAN /\ hostEl' \in BOOLEAN /\ watched' \in BOOLEAN
      BY <3>1 DEF WindowInv
    <3> QED BY <3>1, <3>2, <3>4, <3>5 DEF WindowInv, PanelIsKept
  <2>2. CASE ~(hostEl /\ page \notin Dify)
    <3>1. leaving = "set" /\ UNCHANGED <<hosts, hostEl, watched, ui, panelOpen>>
      BY <1>9, <2>2 DEF Leave
    <3> QED BY <3>1 DEF WindowInv, OneWindow, PanelIsKept
  <2> QED BY <2>1, <2>2
<1>10. CASE UNCHANGED vars
  BY <1>10 DEF vars, window, route, WindowInv, OneWindow, PanelIsKept
<1> QED BY <1>1, <1>2, <1>3, <1>4, <1>5, <1>6, <1>7, <1>8, <1>9, <1>10, <1>11 DEF Next

-----------------------------------------------------------------------------
(* The console *)

\* Until a library has put back hooks that were out of use, what our hooks are put around has
\* none of ours, nor has the console when they are taken out.
ConsoleInv ==
  /\ console \in Seq({"ours", "theirs"})
  /\ enabled \in BOOLEAN /\ putBack \in BOOLEAN
  /\ Installed => saved \in Seq({"ours", "theirs"})
  /\ kept # NotKept => kept \in Seq({"ours", "theirs"})
  /\ ~enabled => ~Installed
  /\ ~putBack /\ Installed => ~Contains(saved, "ours")
  /\ ~putBack /\ ~Installed => ~Contains(console, "ours")

\* A sequence is never the mark that nothing was saved, if its members are functions of a console.
LEMMA SavedIsNoMark ==
  ASSUME NEW s \in Seq({"ours", "theirs"})
  PROVE  s # NotInstalled
BY DEF NotInstalled

LEMMA InstallKeeps ==
  ASSUME ConsoleInv, InstallHooks, enabled, UNCHANGED <<enabled, library>>
  PROVE  ConsoleInv'
<1>1. CASE Installed
  BY <1>1 DEF InstallHooks, ConsoleInv, Installed, library
<1>2. CASE ~Installed
  <2>1. saved' = console /\ console' = Append(console, "ours") /\ console \in Seq({"ours", "theirs"})
    BY <1>2 DEF InstallHooks, ConsoleInv
  <2>2. console' \in Seq({"ours", "theirs"})
    BY <2>1
  <2>3. Installed'
    BY <2>1, SavedIsNoMark DEF Installed
  <2> QED BY <1>2, <2>1, <2>2, <2>3 DEF ConsoleInv, library
<1> QED BY <1>1, <1>2

LEMMA UninstallKeeps ==
  ASSUME ConsoleInv, UninstallHooks, enabled' \in BOOLEAN, UNCHANGED library
  PROVE  ConsoleInv'
<1>1. CASE Installed
  BY <1>1 DEF UninstallHooks, ConsoleInv, Installed, library
<1>2. CASE ~Installed
  BY <1>2 DEF UninstallHooks, ConsoleInv, Installed, library
<1> QED BY <1>1, <1>2

LEMMA ConsoleInit == Init => ConsoleInv
<1> SUFFICES ASSUME Init PROVE ConsoleInv
  OBVIOUS
<1>1. PICK before \in {<<>>, <<"theirs">>} :
        IF page \in Dify THEN console = Append(before, "ours") /\ saved = before
        ELSE console = before /\ saved = NotInstalled
  BY DEF Init
<1>2. before \in Seq({"ours", "theirs"}) /\ ~Contains(before, "ours")
  <2>1. CASE before = <<>>
    BY <2>1 DEF Contains
  <2>2. CASE before = <<"theirs">>
    <3>1. Len(before) = 1 /\ before[1] = "theirs"
      BY <2>2
    <3> QED BY <2>2, <3>1 DEF Contains
  <2> QED BY <2>1, <2>2
<1>3. Append(before, "ours") \in Seq({"ours", "theirs"})
  BY <1>2
<1>4. kept # NotKept => kept \in Seq({"ours", "theirs"})
  <2>1. kept \in {NotKept, <<>>}
    BY DEF Init
  <2>2. <<>> \in Seq({"ours", "theirs"})
    OBVIOUS
  <2> QED BY <2>1, <2>2
<1>5. enabled /\ enabled \in BOOLEAN /\ putBack \in BOOLEAN
  BY DEF Init
<1>6. CASE page \in Dify
  <2>1. console = Append(before, "ours") /\ saved = before /\ Installed
    BY <1>1, <1>2, <1>6, SavedIsNoMark DEF Installed
  <2> QED BY <1>2, <1>3, <1>4, <1>5, <2>1 DEF ConsoleInv
<1>7. CASE page \notin Dify
  <2>1. console = before /\ ~Installed
    BY <1>1, <1>7 DEF Installed
  <2> QED BY <1>2, <1>4, <1>5, <2>1 DEF ConsoleInv
<1> QED BY <1>6, <1>7

LEMMA ConsoleNext == ConsoleInv /\ [Next]_vars => ConsoleInv'
<1> SUFFICES ASSUME ConsoleInv, [Next]_vars PROVE ConsoleInv'
  OBVIOUS
<1>1. CASE Patch
  <2>1. /\ console' = Append(console, "theirs") /\ kept' = console
        /\ UNCHANGED <<saved, putBack, enabled>>
    BY <1>1 DEF Patch
  <2>2. console' \in Seq({"ours", "theirs"}) /\ kept' \in Seq({"ours", "theirs"})
    BY <2>1 DEF ConsoleInv
  <2>3. ~Contains(console, "ours") => ~Contains(console', "ours")
    BY <2>1 DEF ConsoleInv, Contains
  <2> QED BY <2>1, <2>2, <2>3 DEF ConsoleInv, Installed
<1>9. CASE Unpatch
  <2>1. /\ kept # NotKept /\ console' = kept /\ kept' = NotKept
        /\ UNCHANGED <<saved, enabled>>
        /\ putBack' = (putBack \/ (~Installed /\ Contains(kept, "ours")))
    BY <1>9 DEF Unpatch
  <2>2. putBack' \in BOOLEAN /\ (~putBack' => ~putBack /\ (~Installed => ~Contains(kept, "ours")))
    BY <2>1 DEF ConsoleInv
  <2> QED BY <2>1, <2>2 DEF ConsoleInv, Installed
<1>2. CASE ToggleCapture
  <2>1. CASE enabled
    BY <1>2, <2>1, UninstallKeeps DEF ToggleCapture
  <2>2. CASE ~enabled
    <3>1. enabled' = TRUE /\ InstallHooks /\ ~Installed /\ UNCHANGED <<kept, putBack>>
      BY <1>2, <2>2 DEF ToggleCapture, ConsoleInv, library
    <3>2. saved' = console /\ console' = Append(console, "ours") /\ console \in Seq({"ours", "theirs"})
      BY <3>1 DEF InstallHooks, ConsoleInv
    <3>3. console' \in Seq({"ours", "theirs"}) /\ Installed'
      BY <3>2, SavedIsNoMark DEF Installed
    <3> QED BY <3>1, <3>2, <3>3 DEF ConsoleInv
  <2> QED BY <2>1, <2>2
<1>3. ASSUME NEW p \in Pages, Pop(p) PROVE ConsoleInv'
  <2>1. UNCHANGED <<enabled, library>> /\ FollowRoute(p)
    BY <1>3 DEF Pop
  <2>2. CASE p \in Dify /\ enabled
    BY <2>1, <2>2, InstallKeeps DEF FollowRoute
  <2>3. CASE p \in Dify /\ ~enabled
    BY <2>1, <2>3 DEF FollowRoute, ConsoleInv, Installed, library
  <2>4. CASE p \notin Dify
    BY <2>1, <2>4, UninstallKeeps DEF FollowRoute, ConsoleInv
  <2> QED BY <2>2, <2>3, <2>4
<1>4. CASE UNCHANGED <<console, saved, library, enabled>>
  BY <1>4 DEF ConsoleInv, Installed, library
<1>5. CASE Log \/ ClearCapture \/ Removed \/ BodyReplaced \/ TogglePanel \/ Pushed \/ Look \/ Leave
  BY <1>4, <1>5 DEF Log, ClearCapture, Removed, BodyReplaced, TogglePanel, Pushed, Look, Leave, capture
<1>6. ASSUME NEW r \in Runs, ClickAgent(r) \/ Answers(r) \/ Fails(r) PROVE ConsoleInv'
  BY <1>4, <1>6 DEF ClickAgent, Detect, Answers, Fails, capture
<1>7. ASSUME NEW p \in Pages, Push(p) PROVE ConsoleInv'
  BY <1>4, <1>7 DEF Push, capture
<1>8. CASE UNCHANGED vars
  BY <1>4, <1>8 DEF vars, capture
<1> QED BY <1>1, <1>2, <1>3, <1>5, <1>6, <1>7, <1>8, <1>9 DEF Next

-----------------------------------------------------------------------------
(* The captured lines *)

Once(s) == \A i, k \in 1..Len(s) : s[i] = "ours" /\ s[k] = "ours" => i = k

\* There is one layer of ours around the console at most, and around what a library has saved.
HookedOnce == ~putBack => Once(console) /\ (kept # NotKept => Once(kept))

\* The lines in the buffer were written by the page, each of them later than the one before.
BufferInv ==
  /\ logged \in 0..MaxLogs
  /\ buffer \in Seq(1..logged)
  /\ CapturedOnce

\* A layer that is put around a console without one is the only one.
LEMMA FirstLayer ==
  ASSUME NEW s \in Seq({"ours", "theirs"}), ~Contains(s, "ours"), NEW f \in {"ours", "theirs"},
         NEW t, t = Append(s, f)
  PROVE  Once(t)
<1>1. \A i \in 1..Len(s) : s[i] # "ours"
  BY DEF Contains
<1>2. Len(t) = Len(s) + 1 /\ \A i \in 1..Len(s) : t[i] = s[i]
  OBVIOUS
<1>3. \A i \in 1..Len(t) : t[i] = "ours" => i = Len(s) + 1
  BY <1>1, <1>2
<1> QED BY <1>3 DEF Once

LEMMA HookedOnceInit == Init => HookedOnce
<1> SUFFICES ASSUME Init PROVE HookedOnce
  OBVIOUS
<1>1. PICK before \in {<<>>, <<"theirs">>} :
        IF page \in Dify THEN console = Append(before, "ours") /\ saved = before
        ELSE console = before /\ saved = NotInstalled
  BY DEF Init
<1>2. Once(console)
  <2>1. CASE before = <<>>
    BY <1>1, <2>1 DEF Once
  <2>2. CASE before = <<"theirs">>
    BY <1>1, <2>2 DEF Once
  <2> QED BY <2>1, <2>2
<1>3. kept # NotKept => Once(kept)
  BY DEF Init, Once
<1> QED BY <1>2, <1>3 DEF HookedOnce

LEMMA HookedOnceNext == ConsoleInv /\ HookedOnce /\ [Next]_vars => HookedOnce'
<1> SUFFICES ASSUME ConsoleInv, HookedOnce, [Next]_vars PROVE HookedOnce'
  OBVIOUS
<1>1. ASSUME UNCHANGED <<console, kept, putBack>> PROVE HookedOnce'
  BY <1>1 DEF HookedOnce, Once
<1>2. ASSUME InstallHooks, UNCHANGED library PROVE HookedOnce'
  <2>1. CASE Installed
    BY <1>1, <1>2, <2>1 DEF InstallHooks, library
  <2>2. CASE ~Installed
    <3>1. ~putBack => Once(console')
      BY <1>2, <2>2, FirstLayer DEF InstallHooks, ConsoleInv
    <3> QED BY <1>2, <3>1 DEF HookedOnce, library
  <2> QED BY <2>1, <2>2
<1>3. ASSUME UninstallHooks, UNCHANGED library PROVE HookedOnce'
  <2>1. CASE Installed
    <3>1. ~putBack => Once(console')
      BY <1>3, <2>1 DEF UninstallHooks, ConsoleInv, Contains, Once
    <3> QED BY <1>3, <3>1 DEF HookedOnce, library
  <2>2. CASE ~Installed
    BY <1>1, <1>3, <2>2 DEF UninstallHooks, library
  <2> QED BY <2>1, <2>2
<1>4. CASE Patch
  <2>1. /\ console' = Append(console, "theirs") /\ console \in Seq({"ours", "theirs"})
        /\ kept' = console /\ putBack' = putBack
    BY <1>4 DEF Patch, ConsoleInv
  <2>2. Once(console) => Once(console')
    BY <2>1 DEF Once
  <2> QED BY <2>1, <2>2 DEF HookedOnce
<1>11. CASE Unpatch
  <2>1. kept # NotKept /\ console' = kept /\ kept' = NotKept /\ (putBack => putBack')
    BY <1>11 DEF Unpatch
  <2> QED BY <2>1 DEF HookedOnce
<1>5. CASE ToggleCapture
  BY <1>2, <1>3, <1>5 DEF ToggleCapture
<1>6. ASSUME NEW p \in Pages, Pop(p) PROVE HookedOnce'
  BY <1>1, <1>2, <1>3, <1>6 DEF Pop, FollowRoute, library
<1>7. CASE Log \/ ClearCapture \/ Removed \/ BodyReplaced \/ TogglePanel \/ Pushed \/ Look \/ Leave
  BY <1>1, <1>7 DEF Log, ClearCapture, Removed, BodyReplaced, TogglePanel, Pushed, Look, Leave, capture, library
<1>8. ASSUME NEW r \in Runs, ClickAgent(r) \/ Answers(r) \/ Fails(r) PROVE HookedOnce'
  BY <1>1, <1>8 DEF ClickAgent, Detect, Answers, Fails, capture, library
<1>9. ASSUME NEW p \in Pages, Push(p) PROVE HookedOnce'
  BY <1>1, <1>9 DEF Push, capture, library
<1>10. CASE UNCHANGED vars
  BY <1>1, <1>10 DEF vars, capture, library
<1> QED BY <1>4, <1>5, <1>6, <1>7, <1>8, <1>9, <1>10, <1>11 DEF Next

\* The layers of ours can be counted.
LEMMA LayersType ==
  ASSUME ConsoleInv
  PROVE  Layers \in Nat
<1> DEFINE ours == {i \in DOMAIN console : console[i] = "ours"}
<1>1. DOMAIN console = 1..Len(console) /\ Len(console) \in Nat
  BY DEF ConsoleInv
<1>2. IsFiniteSet(1..Len(console)) /\ ours \subseteq 1..Len(console)
  BY <1>1, FS_Interval
<1>3. IsFiniteSet(ours)
  BY <1>2, FS_Subset
<1> QED BY <1>3, FS_CardinalityType DEF Layers

LEMMA OneLayer ==
  ASSUME ConsoleInv, HookedOnce, ~putBack
  PROVE  Layers \in {0, 1}
<1> DEFINE ours == {i \in DOMAIN console : console[i] = "ours"}
<1>1. DOMAIN console = 1..Len(console)
  BY DEF ConsoleInv
<1>2. CASE ours = {}
  BY <1>2, FS_EmptySet DEF Layers
<1>3. CASE ours # {}
  <2>1. PICK i \in ours : TRUE
    BY <1>3
  <2>2. ours = {i}
    BY <1>1, <2>1 DEF HookedOnce, Once
  <2> QED BY <2>2, FS_Singleton DEF Layers
<1> QED BY <1>2, <1>3

\* What is left of a sequence when its first k members are cut off.
LEMMA CutOff ==
  ASSUME NEW S, NEW s \in Seq(S), NEW k \in Nat, k < Len(s)
  PROVE  /\ SubSeq(s, k + 1, Len(s)) \in Seq(S)
         /\ Len(SubSeq(s, k + 1, Len(s))) = Len(s) - k
         /\ \A i \in 1..(Len(s) - k) : SubSeq(s, k + 1, Len(s))[i] = s[k + i]
<1>1. \A i \in (k + 1)..Len(s) : s[i] \in S
  OBVIOUS
<1>2. SubSeq(s, k + 1, Len(s)) \in Seq(S) /\ Len(SubSeq(s, k + 1, Len(s))) = Len(s) - k
  BY <1>1
<1>3. ASSUME NEW i \in 1..(Len(s) - k) PROVE SubSeq(s, k + 1, Len(s))[i] = s[k + i]
  OBVIOUS
<1> QED BY <1>2, <1>3

\* The captured lines are in order, and a line that is captured now is the last of them.
LEMMA CapturedInOrder ==
  ASSUME BufferInv, ~putBack, Layers \in {0, 1}
  PROVE  LET now == Captured(logged + 1) IN
         /\ now \in Seq(1..(logged + 1))
         /\ \A i \in 1..(Len(now) - 1) : now[i] < now[i + 1]
<1> DEFINE line == logged + 1
           more == [i \in 1..Layers |-> line]
           all  == buffer \o more
<1>1. MaxSize \in Nat \ {0} /\ MaxLogs \in Nat
  BY PageAssumption
<1>2. logged \in Nat /\ line \in Nat /\ line \in 1..line /\ 1..logged \subseteq 1..line
  BY <1>1 DEF BufferInv
<1>3. more \in Seq(1..line) /\ Len(more) = Layers /\ \A i \in 1..Layers : more[i] = line
  BY <1>2
<1>4. buffer \in Seq(1..line) /\ \A i \in 1..Len(buffer) : buffer[i] \in 1..logged
  BY <1>2 DEF BufferInv
<1>5. /\ all \in Seq(1..line) /\ Len(all) = Len(buffer) + Layers
      /\ \A i \in 1..Len(buffer) : all[i] = buffer[i]
      /\ \A i \in 1..Len(all) : i > Len(buffer) => all[i] = line
  <2> HIDE DEF more, line
  <2> QED BY <1>3, <1>4
<1> HIDE DEF more, all
<1>6. \A i \in 1..(Len(all) - 1) : all[i] < all[i + 1]
  <2>1. \A i \in 1..(Len(buffer) - 1) : buffer[i] < buffer[i + 1]
    BY DEF BufferInv, CapturedOnce
  <2> SUFFICES ASSUME NEW i \in 1..(Len(all) - 1) PROVE all[i] < all[i + 1]
    OBVIOUS
  <2>2. CASE i < Len(buffer)
    <3>1. i \in 1..(Len(buffer) - 1) /\ i \in 1..Len(buffer) /\ i + 1 \in 1..Len(buffer)
      BY <1>4, <2>2
    <3> QED BY <1>5, <2>1, <3>1
  <2>3. CASE i >= Len(buffer)
    <3>1. Len(buffer) \in Nat /\ i <= Len(buffer) + Layers - 1
      BY <1>4, <1>5
    <3>2. i = Len(buffer) /\ i \in 1..Len(buffer) /\ i + 1 \in 1..Len(all) /\ i + 1 > Len(buffer)
      BY <1>5, <2>3, <3>1
    <3>3. all[i] \in 1..logged /\ all[i + 1] = line
      BY <1>4, <1>5, <3>2
    <3> QED BY <1>2, <3>3
  <2>4. Len(buffer) \in Nat
    BY <1>4
  <2> QED BY <1>5, <2>2, <2>3, <2>4
<1>7. Captured(line) = IF Len(all) <= MaxSize THEN all ELSE SubSeq(all, Len(all) - MaxSize + 1, Len(all))
  BY DEF Captured, all, more
<1>8. CASE Len(all) <= MaxSize
  BY <1>5, <1>6, <1>7, <1>8
<1>9. CASE ~(Len(all) <= MaxSize)
  <2> DEFINE k   == Len(all) - MaxSize
             now == SubSeq(all, k + 1, Len(all))
  <2>1. k \in Nat /\ k + 1 <= Len(all) /\ Len(all) \in Nat
    BY <1>1, <1>5, <1>9
  <2>2. now \in Seq(1..line) /\ Len(now) = MaxSize /\ \A i \in 1..MaxSize : now[i] = all[k + i]
    <3>1. k < Len(all) /\ Len(all) - k = MaxSize
      BY <1>1, <2>1
    <3>2. ASSUME NEW S, all \in Seq(S)
          PROVE  /\ now \in Seq(S) /\ Len(now) = Len(all) - k
                 /\ \A i \in 1..(Len(all) - k) : now[i] = all[k + i]
      <4> HIDE DEF k
      <4> QED BY <2>1, <3>1, <3>2, CutOff
    <3> HIDE DEF k, now
    <3> QED BY <1>5, <3>1, <3>2
  <2>3. \A i \in 1..(MaxSize - 1) : now[i] < now[i + 1]
    <3> SUFFICES ASSUME NEW i \in 1..(MaxSize - 1) PROVE now[i] < now[i + 1]
      OBVIOUS
    <3>1. i \in 1..MaxSize /\ i + 1 \in 1..MaxSize /\ k + i \in 1..(Len(all) - 1) /\ k + (i + 1) = (k + i) + 1
      BY <1>1, <2>1
    <3>2. now[i] = all[k + i] /\ now[i + 1] = all[(k + i) + 1]
      <4> HIDE DEF k, now
      <4> QED BY <2>2, <3>1
    <3> QED BY <1>6, <3>1, <3>2
  <2>4. Captured(line) = now
    BY <1>7, <1>9
  <2> HIDE DEF now
  <2> QED BY <2>2, <2>3, <2>4
<1> QED BY <1>8, <1>9

\* Whatever the number of layers is, what is captured are lines that the page has written.
LEMMA CapturedType ==
  ASSUME BufferInv, Layers \in Nat
  PROVE  Captured(logged + 1) \in Seq(1..(logged + 1))
<1> DEFINE line == logged + 1
           more == [i \in 1..Layers |-> line]
           all  == buffer \o more
<1>1. MaxSize \in Nat \ {0} /\ logged \in Nat
  BY PageAssumption DEF BufferInv
<1>2. line \in 1..line /\ 1..logged \subseteq 1..line
  BY <1>1
<1>3. more \in Seq(1..line) /\ buffer \in Seq(1..line)
  BY <1>2 DEF BufferInv
<1>4. all \in Seq(1..line)
  <2> HIDE DEF more, line
  <2> QED BY <1>3
<1> HIDE DEF more, all
<1>5. Captured(line) = IF Len(all) <= MaxSize THEN all ELSE SubSeq(all, Len(all) - MaxSize + 1, Len(all))
  BY DEF Captured, all, more
<1>6. CASE Len(all) <= MaxSize
  BY <1>4, <1>5, <1>6
<1>7. CASE ~(Len(all) <= MaxSize)
  <2>1. PICK k : k = Len(all) - MaxSize
    OBVIOUS
  <2>2. k \in Nat /\ k < Len(all)
    BY <1>1, <1>4, <1>7, <2>1
  <2>3. SubSeq(all, k + 1, Len(all)) \in Seq(1..line)
    <3> HIDE DEF line
    <3> QED BY <1>4, <2>2, CutOff
  <2> QED BY <1>5, <1>7, <2>1, <2>3
<1> QED BY <1>6, <1>7

LEMMA BufferInit == Init => BufferInv
BY PageAssumption DEF Init, BufferInv, CapturedOnce

LEMMA BufferNext == ConsoleInv /\ HookedOnce /\ BufferInv /\ [Next]_vars => BufferInv'
<1> SUFFICES ASSUME ConsoleInv, HookedOnce, BufferInv, [Next]_vars PROVE BufferInv'
  OBVIOUS
<1>1. ASSUME UNCHANGED <<buffer, logged>>, putBack => putBack' PROVE BufferInv'
  BY <1>1 DEF BufferInv, CapturedOnce
<1>2. CASE Log
  <2>1. /\ logged' = logged + 1 /\ logged' \in 0..MaxLogs /\ 1..logged \subseteq 1..logged'
        /\ putBack' = putBack
    BY <1>2, PageAssumption DEF Log, BufferInv, library
  <2>2. CASE enabled
    <3>1. buffer' = Captured(logged + 1)
      BY <1>2, <2>1, <2>2 DEF Log
    <3>2. /\ Captured(logged + 1) \in Seq(1..(logged + 1))
          /\ ~putBack => \A i \in 1..(Len(Captured(logged + 1)) - 1) :
                           Captured(logged + 1)[i] < Captured(logged + 1)[i + 1]
      BY OneLayer, LayersType, CapturedType, CapturedInOrder
    <3> QED BY <2>1, <3>1, <3>2 DEF BufferInv, CapturedOnce
  <2>3. CASE ~enabled
    <3>1. buffer' = buffer /\ buffer \in Seq(1..logged')
      BY <1>2, <2>1, <2>3 DEF Log, BufferInv
    <3> QED BY <2>1, <3>1 DEF BufferInv, CapturedOnce
  <2> QED BY <2>2, <2>3
<1>3. CASE ClearCapture
  BY <1>3 DEF ClearCapture, BufferInv, CapturedOnce
<1>4. CASE Patch \/ Unpatch \/ ToggleCapture \/ Removed \/ BodyReplaced \/ TogglePanel \/ Pushed \/ Look \/ Leave
  BY <1>1, <1>4 DEF Patch, Unpatch, ToggleCapture, Removed, BodyReplaced, TogglePanel, Pushed, Look, Leave,
       capture, library
<1>5. ASSUME NEW r \in Runs, ClickAgent(r) \/ Answers(r) \/ Fails(r) PROVE BufferInv'
  BY <1>1, <1>5 DEF ClickAgent, Detect, Answers, Fails, capture, library
<1>6. ASSUME NEW p \in Pages, Push(p) \/ Pop(p) PROVE BufferInv'
  BY <1>1, <1>6 DEF Push, Pop, capture, library
<1>7. CASE UNCHANGED vars
  BY <1>1, <1>7 DEF vars, capture, library
<1> QED BY <1>2, <1>3, <1>4, <1>5, <1>6, <1>7 DEF Next

-----------------------------------------------------------------------------
(* The search *)

\* A candidate that is pending has a search that will come to it, or is behind one that has
\* answered: a search that ends there is the last that could have come to it.
SearchInv ==
  /\ probes \in [Slots -> {"pending", "ok", "fail"}]
  /\ runs \in [Runs -> Slots \cup {Off}]
  /\ \A i \in Of("pending", probes) :
       \/ \E r \in Runs : runs[r] # Off /\ runs[r] <= i
       \/ \E k \in Of("ok", probes) : k <= i

\* The badge of a window that a search has drawn tells what was found.
BadgeInv == hostEl /\ ui.badge # "initial" => ui.badge = Badge(probes)

LEMMA SearchInit == Init => SearchInv /\ BadgeInv
<1> SUFFICES ASSUME Init PROVE SearchInv /\ BadgeInv
  OBVIOUS
<1>1. 1 \in Slots /\ \A i \in Slots : 1 <= i /\ 1 # Off
  BY PageAssumption DEF Slots, Off
<1>2. booting \in Runs /\ runs[booting] = 1
  BY DEF Init
<1> QED BY <1>1, <1>2 DEF Init, SearchInv, BadgeInv, Of

\* A new search is at the first candidate.
LEMMA DetectKeeps ==
  ASSUME SearchInv, NEW r \in Runs, Detect(r)
  PROVE  SearchInv'
<1>1. 1 \in Slots /\ \A i \in Slots : 1 <= i /\ 1 # Off
  BY PageAssumption DEF Slots, Off
<1>2. runs'[r] = 1 /\ runs' \in [Runs -> Slots \cup {Off}]
  BY <1>1 DEF Detect, SearchInv
<1>3. probes' \in [Slots -> {"pending", "ok", "fail"}]
  BY DEF Detect
<1> QED BY <1>1, <1>2, <1>3 DEF SearchInv, Of

\* One that ends at an answer leaves the later candidates behind that answer.
LEMMA AnswersKeeps ==
  ASSUME SearchInv, NEW r \in Runs, Answers(r)
  PROVE  SearchInv'
<1> DEFINE k == runs[r]
<1>1. k \in Slots /\ k # Off
  BY DEF Answers, SearchInv
<1>2. probes' = [probes EXCEPT ![k] = "ok"] /\ runs' = [runs EXCEPT ![r] = Off]
  BY DEF Answers, Ends
<1>3. probes' \in [Slots -> {"pending", "ok", "fail"}] /\ runs' \in [Runs -> Slots \cup {Off}]
  BY <1>1, <1>2 DEF SearchInv
<1>4. k \in Of("ok", probes') /\ Of("ok", probes) \subseteq Of("ok", probes')
      /\ Of("pending", probes') \subseteq Of("pending", probes)
  BY <1>1, <1>2 DEF Of, SearchInv
<1>5. ASSUME NEW i \in Of("pending", probes')
      PROVE  \/ \E q \in Runs : runs'[q] # Off /\ runs'[q] <= i
             \/ \E j \in Of("ok", probes') : j <= i
  <2>1. CASE \E q \in Runs : runs[q] # Off /\ runs[q] <= i
    <3>1. PICK q \in Runs : runs[q] # Off /\ runs[q] <= i
      BY <2>1
    <3>2. CASE q = r
      BY <1>4, <3>1, <3>2
    <3>3. CASE q # r
      <4>1. runs'[q] = runs[q]
        BY <1>2, <3>3 DEF SearchInv
      <4> QED BY <3>1, <4>1
    <3> QED BY <3>2, <3>3
  <2>2. CASE \E j \in Of("ok", probes) : j <= i
    BY <1>4, <2>2
  <2> QED BY <1>4, <2>1, <2>2 DEF SearchInv
<1> QED BY <1>3, <1>5 DEF SearchInv

\* One that goes on comes to the later candidates, also to those behind an answer that it
\* has overwritten.
LEMMA FailsKeeps ==
  ASSUME SearchInv, NEW r \in Runs, Fails(r)
  PROVE  SearchInv'
<1> DEFINE k == runs[r]
<1>1. k \in Slots /\ k # Off /\ k \in Nat /\ Candidates \in Nat /\ k <= Candidates
  BY PageAssumption DEF Fails, SearchInv, Slots
<1>2. probes' = [probes EXCEPT ![k] = "fail"]
  BY DEF Fails, Failed
<1>3. runs' = [runs EXCEPT ![r] = IF k < Candidates THEN k + 1 ELSE Off]
  BY DEF Fails, Ends
<1>4. k < Candidates => k + 1 \in Slots /\ k + 1 # Off
  BY <1>1 DEF Slots, Off
<1>5. probes' \in [Slots -> {"pending", "ok", "fail"}] /\ runs' \in [Runs -> Slots \cup {Off}]
  BY <1>1, <1>2, <1>3, <1>4 DEF SearchInv
<1>6. /\ \A j \in Of("ok", probes) : j = k \/ j \in Of("ok", probes')
      /\ \A i \in Of("pending", probes') : i \in Of("pending", probes) /\ i # k /\ i \in Slots
  BY <1>1, <1>2 DEF Of, SearchInv
<1>7. ASSUME NEW i \in Of("pending", probes')
      PROVE  \/ \E q \in Runs : runs'[q] # Off /\ runs'[q] <= i
             \/ \E j \in Of("ok", probes') : j <= i
  <2>1. i \in Nat /\ i <= Candidates /\ i # k
    BY <1>1, <1>6 DEF Slots
  <2>2. ASSUME k <= i PROVE runs'[r] # Off /\ runs'[r] <= i
    <3>1. k < Candidates /\ k + 1 <= i
      BY <1>1, <2>1, <2>2
    <3>2. runs'[r] = k + 1
      BY <1>3, <3>1 DEF SearchInv
    <3> QED BY <1>4, <3>1, <3>2
  <2>3. CASE \E q \in Runs : runs[q] # Off /\ runs[q] <= i
    <3>1. PICK q \in Runs : runs[q] # Off /\ runs[q] <= i
      BY <2>3
    <3>2. CASE q = r
      BY <2>2, <3>1, <3>2
    <3>3. CASE q # r
      <4>1. runs'[q] = runs[q]
        BY <1>3, <3>3 DEF SearchInv
      <4> QED BY <3>1, <4>1
    <3> QED BY <3>2, <3>3
  <2>4. CASE \E j \in Of("ok", probes) : j <= i
    <3>1. PICK j \in Of("ok", probes) : j <= i
      BY <2>4
    <3>2. CASE j = k
      BY <2>2, <3>1, <3>2
    <3>3. CASE j # k
      BY <1>6, <3>1, <3>3
    <3> QED BY <3>2, <3>3
  <2> QED BY <1>6, <2>3, <2>4 DEF SearchInv
<1> QED BY <1>5, <1>7 DEF SearchInv

LEMMA SearchNext == SearchInv /\ [Next]_vars => SearchInv'
<1> SUFFICES ASSUME SearchInv, [Next]_vars PROVE SearchInv'
  OBVIOUS
<1>1. ASSUME NEW r \in Runs, ClickAgent(r) \/ Answers(r) \/ Fails(r) PROVE SearchInv'
  BY <1>1, DetectKeeps, AnswersKeeps, FailsKeeps DEF ClickAgent
<1>2. CASE UNCHANGED <<probes, runs>>
  BY <1>2 DEF SearchInv
<1>3. CASE \/ Log \/ Patch \/ Unpatch \/ ToggleCapture \/ ClearCapture
           \/ Removed \/ BodyReplaced \/ TogglePanel \/ Pushed \/ Look \/ Leave
  BY <1>2, <1>3 DEF Log, Patch, Unpatch, ToggleCapture, ClearCapture,
       Removed, BodyReplaced, TogglePanel, Pushed, Look, Leave, search
<1>4. ASSUME NEW p \in Pages, Push(p) \/ Pop(p) PROVE SearchInv'
  BY <1>2, <1>4 DEF Push, Pop, search
<1>5. CASE UNCHANGED vars
  BY <1>2, <1>5 DEF vars, search
<1> QED BY <1>1, <1>3, <1>4, <1>5 DEF Next

LEMMA BadgeNext == WindowInv /\ BadgeInv /\ [Next]_vars => BadgeInv'
<1> SUFFICES ASSUME WindowInv, BadgeInv, [Next]_vars PROVE BadgeInv'
  OBVIOUS
<1>1. ASSUME NEW r \in Runs, ClickAgent(r) \/ Answers(r) \/ Fails(r) PROVE BadgeInv'
  <2>1. UpdateBadge(probes') /\ hostEl' = hostEl
    BY <1>1 DEF ClickAgent, Detect, Answers, Fails
  <2>2. hostEl => ui'.badge = Badge(probes')
    BY <2>1 DEF UpdateBadge, WindowInv, UIs
  <2> QED BY <2>1, <2>2 DEF BadgeInv
<1>2. ASSUME UNCHANGED <<ui, hostEl, probes>> \/ (probes' = probes /\ ui'.badge = "initial") PROVE BadgeInv'
  BY <1>2 DEF BadgeInv, Badge, Of
<1>3. CASE Log \/ Patch \/ Unpatch \/ ToggleCapture \/ ClearCapture \/ Look \/ BodyReplaced
  BY <1>2, <1>3 DEF Log, Patch, Unpatch, ToggleCapture, ClearCapture, Look, BodyReplaced, search, window
<1>4. CASE Removed \/ Pushed
  BY <1>2, <1>4 DEF Removed, Pushed, Restore, Inject, NewUI, search
<1>5. ASSUME NEW p \in Pages, Push(p) \/ Pop(p) PROVE BadgeInv'
  BY <1>2, <1>5 DEF Push, Pop, Inject, NewUI, search, window
<1>6. CASE TogglePanel
  <2>1. ui'.badge = ui.badge /\ UNCHANGED <<hostEl, probes>>
    BY <1>6 DEF TogglePanel, search, WindowInv, UIs
  <2> QED BY <2>1 DEF BadgeInv, Badge, Of
<1>7. CASE Leave
  BY <1>2, <1>7 DEF Leave, BadgeInv, search
<1>8. CASE UNCHANGED vars
  BY <1>2, <1>8 DEF vars, search, window
<1> QED BY <1>1, <1>3, <1>4, <1>5, <1>6, <1>7, <1>8 DEF Next

-----------------------------------------------------------------------------
(* The route and the address *)

PlaceInv ==
  /\ {page, context} \subseteq Pages
  /\ pushes \in 0..MaxPushes
  /\ leaving \in {"set", "stayed", "left"}
  /\ booting \in Runs \cup {Off}
  /\ url \in Slots

\* There is a first candidate among those that have answered.
LEMMA FirstIsSlot ==
  ASSUME NEW p, Of("ok", p) # {}
  PROVE  First(p) \in Slots
<1>1. Of("ok", p) \subseteq Nat /\ Of("ok", p) \subseteq Slots
  BY PageAssumption DEF Of, Slots
<1>2. PICK i \in Of("ok", p) : \A k \in Of("ok", p) : ~ (<<k, i>> \in OpToRel(<, Nat))
  BY <1>1, WFMin, NatLessThanWellFounded
<1>3. ASSUME NEW k \in Of("ok", p) PROVE i <= k
  <2>1. k \in Nat /\ i \in Nat /\ <<k, i>> \in Nat \X Nat
    BY <1>1
  <2>2. k < i => <<k, i>> \in OpToRel(<, Nat)
    BY <2>1 DEF OpToRel
  <2>3. ~ (k < i)
    BY <1>2, <2>2, Zenon
  <2> QED BY <2>1, <2>3
<1>4. First(p) \in Of("ok", p)
  BY <1>3 DEF First
<1> QED BY <1>1, <1>4

LEMMA PlaceInit == Init => PlaceInv
<1>1. 1 \in Slots /\ 0 \in 0..MaxPushes
  BY PageAssumption DEF Slots
<1> QED BY <1>1 DEF Init, PlaceInv

LEMMA PlaceNext == PlaceInv /\ SearchInv /\ [Next]_vars => PlaceInv'
<1> SUFFICES ASSUME PlaceInv, SearchInv, [Next]_vars PROVE PlaceInv'
  OBVIOUS
<1> USE PageAssumption
<1>1. ASSUME UNCHANGED route, UNCHANGED <<booting, url>> PROVE PlaceInv'
  BY <1>1 DEF PlaceInv, route
<1>2. CASE Log \/ Patch \/ Unpatch \/ ToggleCapture \/ ClearCapture \/ Removed \/ BodyReplaced \/ TogglePanel
  BY <1>1, <1>2 DEF Log, Patch, Unpatch, ToggleCapture, ClearCapture, Removed, BodyReplaced, TogglePanel, search
<1>3. ASSUME NEW r \in Runs, Detect(r) PROVE PlaceInv'
  BY <1>1, <1>3 DEF Detect
<1>4. ASSUME NEW r \in Runs, Answers(r) \/ Fails(r) PROVE PlaceInv'
  <2>1. UNCHANGED route
    BY <1>4 DEF Answers, Fails
  <2>2. ASSUME NEW chosen \in Slots, Ends(r, chosen) PROVE booting' \in Runs \cup {Off} /\ url' \in Slots
    BY <2>2, FirstIsSlot DEF Ends, PlaceInv
  <2>3. runs[r] # Off => runs[r] \in Slots
    BY DEF SearchInv
  <2>4. booting' \in Runs \cup {Off} /\ url' \in Slots
    BY <1>4, <2>2, <2>3 DEF Answers, Fails, PlaceInv
  <2> QED BY <2>1, <2>4 DEF PlaceInv, route
<1>5. CASE Pushed \/ Look
  BY <1>5 DEF Pushed, Look, CaptureContext, PlaceInv, search
<1>6. CASE Leave
  BY <1>6 DEF Leave, PlaceInv, search
<1>7. ASSUME NEW p \in Pages, Push(p) \/ Pop(p) PROVE PlaceInv'
  BY <1>7 DEF Push, Pop, CaptureContext, PlaceInv, search
<1>8. CASE UNCHANGED vars
  BY <1>1, <1>8 DEF vars, search
<1> QED BY <1>2, <1>3, <1>4, <1>5, <1>6, <1>7, <1>8 DEF Next, ClickAgent

-----------------------------------------------------------------------------
(* The theorems *)

LEMMA Invariance == Spec => [](WindowInv /\ ConsoleInv /\ SearchInv /\ BadgeInv)
<1>1. Init => WindowInv /\ ConsoleInv /\ SearchInv /\ BadgeInv
  BY WindowInit, ConsoleInit, SearchInit
<1>2. (WindowInv /\ ConsoleInv /\ SearchInv /\ BadgeInv) /\ [Next]_vars
        => (WindowInv /\ ConsoleInv /\ SearchInv /\ BadgeInv)'
  BY WindowNext, ConsoleNext, SearchNext, BadgeNext
<1> QED BY <1>1, <1>2, PTL DEF Spec

LEMMA CaptureInvariance == Spec => [](HookedOnce /\ BufferInv)
<1>1. Init => HookedOnce /\ BufferInv
  BY HookedOnceInit, BufferInit
<1>2. ConsoleInv /\ HookedOnce /\ BufferInv /\ [Next]_vars => (HookedOnce /\ BufferInv)'
  BY HookedOnceNext, BufferNext
<1> QED BY <1>1, <1>2, Invariance, PTL DEF Spec

LEMMA PlaceInvariance == Spec => []PlaceInv
<1> QED BY PlaceInit, PlaceNext, Invariance, PTL DEF Spec

\* Whatever routes, searches, removals and clicks come, every variable holds what it may; most
\* of all, the functions that the script puts back around the console are ones it has saved.
THEOREM TypeTheorem == Spec => []TypeOK
<1>1. WindowInv /\ ConsoleInv /\ SearchInv /\ BufferInv /\ PlaceInv => TypeOK
  <2> SUFFICES ASSUME WindowInv, ConsoleInv, SearchInv, BufferInv, PlaceInv PROVE TypeOK
    OBVIOUS
  <2>1. hosts \in Nat /\ {hostEl, watched, panelOpen, putBack, enabled} \subseteq BOOLEAN
        /\ ui \in [badge : {"none", "initial", "probing", "connected", "failed"}, open : BOOLEAN]
    BY DEF WindowInv, ConsoleInv, OneWindow, UIs, Badges
  <2>2. logged \in 0..MaxLogs /\ buffer \in Seq(1..MaxLogs)
    BY PageAssumption DEF BufferInv
  <2>3. /\ console \in Seq({"ours", "theirs"}) /\ (Installed => saved \in Seq({"ours", "theirs"}))
        /\ kept # NotKept => kept \in Seq({"ours", "theirs"})
    BY DEF ConsoleInv
  <2> QED BY <2>1, <2>2, <2>3 DEF TypeOK, SearchInv, PlaceInv
<1> QED BY <1>1, Invariance, CaptureInvariance, PlaceInvariance, PTL

\* No line of the page is captured twice, and none before an earlier one, for any number of
\* lines, any bound of the buffer and any number of toggles, routes, and comings and goings of a
\* library, until the library puts back hooks that were out of use.
THEOREM CaptureTheorem == Spec => []CapturedOnce
<1>1. BufferInv => CapturedOnce
  BY DEF BufferInv
<1> QED BY <1>1, CaptureInvariance, PTL

\* However removals, routes, timers and the script's own removal meet, there is one window at most.
THEOREM OneWindowTheorem == Spec => []OneWindow
<1>1. WindowInv => OneWindow
  BY DEF WindowInv
<1> QED BY <1>1, Invariance, PTL

\* The panel of a window that the page threw out comes back as the user left it.
THEOREM PanelTheorem == Spec => []PanelIsKept
<1>1. WindowInv => PanelIsKept
  BY DEF WindowInv
<1> QED BY <1>1, Invariance, PTL

\* No route, new window or library switches capturing on against the user (but by hooks that it
\* puts back).
THEOREM OffTheorem == Spec => []OffIsOff
<1>1. ConsoleInv => OffIsOff
  BY DEF ConsoleInv, OffIsOff
<1> QED BY <1>1, Invariance, PTL

\* However many searches overlap, and whoever overwrites whose result: when all are over, badge
\* and diagnosis agree on whether a candidate has answered.
THEOREM SearchTheorem == Spec => []SearchIsTold
<1>1. SearchInv /\ BadgeInv => SearchIsTold
  <2> SUFFICES ASSUME SearchInv, BadgeInv, Searched, hostEl, ui.badge # "initial"
               PROVE  /\ ui.badge = IF Of("ok", probes) # {} THEN "connected" ELSE "failed"
                      /\ Advice(probes) = "unreachable" <=> ui.badge = "failed"
    BY DEF SearchIsTold
  <2>1. Of("ok", probes) = {} => Of("pending", probes) = {}
    BY DEF SearchInv, Searched
  <2>2. ui.badge = Badge(probes)
    BY DEF BadgeInv
  <2> QED BY <2>1, <2>2 DEF Badge, Advice
<1> QED BY <1>1, Invariance, PTL

\* The context that goes with a message is that of the page, or a timer is set to capture it.
THEOREM ContextTheorem == Spec => []ContextIsFresh
<1> DEFINE Inv == pushes \in Nat /\ ContextIsFresh
<1>1. Init => Inv
  BY DEF Init, ContextIsFresh
<1>2. Inv /\ [Next]_vars => Inv'
  <2> SUFFICES ASSUME Inv, [Next]_vars PROVE Inv'
    OBVIOUS
  <2>1. ASSUME NEW p \in Pages, Push(p) \/ Pop(p) PROVE Inv'
    BY <2>1 DEF Push, Pop, CaptureContext, ContextIsFresh
  <2>2. CASE Pushed \/ Look
    BY <2>2 DEF Pushed, Look, CaptureContext, ContextIsFresh
  <2>3. CASE UNCHANGED <<page, pushes, context>>
    BY <2>3 DEF ContextIsFresh
  <2>4. CASE \/ Log \/ Patch \/ Unpatch \/ ToggleCapture \/ ClearCapture
             \/ Removed \/ BodyReplaced \/ TogglePanel \/ Leave
    BY <2>3, <2>4 DEF Log, Patch, Unpatch, ToggleCapture, ClearCapture, Removed, BodyReplaced, TogglePanel, Leave, route
  <2>5. ASSUME NEW r \in Runs, ClickAgent(r) \/ Answers(r) \/ Fails(r) PROVE Inv'
    BY <2>3, <2>5 DEF ClickAgent, Detect, Answers, Fails, route
  <2>6. CASE UNCHANGED vars
    BY <2>3, <2>6 DEF vars, route
  <2> QED BY <2>1, <2>2, <2>4, <2>5, <2>6 DEF Next
<1>3. Inv => ContextIsFresh
  OBVIOUS
<1> QED BY <1>1, <1>2, <1>3, PTL DEF Spec
=============================================================================
