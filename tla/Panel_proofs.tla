------------------------------ MODULE Panel_proofs ------------------------------
(***************************************************************************)
(* Panel for any set of modes and any number of timers and requests at a   *)
(* time.  A window is Good when it has its type and the three properties   *)
(* hold of it in a form that every step keeps.                             *)
(***************************************************************************)
EXTENDS Panel, TLAPS

\* A popover that is shown has all the listeners it needs, or a timer that will add them.
Closable(v) ==
  \A p \in Popovers :
    v.shown[p] /\ v.tasks[Listen(p)] = 0 =>
      \A t \in Tiers(p) : \E e \in v.ears : e.pop = p /\ e.tier = t

\* The badge shows the mode, or an answer is awaited that will draw it, or was lost.
Told(v) ==
  v.tasks["post"] = 0 /\ v.tasks["recheck"] = 0 /\ v.tasks["created"] = 0 /\ ~v.unsure =>
    v.badge = v.mode

\* Names that are waited for are on their way.  The tab that is seen is the one of the state,
\* or the first one of a new window.
Named(v) ==
  /\ v.shown["user"] /\ v.names = "unknown" => v.tasks["whoami"] > 0
  /\ v.seenTab \in {v.tab, "chat"}

\* Resources that are waited for are on their way.
Loading(v) ==
  v.open /\ v.seenTab = "resource" /\ ~v.loaded /\ v.list = "loading" => v.tasks["load"] > 0

Sound(v) == v \in Windows /\ Closable(v) /\ Told(v) /\ Named(v)
Good(v) == Sound(v) /\ Loading(v)

-----------------------------------------------------------------------------
(* What the functions of the code keep *)

LEMMA ListenIsTask == \A p \in Popovers : Listen(p) \in Tasks
BY DEF Popovers, Listen, Tasks

\* One more timer or request takes nothing away.
LEMMA AddKeeps ==
  ASSUME NEW v, Good(v), NEW task \in Tasks
  PROVE  Good(Add(v, task))
<1> DEFINE u == Add(v, task)
<1>1. v \in Windows /\ v.tasks \in [Tasks -> Nat]
  BY DEF Good, Sound, Windows
<1>2. u = [v EXCEPT !.tasks = [v.tasks EXCEPT ![task] = v.tasks[task] + 1]]
  BY DEF Add
<1>3. /\ u \in Windows
      /\ u.tasks = [v.tasks EXCEPT ![task] = v.tasks[task] + 1]
      /\ u.shown = v.shown /\ u.ears = v.ears /\ u.unsure = v.unsure /\ u.badge = v.badge
      /\ u.mode = v.mode /\ u.names = v.names /\ u.open = v.open /\ u.seenTab = v.seenTab
      /\ u.loaded = v.loaded /\ u.list = v.list /\ u.tab = v.tab
  BY <1>1, <1>2 DEF Windows
<1> HIDE DEF u
<1>4. \A t \in Tasks : u.tasks[t] \in Nat /\ v.tasks[t] \in Nat /\ (u.tasks[t] = 0 => v.tasks[t] = 0)
                       /\ (v.tasks[t] > 0 => u.tasks[t] > 0)
  BY <1>1, <1>3
<1>5. {"post", "recheck", "created", "whoami", "load"} \subseteq Tasks
  BY DEF Tasks
<1>6. Closable(u)
  BY <1>3, <1>4, ListenIsTask DEF Good, Sound, Closable
<1>7. Told(u)
  BY <1>3, <1>4, <1>5 DEF Good, Sound, Told
<1>8. Named(u) /\ Loading(u)
  BY <1>3, <1>4, <1>5 DEF Good, Sound, Named, Loading
<1> QED BY <1>3, <1>6, <1>7, <1>8 DEF Good, Sound, u

\* A popover that is hidden needs no listeners, and the other one keeps its own.
LEMMA HideKeeps ==
  ASSUME NEW v, Good(v), NEW p \in Popovers
  PROVE  Good(Hide(v, p))
<1> DEFINE u == Hide(v, p)
           left == {e \in v.ears : e.pop = p => ~e.known}
<1>1. v \in Windows /\ v.shown \in [Popovers -> BOOLEAN] /\ v.ears \subseteq Ears
  BY DEF Good, Sound, Windows
<1>2. u = [v EXCEPT !.ears = left, !.shown = [v.shown EXCEPT ![p] = FALSE]]
  BY <1>1 DEF Hide, Forget, Windows
<1>3. left \subseteq Ears /\ [v.shown EXCEPT ![p] = FALSE] \in [Popovers -> BOOLEAN]
  BY <1>1
<1> HIDE DEF left
<1>4. /\ u \in Windows
      /\ u.tasks = v.tasks /\ u.shown = [v.shown EXCEPT ![p] = FALSE] /\ u.ears = left
      /\ u.unsure = v.unsure /\ u.badge = v.badge
      /\ u.mode = v.mode /\ u.names = v.names /\ u.open = v.open /\ u.seenTab = v.seenTab
      /\ u.loaded = v.loaded /\ u.list = v.list /\ u.tab = v.tab
  BY <1>1, <1>2, <1>3 DEF Windows
<1> HIDE DEF u
<1>5. ASSUME NEW q \in Popovers, u.shown[q], u.tasks[Listen(q)] = 0, NEW t \in Tiers(q)
      PROVE  \E e \in u.ears : e.pop = q /\ e.tier = t
  <2>1. q # p /\ v.shown[q]
    BY <1>1, <1>4, <1>5
  <2>2. PICK e \in v.ears : e.pop = q /\ e.tier = t
    BY <1>4, <1>5, <2>1 DEF Good, Sound, Closable
  <2>3. e \in u.ears
    BY <1>4, <2>1, <2>2 DEF left
  <2> QED BY <2>2, <2>3
<1>6. Closable(u)
  BY <1>5 DEF Closable
<1>7. Told(u)
  BY <1>4 DEF Good, Sound, Told
<1>8. Named(u) /\ Loading(u)
  <2>1. u.shown["user"] => v.shown["user"]
    BY <1>1, <1>4 DEF Popovers
  <2> QED BY <1>4, <2>1 DEF Good, Sound, Named, Loading
<1> QED BY <1>4, <1>6, <1>7, <1>8 DEF Good, Sound, u

\* A popover that is shown waits for its timer, and that of the names for their answer.
LEMMA ShowKeeps ==
  ASSUME NEW v, Good(v), NEW p \in Popovers
  PROVE  Good(Show(v, p))
<1> DEFINE u == Show(v, p)
           left == {e \in v.ears : e.pop = p => ~e.known}
           base == [v EXCEPT !.ears = left, !.shown = [v.shown EXCEPT ![p] = TRUE]]
           once == [v.tasks EXCEPT ![Listen(p)] = v.tasks[Listen(p)] + 1]
           tasks == IF p = "user" THEN [once EXCEPT !["whoami"] = once["whoami"] + 1] ELSE once
<1>1. v \in Windows /\ v.shown \in [Popovers -> BOOLEAN] /\ v.ears \subseteq Ears /\ v.tasks \in [Tasks -> Nat]
  BY DEF Good, Sound, Windows
<1>2. Listen(p) \in Tasks /\ {"post", "recheck", "created", "whoami", "load"} \subseteq Tasks
  BY ListenIsTask DEF Tasks
<1>3. once \in [Tasks -> Nat] /\ tasks \in [Tasks -> Nat]
  BY <1>1, <1>2
<1>4. /\ \A t \in Tasks : tasks[t] \in Nat /\ v.tasks[t] \in Nat /\ tasks[t] >= v.tasks[t]
      /\ tasks[Listen(p)] > 0
      /\ p = "user" => tasks["whoami"] > 0
  BY <1>1, <1>2
<1> HIDE DEF left
<1>5. left \subseteq Ears /\ [v.shown EXCEPT ![p] = TRUE] \in [Popovers -> BOOLEAN]
  BY <1>1 DEF left
<1>6. base \in Windows /\ base.tasks = v.tasks
  BY <1>1, <1>5 DEF Windows
<1>7. u = [base EXCEPT !.tasks = tasks]
  <2>1. [Forget(v, p) EXCEPT !.shown[p] = TRUE] = base
    BY <1>1 DEF Forget, left, Windows
  <2>2. Add(base, Listen(p)) = [base EXCEPT !.tasks = once]
    BY <1>6 DEF Add, Windows
  <2>3. Add([base EXCEPT !.tasks = once], "whoami") = [base EXCEPT !.tasks = [once EXCEPT !["whoami"] = once["whoami"] + 1]]
    <3> DEFINE b == [base EXCEPT !.tasks = once]
               twice == [once EXCEPT !["whoami"] = once["whoami"] + 1]
    <3> HIDE DEF base, once
    <3>1. b \in Windows /\ b.tasks = once
      BY <1>3, <1>6 DEF Windows
    <3>2. Add(b, "whoami") = [b EXCEPT !.tasks = twice]
      <4> HIDE DEF b
      <4> QED BY <3>1 DEF Add, Windows
    <3> HIDE DEF twice
    <3>3. [b EXCEPT !.tasks = twice] = [base EXCEPT !.tasks = twice]
      BY <1>6 DEF Windows
    <3> QED BY <3>2, <3>3 DEF twice
  <2> HIDE DEF base, once
  <2>4. CASE p = "user"
    BY <2>1, <2>2, <2>3, <2>4 DEF Show
  <2>5. CASE p # "user"
    BY <2>1, <2>2, <2>5 DEF Show
  <2> QED BY <2>4, <2>5
<1> HIDE DEF once, tasks
<1>8. /\ u \in Windows
      /\ u.tasks = tasks /\ u.shown = [v.shown EXCEPT ![p] = TRUE] /\ u.ears = left
      /\ u.unsure = v.unsure /\ u.badge = v.badge
      /\ u.mode = v.mode /\ u.names = v.names /\ u.open = v.open /\ u.seenTab = v.seenTab
      /\ u.loaded = v.loaded /\ u.list = v.list /\ u.tab = v.tab
  BY <1>1, <1>3, <1>5, <1>7 DEF Windows
<1> HIDE DEF u, base
<1>9. ASSUME NEW q \in Popovers, u.shown[q], u.tasks[Listen(q)] = 0, NEW t \in Tiers(q)
      PROVE  \E e \in u.ears : e.pop = q /\ e.tier = t
  <2>1. q # p
    BY <1>4, <1>8, <1>9
  <2>2. v.shown[q] /\ v.tasks[Listen(q)] = 0
    BY <1>1, <1>4, <1>8, <1>9, <2>1, ListenIsTask
  <2>3. PICK e \in v.ears : e.pop = q /\ e.tier = t
    BY <1>9, <2>2 DEF Good, Sound, Closable
  <2>4. e \in u.ears
    BY <1>8, <2>1, <2>3 DEF left
  <2> QED BY <2>3, <2>4
<1>10. Closable(u)
  BY <1>9 DEF Closable
<1>11. Told(u)
  <2>1. u.tasks["post"] = 0 => v.tasks["post"] = 0
    BY <1>2, <1>4, <1>8
  <2>2. u.tasks["recheck"] = 0 => v.tasks["recheck"] = 0
    BY <1>2, <1>4, <1>8
  <2>3. u.tasks["created"] = 0 => v.tasks["created"] = 0
    BY <1>2, <1>4, <1>8
  <2> QED BY <1>8, <2>1, <2>2, <2>3 DEF Good, Sound, Told
<1>12. Named(u) /\ Loading(u)
  <2>1. v.tasks["load"] > 0 => u.tasks["load"] > 0
    BY <1>2, <1>4, <1>8
  <2>2. u.shown["user"] /\ u.names = "unknown" => u.tasks["whoami"] > 0
    <3>1. CASE p = "user"
      BY <1>4, <1>8, <3>1
    <3>2. CASE p # "user"
      <4>1. u.shown["user"] => v.shown["user"]
        BY <1>1, <1>8, <3>2 DEF Popovers
      <4>2. v.tasks["whoami"] > 0 => u.tasks["whoami"] > 0
        BY <1>2, <1>4, <1>8
      <4> QED BY <1>8, <4>1, <4>2 DEF Good, Sound, Named, Loading
    <3> QED BY <3>1, <3>2
  <2> QED BY <1>8, <2>1, <2>2 DEF Good, Sound, Named, Loading
<1> QED BY <1>8, <1>10, <1>11, <1>12 DEF Good, Sound, u

LEMMA PopoverKeeps ==
  ASSUME NEW v, Good(v), NEW p \in Popovers
  PROVE  Good(TogglePopover(v, p))
BY HideKeeps, ShowKeeps DEF TogglePopover

LEMMA PressKeeps ==
  ASSUME NEW v, Good(v), NEW place
  PROVE  Good(Press(v, place))
<1> "mode" \in Popovers /\ "user" \in Popovers
  BY DEF Popovers
<1>1. Good(Hide(v, "mode"))
  BY HideKeeps
<1>2. ASSUME NEW u, Good(u) PROVE Good(Hide(u, "user"))
  BY <1>2, HideKeeps
<1> QED BY <1>1, <1>2 DEF Press

\* The text, the palette and what the state says of tabs outside of the resources
LEMMA InputKeeps ==
  ASSUME NEW v, Good(v), NEW u \in Windows,
         u.shown = v.shown, u.ears = v.ears, u.tasks = v.tasks, u.unsure = v.unsure, u.badge = v.badge,
         u.mode = v.mode, u.names = v.names, u.open = v.open, u.seenTab = v.seenTab,
         u.loaded = v.loaded, u.list = v.list, u.tab = v.tab
  PROVE  Good(u)
BY DEF Good, Sound, Closable, Told, Named, Loading

LEMMA EditKeeps ==
  ASSUME NEW v, Good(v), NEW text \in Texts, NEW palette \in {"hidden", "shown", "chosen"}
  PROVE  Good([v EXCEPT !.input = text, !.palette = palette])
<1> DEFINE u == [v EXCEPT !.input = text, !.palette = palette]
<1>1. v \in Windows
  BY DEF Good, Sound
<1>2. /\ u \in Windows
      /\ u.shown = v.shown /\ u.ears = v.ears /\ u.tasks = v.tasks /\ u.unsure = v.unsure /\ u.badge = v.badge
      /\ u.mode = v.mode /\ u.names = v.names /\ u.open = v.open /\ u.seenTab = v.seenTab
      /\ u.loaded = v.loaded /\ u.list = v.list /\ u.tab = v.tab
  BY <1>1 DEF Windows
<1> HIDE DEF u
<1>3. Good(u)
  BY <1>2, InputKeeps
<1> QED BY <1>3 DEF u

LEMMA EmptyEdits ==
  ASSUME NEW v, v \in Windows
  PROVE  /\ v.input \in Texts /\ v.palette \in {"hidden", "shown", "chosen"}
         /\ \A x : [v EXCEPT !.input = x] = [v EXCEPT !.input = x, !.palette = v.palette]
         /\ \A x : [v EXCEPT !.palette = x] = [v EXCEPT !.input = v.input, !.palette = x]
BY DEF Windows

\* Whoever shows the resources asks for them, if they are not there.
LEMMA LoadKeeps ==
  ASSUME NEW v, Sound(v)
  PROVE  Good(Load(v))
<1> DEFINE base == [v EXCEPT !.list = "loading"]
           tasks == [v.tasks EXCEPT !["load"] = v.tasks["load"] + 1]
           u == Load(v)
<1>1. v \in Windows /\ v.tasks \in [Tasks -> Nat] /\ "load" \in Tasks
  BY DEF Sound, Windows, Tasks
<1>2. base \in Windows /\ base.tasks = v.tasks
  BY <1>1 DEF Windows
<1>3. u = [base EXCEPT !.tasks = tasks]
  BY <1>2 DEF Load, Add
<1>4. /\ tasks \in [Tasks -> Nat] /\ tasks["load"] > 0
      /\ \A t \in Tasks \ {"load"} : tasks[t] = v.tasks[t]
  BY <1>1
<1> HIDE DEF tasks
<1>5. u \in Windows /\ u.tasks = tasks /\ u.shown = v.shown /\ u.ears = v.ears
      /\ u.unsure = v.unsure /\ u.badge = v.badge /\ u.mode = v.mode /\ u.names = v.names
      /\ u.seenTab = v.seenTab /\ u.tab = v.tab
  BY <1>1, <1>3, <1>4 DEF Windows
<1> HIDE DEF u
<1>6. /\ tasks["whoami"] = v.tasks["whoami"] /\ tasks["post"] = v.tasks["post"]
      /\ tasks["recheck"] = v.tasks["recheck"] /\ tasks["created"] = v.tasks["created"]
      /\ \A p \in Popovers : tasks[Listen(p)] = v.tasks[Listen(p)]
  BY <1>4 DEF Tasks, Popovers, Listen
<1>7. Good(u)
  BY <1>4, <1>5, <1>6 DEF Good, Sound, Closable, Told, Named, Loading
<1> QED BY <1>7 DEF u

\* What a window without resources to show needs in order to be sound
LEMMA MovedIsSound ==
  ASSUME NEW v, Good(v), NEW u \in Windows,
         u.shown = v.shown, u.ears = v.ears, u.tasks = v.tasks, u.unsure = v.unsure, u.badge = v.badge,
         u.mode = v.mode, u.names = v.names, u.seenTab \in {u.tab, "chat"}
  PROVE  Sound(u)
BY DEF Good, Sound, Closable, Told, Named

LEMMA SwitchTabKeeps ==
  ASSUME NEW v, Good(v), NEW tab \in Tabs
  PROVE  Good(SwitchTab(v, tab))
<1> DEFINE seen == [v EXCEPT !.tab = tab, !.seenTab = tab]
<1>1. v \in Windows
  BY DEF Good, Sound
<1>2. seen \in Windows /\ seen.tasks = v.tasks /\ seen.shown = v.shown /\ seen.ears = v.ears
      /\ seen.unsure = v.unsure /\ seen.badge = v.badge /\ seen.mode = v.mode /\ seen.names = v.names
      /\ seen.loaded = v.loaded /\ seen.seenTab = tab /\ seen.tab = tab
  BY <1>1 DEF Windows
<1>3. SwitchTab(v, tab) = IF tab = "resource" /\ ~v.loaded THEN Load(seen) ELSE seen
  BY DEF SwitchTab
<1> HIDE DEF seen
<1>4. Sound(seen)
  BY <1>2, MovedIsSound
<1>5. ~(tab = "resource" /\ ~v.loaded) => Good(seen)
  BY <1>2, <1>4 DEF Good, Loading
<1> QED BY <1>3, <1>4, <1>5, LoadKeeps

LEMMA PanelKeeps ==
  ASSUME NEW v, Good(v)
  PROVE  Good(TogglePanel(v))
<1> DEFINE toggled == [v EXCEPT !.open = ~v.open]
<1>1. v \in Windows /\ v.seenTab \in {v.tab, "chat"}
  BY DEF Good, Sound, Named
<1>2. toggled \in Windows /\ toggled.tasks = v.tasks /\ toggled.shown = v.shown /\ toggled.ears = v.ears
      /\ toggled.unsure = v.unsure /\ toggled.badge = v.badge
      /\ toggled.mode = v.mode /\ toggled.names = v.names /\ toggled.seenTab = v.seenTab
      /\ toggled.loaded = v.loaded /\ toggled.tab = v.tab
  BY <1>1 DEF Windows
<1>3. TogglePanel(v) = IF toggled.open /\ v.tab = "resource" /\ ~v.loaded THEN Load(toggled) ELSE toggled
  BY DEF TogglePanel
<1> HIDE DEF toggled
<1>4. Sound(toggled)
  BY <1>1, <1>2, MovedIsSound
<1>5. ~(toggled.open /\ v.tab = "resource" /\ ~v.loaded) => Good(toggled)
  BY <1>1, <1>2, <1>4 DEF Good, Loading
<1> QED BY <1>3, <1>4, <1>5, LoadKeeps

-----------------------------------------------------------------------------
(* The steps *)

\* A timer that fires, or an answer that comes, is one less to wait for.
LEMMA DoneFields ==
  ASSUME Good(w), NEW task \in Tasks, w.tasks[task] > 0
  PROVE  /\ Done(task) \in Windows
         /\ Done(task).tasks \in [Tasks -> Nat]
         /\ \A t \in Tasks \ {task} : Done(task).tasks[t] = w.tasks[t]
         /\ Done(task).shown = w.shown /\ Done(task).ears = w.ears /\ Done(task).unsure = w.unsure
         /\ Done(task).badge = w.badge /\ Done(task).mode = w.mode /\ Done(task).names = w.names
         /\ Done(task).open = w.open /\ Done(task).seenTab = w.seenTab /\ Done(task).loaded = w.loaded
         /\ Done(task).list = w.list /\ Done(task).tab = w.tab
<1> DEFINE tasks == [w.tasks EXCEPT ![task] = w.tasks[task] - 1]
<1>1. w \in Windows /\ w.tasks \in [Tasks -> Nat]
  BY DEF Good, Sound, Windows
<1>2. tasks \in [Tasks -> Nat] /\ \A t \in Tasks \ {task} : tasks[t] = w.tasks[t]
  BY <1>1
<1>3. Done(task) = [w EXCEPT !.tasks = tasks]
  BY DEF Done
<1> HIDE DEF tasks
<1> QED BY <1>1, <1>2, <1>3 DEF Windows

\* The tasks that the invariant knows of
LEMMA KnownTasks ==
  /\ {"post", "recheck", "whoami", "load", "created", "picker", "status", "send", "oldLoad"} \subseteq Tasks
  /\ \A p \in Popovers : Listen(p) \in Tasks \ {"post", "recheck", "whoami", "load", "created", "picker", "status", "send", "oldLoad"}
BY DEF Tasks, Popovers, Listen

LEMMA DoneKeeps ==
  ASSUME Good(w), NEW task \in {"picker", "status", "send", "oldLoad"}, w.tasks[task] > 0
  PROVE  Good(Done(task))
<1> DEFINE u == Done(task)
<1>1. task \in Tasks
  BY KnownTasks
<1>2. /\ u \in Windows
      /\ \A t \in Tasks \ {task} : u.tasks[t] = w.tasks[t]
      /\ u.shown = w.shown /\ u.ears = w.ears /\ u.unsure = w.unsure
      /\ u.badge = w.badge /\ u.mode = w.mode /\ u.names = w.names
      /\ u.open = w.open /\ u.seenTab = w.seenTab /\ u.loaded = w.loaded
      /\ u.list = w.list /\ u.tab = w.tab
  BY <1>1, DoneFields
<1> HIDE DEF u
<1>3. /\ u.tasks["whoami"] = w.tasks["whoami"] /\ u.tasks["post"] = w.tasks["post"]
      /\ u.tasks["recheck"] = w.tasks["recheck"] /\ u.tasks["created"] = w.tasks["created"]
      /\ u.tasks["load"] = w.tasks["load"]
      /\ \A p \in Popovers : u.tasks[Listen(p)] = w.tasks[Listen(p)]
  BY <1>2, KnownTasks
<1>4. Good(u)
  BY <1>2, <1>3 DEF Good, Sound, Closable, Told, Named, Loading
<1> QED BY <1>4 DEF u

\* The timer of a popover adds all that the popover needs, and removes no listener.
LEMMA ListeningKeeps ==
  ASSUME Good(w), NEW p \in Popovers, Listening(p)
  PROVE  Good(w')
<1> DEFINE v == Done(Listen(p))
           kept == {[e EXCEPT !.known = e.known /\ e.pop # p] : e \in w.ears}
           new == {[pop |-> p, tier |-> t, known |-> TRUE] : t \in Tiers(p)}
<1>1. w.tasks[Listen(p)] > 0 /\ Listen(p) \in Tasks /\ w.ears \subseteq Ears
  BY KnownTasks DEF Listening, Good, Sound, Windows
<1>2. /\ v \in Windows
      /\ \A t \in Tasks \ {Listen(p)} : v.tasks[t] = w.tasks[t]
      /\ v.shown = w.shown /\ v.unsure = w.unsure
      /\ v.badge = w.badge /\ v.mode = w.mode /\ v.names = w.names
      /\ v.open = w.open /\ v.seenTab = w.seenTab /\ v.loaded = w.loaded
      /\ v.list = w.list /\ v.tab = w.tab
  BY <1>1, DoneFields
<1>3. kept \subseteq Ears
  BY <1>1 DEF Ears
<1>4. Tiers(p) \subseteq {"root", "document"}
  BY DEF Tiers
<1>5. new \subseteq Ears
  <2>1. ASSUME NEW t \in Tiers(p) PROVE [pop |-> p, tier |-> t, known |-> TRUE] \in Ears
    <3>1. t \in {"root", "document"}
      BY <1>4
    <3>2. TRUE \in BOOLEAN
      OBVIOUS
    <3> QED BY <3>1, <3>2, Zenon DEF Ears
  <2> QED BY <2>1
<1>6. w' = [v EXCEPT !.ears = kept \cup new]
  BY DEF Listening
<1>7. \A e \in w.ears : [e EXCEPT !.known = e.known /\ e.pop # p].pop = e.pop
                        /\ [e EXCEPT !.known = e.known /\ e.pop # p].tier = e.tier
  BY <1>1 DEF Ears
<1>8. \A e \in w.ears : \E d \in kept : d.pop = e.pop /\ d.tier = e.tier
  BY <1>7
<1>9. ASSUME NEW t \in Tiers(p) PROVE \E d \in new : d.pop = p /\ d.tier = t
  <2>1. [pop |-> p, tier |-> t, known |-> TRUE] \in new
    OBVIOUS
  <2>2. [pop |-> p, tier |-> t, known |-> TRUE].pop = p /\ [pop |-> p, tier |-> t, known |-> TRUE].tier = t
    OBVIOUS
  <2> QED BY <2>1, <2>2
<1> HIDE DEF v, kept, new
<1>10. /\ w' \in Windows /\ w'.ears = kept \cup new
       /\ w'.tasks = v.tasks /\ w'.shown = w.shown /\ w'.unsure = w.unsure
       /\ w'.badge = w.badge /\ w'.mode = w.mode /\ w'.names = w.names
       /\ w'.open = w.open /\ w'.seenTab = w.seenTab /\ w'.loaded = w.loaded
       /\ w'.list = w.list /\ w'.tab = w.tab
  BY <1>2, <1>3, <1>5, <1>6 DEF Windows
<1>11. /\ w'.tasks["whoami"] = w.tasks["whoami"] /\ w'.tasks["post"] = w.tasks["post"]
       /\ w'.tasks["recheck"] = w.tasks["recheck"] /\ w'.tasks["created"] = w.tasks["created"]
       /\ w'.tasks["load"] = w.tasks["load"]
       /\ \A q \in Popovers : q # p => w'.tasks[Listen(q)] = w.tasks[Listen(q)]
  <2>1. \A q \in Popovers : q # p => Listen(q) # Listen(p)
    BY DEF Popovers, Listen
  <2> QED BY <1>2, <1>10, <2>1, KnownTasks
<1>12. ASSUME NEW q \in Popovers, w'.shown[q], w'.tasks[Listen(q)] = 0, NEW t \in Tiers(q)
       PROVE  \E e \in w'.ears : e.pop = q /\ e.tier = t
  <2>1. CASE q = p
    BY <1>9, <1>10, <1>12, <2>1
  <2>2. CASE q # p
    <3>1. PICK e \in w.ears : e.pop = q /\ e.tier = t
      BY <1>10, <1>11, <1>12, <2>2 DEF Good, Sound, Closable
    <3> QED BY <1>8, <1>10, <3>1
  <2> QED BY <2>1, <2>2
<1>13. Closable(w')
  BY <1>12 DEF Closable
<1> QED BY <1>10, <1>11, <1>13 DEF Good, Sound, Told, Named, Loading

LEMMA NamesKeep ==
  ASSUME Good(w), NamesListed
  PROVE  Good(w')
<1> DEFINE v == Done("whoami")
<1>1. PICK names \in {"listed", "failed"} : w' = [v EXCEPT !.names = names]
  BY DEF NamesListed
<1>2. w.tasks["whoami"] > 0 /\ "whoami" \in Tasks
  BY KnownTasks DEF NamesListed
<1>3. /\ v \in Windows
      /\ \A t \in Tasks \ {"whoami"} : v.tasks[t] = w.tasks[t]
      /\ v.shown = w.shown /\ v.ears = w.ears /\ v.unsure = w.unsure /\ v.badge = w.badge /\ v.mode = w.mode
      /\ v.open = w.open /\ v.seenTab = w.seenTab /\ v.loaded = w.loaded /\ v.list = w.list /\ v.tab = w.tab
  BY <1>2, DoneFields
<1> HIDE DEF v
<1>4. /\ w' \in Windows /\ w'.tasks = v.tasks /\ w'.names = names
      /\ w'.shown = w.shown /\ w'.ears = w.ears /\ w'.unsure = w.unsure /\ w'.badge = w.badge /\ w'.mode = w.mode
      /\ w'.open = w.open /\ w'.seenTab = w.seenTab /\ w'.loaded = w.loaded /\ w'.list = w.list /\ w'.tab = w.tab
  BY <1>1, <1>3 DEF Windows
<1>5. /\ w'.tasks["post"] = w.tasks["post"] /\ w'.tasks["recheck"] = w.tasks["recheck"]
      /\ w'.tasks["created"] = w.tasks["created"]
      /\ w'.tasks["load"] = w.tasks["load"] /\ \A p \in Popovers : w'.tasks[Listen(p)] = w.tasks[Listen(p)]
  BY <1>3, <1>4, KnownTasks
<1> QED BY <1>4, <1>5 DEF Good, Sound, Closable, Told, Named, Loading

\* Both resources have come, or nothing; a window that is no more may be told, too.
LEMMA LoadedKeeps ==
  ASSUME Good(w), Loaded
  PROVE  Good(w')
<1> DEFINE v == Done("load")
<1>1. \E list \in {"items", "failed"}, loaded \in BOOLEAN : w' = [v EXCEPT !.list = list, !.loaded = loaded]
  <2>1. v \in Windows
    BY KnownTasks, DoneFields DEF Loaded
  <2> HIDE DEF v
  <2>2. CASE w' = [v EXCEPT !.list = "items", !.loaded = TRUE]
    BY <2>2
  <2>3. CASE w' = [v EXCEPT !.list = "failed"]
    <3>1. w' = [v EXCEPT !.list = "failed", !.loaded = v.loaded] /\ v.loaded \in BOOLEAN
      BY <2>1, <2>3 DEF Windows
    <3> QED BY <3>1
  <2> QED BY <2>2, <2>3 DEF Loaded, v
<1>2. w.tasks["load"] > 0 /\ "load" \in Tasks
  BY KnownTasks DEF Loaded
<1>3. /\ v \in Windows
      /\ \A t \in Tasks \ {"load"} : v.tasks[t] = w.tasks[t]
      /\ v.shown = w.shown /\ v.ears = w.ears /\ v.unsure = w.unsure /\ v.badge = w.badge /\ v.mode = w.mode
      /\ v.names = w.names /\ v.open = w.open /\ v.seenTab = w.seenTab /\ v.tab = w.tab
  BY <1>2, DoneFields
<1> HIDE DEF v
<1>4. /\ w' \in Windows /\ w'.tasks = v.tasks /\ w'.list # "loading"
      /\ w'.shown = w.shown /\ w'.ears = w.ears /\ w'.unsure = w.unsure /\ w'.badge = w.badge /\ w'.mode = w.mode
      /\ w'.names = w.names /\ w'.open = w.open /\ w'.seenTab = w.seenTab /\ w'.tab = w.tab
  <2>1. PICK list \in {"items", "failed"}, loaded \in BOOLEAN : w' = [v EXCEPT !.list = list, !.loaded = loaded]
    BY <1>1
  <2>2. w' \in Windows
    BY <1>3, <2>1 DEF Windows
  <2>3. w'.tasks = v.tasks /\ w'.list = list /\ w'.shown = v.shown /\ w'.ears = v.ears /\ w'.unsure = v.unsure
        /\ w'.badge = v.badge /\ w'.mode = v.mode /\ w'.names = v.names /\ w'.open = v.open
        /\ w'.seenTab = v.seenTab /\ w'.tab = v.tab
    <3>1. v \in Windows
      BY <1>3
    <3> QED BY <2>1, <3>1 DEF Windows
  <2> QED BY <1>3, <2>2, <2>3
<1>5. /\ w'.tasks["post"] = w.tasks["post"] /\ w'.tasks["recheck"] = w.tasks["recheck"]
      /\ w'.tasks["created"] = w.tasks["created"]
      /\ w'.tasks["whoami"] = w.tasks["whoami"] /\ \A p \in Popovers : w'.tasks[Listen(p)] = w.tasks[Listen(p)]
  BY <1>3, <1>4, KnownTasks
<1> QED BY <1>4, <1>5 DEF Good, Sound, Closable, Told, Named, Loading

LEMMA OldLoadedKeeps ==
  ASSUME Good(w), OldLoaded
  PROVE  Good(w')
<1> DEFINE v == Done("oldLoad")
<1>1. Good(v)
  BY DoneKeeps DEF OldLoaded
<1>2. w' \in {[v EXCEPT !.loaded = TRUE], v}
  BY DEF OldLoaded
<1> HIDE DEF v
<1>3. CASE w' = [v EXCEPT !.loaded = TRUE]
  <2>1. v \in Windows
    BY <1>1 DEF Good, Sound
  <2>2. /\ w' \in Windows /\ w'.loaded /\ w'.tasks = v.tasks
        /\ w'.shown = v.shown /\ w'.ears = v.ears /\ w'.unsure = v.unsure /\ w'.badge = v.badge /\ w'.mode = v.mode
        /\ w'.names = v.names /\ w'.seenTab = v.seenTab /\ w'.tab = v.tab
    BY <1>3, <2>1 DEF Windows
  <2> QED BY <1>1, <2>2 DEF Good, Sound, Closable, Told, Named, Loading
<1> QED BY <1>1, <1>2, <1>3

\* A mode that is answered is taken if it is known, and somebody is left who draws the badge.
LEMMA AcceptedKeeps ==
  ASSUME Good(w), NEW v \in Windows, NEW task \in {"recheck", "created"}, NEW mode,
         v.tasks["load"] = w.tasks["load"], v.tasks["whoami"] = w.tasks["whoami"],
         \A p \in Popovers : v.tasks[Listen(p)] = w.tasks[Listen(p)],
         v.shown = w.shown, v.ears = w.ears, v.names = w.names, v.open = w.open,
         v.seenTab = w.seenTab, v.loaded = w.loaded, v.list = w.list, v.tab = w.tab,
         w' = Add(Accept(v, mode), task)
  PROVE  Good(w')
<1> DEFINE u == Accept(v, mode)
           tasks == [v.tasks EXCEPT ![task] = v.tasks[task] + 1]
<1>1. /\ u \in Windows /\ u.tasks = v.tasks
      /\ u.shown = w.shown /\ u.ears = w.ears /\ u.names = w.names
      /\ u.open = w.open /\ u.seenTab = w.seenTab /\ u.loaded = w.loaded /\ u.list = w.list /\ u.tab = w.tab
  <2>1. CASE mode \in Modes
    <3>1. u = [v EXCEPT !.mode = mode]
      BY <2>1 DEF Accept
    <3> QED BY <2>1, <3>1 DEF Windows
  <2>2. CASE mode \notin Modes
    <3>1. u = v
      BY <2>2 DEF Accept
    <3> QED BY <3>1
  <2> QED BY <2>1, <2>2
<1>2. w' = [u EXCEPT !.tasks = tasks]
  BY <1>1 DEF Add
<1>3. /\ tasks \in [Tasks -> Nat] /\ tasks[task] > 0
      /\ \A t \in Tasks \ {task} : tasks[t] = v.tasks[t]
  <2>1. v.tasks \in [Tasks -> Nat] /\ task \in Tasks
    BY KnownTasks DEF Windows
  <2> QED BY <2>1
<1> HIDE DEF u, tasks
<1>4. /\ w' \in Windows /\ w'.tasks = tasks
      /\ w'.shown = w.shown /\ w'.ears = w.ears /\ w'.names = w.names
      /\ w'.open = w.open /\ w'.seenTab = w.seenTab /\ w'.loaded = w.loaded /\ w'.list = w.list /\ w'.tab = w.tab
  BY <1>1, <1>2, <1>3 DEF Windows
<1>5. /\ tasks["load"] = w.tasks["load"] /\ tasks["whoami"] = w.tasks["whoami"]
      /\ \A p \in Popovers : tasks[Listen(p)] = w.tasks[Listen(p)]
  BY <1>3, KnownTasks
<1> QED BY <1>3, <1>4, <1>5 DEF Good, Sound, Closable, Told, Named, Loading

\* Where the badge is drawn, it tells the mode.
LEMMA DrawnKeeps ==
  ASSUME Good(w), NEW v \in Windows,
         v.tasks["load"] = w.tasks["load"], v.tasks["whoami"] = w.tasks["whoami"],
         \A p \in Popovers : v.tasks[Listen(p)] = w.tasks[Listen(p)],
         v.shown = w.shown, v.ears = w.ears, v.names = w.names, v.open = w.open,
         v.seenTab = w.seenTab, v.loaded = w.loaded, v.list = w.list, v.tab = w.tab,
         w' = RefreshModeBadge(v)
  PROVE  Good(w')
<1>1. w' = [v EXCEPT !.badge = v.mode, !.unsure = FALSE]
  BY DEF RefreshModeBadge
<1>2. v.mode \in Modes
  BY DEF Windows
<1>3. /\ w' \in Windows /\ w'.tasks = v.tasks /\ w'.badge = w'.mode
      /\ w'.shown = w.shown /\ w'.ears = w.ears /\ w'.names = w.names
      /\ w'.open = w.open /\ w'.seenTab = w.seenTab /\ w'.loaded = w.loaded /\ w'.list = w.list /\ w'.tab = w.tab
  BY <1>1, <1>2 DEF Windows
<1> QED BY <1>3 DEF Good, Sound, Closable, Told, Named, Loading

\* The answer to a change of the mode: an unknown mode is not taken, and the badge waits for
\* the mode of /status; a failure draws it at once.
LEMMA PostedKeeps ==
  ASSUME Good(w), Posted
  PROVE  Good(w')
<1> DEFINE v == Done("post")
<1>1. w.tasks["post"] > 0 /\ "post" \in Tasks
  BY KnownTasks DEF Posted
<1>2. /\ v \in Windows
      /\ \A t \in Tasks \ {"post"} : v.tasks[t] = w.tasks[t]
      /\ v.shown = w.shown /\ v.ears = w.ears /\ v.names = w.names
      /\ v.open = w.open /\ v.seenTab = w.seenTab /\ v.loaded = w.loaded /\ v.list = w.list /\ v.tab = w.tab
  BY <1>1, DoneFields
<1>3. /\ v.tasks["load"] = w.tasks["load"] /\ v.tasks["whoami"] = w.tasks["whoami"]
      /\ \A p \in Popovers : v.tasks[Listen(p)] = w.tasks[Listen(p)]
  BY <1>2, KnownTasks
<1> HIDE DEF v
<1>4. ASSUME NEW mode, w' = Add(Accept(v, mode), "recheck")
      PROVE  Good(w')
  BY <1>2, <1>3, <1>4, AcceptedKeeps
<1>5. CASE w' = Failed(v)
  BY <1>2, <1>3, <1>5, DrawnKeeps DEF Failed
<1> QED BY <1>4, <1>5 DEF Posted, v

\* A new session: its mode is taken before anything is drawn.
LEMMA CreatedKeeps ==
  ASSUME Good(w), SessionCreated
  PROVE  Good(w')
<1>1. w \in Windows
  BY DEF Good, Sound
<1>2. PICK mode : w' = Add(Accept(w, mode), "created")
  BY DEF SessionCreated
<1> QED BY <1>1, <1>2, AcceptedKeeps

\* It is drawn when /status is answered, and also when that has failed.
LEMMA CreatedStatusKeeps ==
  ASSUME Good(w), CreatedStatus
  PROVE  Good(w')
<1> DEFINE v == Done("created")
<1>1. w.tasks["created"] > 0 /\ "created" \in Tasks
  BY KnownTasks DEF CreatedStatus
<1>2. /\ v \in Windows
      /\ \A t \in Tasks \ {"created"} : v.tasks[t] = w.tasks[t]
      /\ v.shown = w.shown /\ v.ears = w.ears /\ v.names = w.names
      /\ v.open = w.open /\ v.seenTab = w.seenTab /\ v.loaded = w.loaded /\ v.list = w.list /\ v.tab = w.tab
  BY <1>1, DoneFields
<1>3. /\ v.tasks["load"] = w.tasks["load"] /\ v.tasks["whoami"] = w.tasks["whoami"]
      /\ \A p \in Popovers : v.tasks[Listen(p)] = w.tasks[Listen(p)]
  BY <1>2, KnownTasks
<1>4. PICK mode : w' = RefreshModeBadge(Accept(v, mode))
  BY DEF CreatedStatus
<1> HIDE DEF v
<1> DEFINE u == Accept(v, mode)
<1>5. /\ u \in Windows /\ u.tasks = v.tasks
      /\ u.shown = w.shown /\ u.ears = w.ears /\ u.names = w.names
      /\ u.open = w.open /\ u.seenTab = w.seenTab /\ u.loaded = w.loaded /\ u.list = w.list /\ u.tab = w.tab
  <2>1. CASE mode \in Modes
    <3>1. u = [v EXCEPT !.mode = mode]
      BY <2>1 DEF Accept
    <3> HIDE DEF u
    <3> QED BY <1>2, <2>1, <3>1 DEF Windows
  <2>2. CASE mode \notin Modes
    <3>1. u = v
      BY <2>2 DEF Accept
    <3> QED BY <1>2, <3>1
  <2> QED BY <2>1, <2>2
<1>6. w' = RefreshModeBadge(u)
  BY <1>4
<1> HIDE DEF u
<1> QED BY <1>3, <1>5, <1>6, DrawnKeeps

\* /status draws the badge for the mode that it brings.
LEMMA StatusKeeps ==
  ASSUME Good(w), NEW task \in {"recheck", "status"}, Status(task)
  PROVE  Good(w')
<1> DEFINE v == Done(task)
<1>1. w.tasks[task] > 0 /\ task \in Tasks
  BY KnownTasks DEF Status
<1>2. /\ v \in Windows
      /\ \A t \in Tasks \ {task} : v.tasks[t] = w.tasks[t]
      /\ v.shown = w.shown /\ v.ears = w.ears /\ v.names = w.names
      /\ v.mode = w.mode /\ v.badge = w.badge /\ v.unsure = w.unsure
      /\ v.open = w.open /\ v.seenTab = w.seenTab /\ v.loaded = w.loaded /\ v.list = w.list /\ v.tab = w.tab
  BY <1>1, DoneFields
<1>3. /\ v.tasks["load"] = w.tasks["load"] /\ v.tasks["whoami"] = w.tasks["whoami"]
      /\ v.tasks["post"] = w.tasks["post"] /\ v.tasks["created"] = w.tasks["created"]
      /\ (task = "status" => v.tasks["recheck"] = w.tasks["recheck"])
      /\ \A p \in Popovers : v.tasks[Listen(p)] = w.tasks[Listen(p)]
  BY <1>2, KnownTasks
<1> HIDE DEF v
<1>4. ASSUME NEW mode \in Modes, w' = RefreshModeBadge([v EXCEPT !.mode = mode])
      PROVE  Good(w')
  <2> DEFINE base == [v EXCEPT !.mode = mode]
  <2>1. /\ base \in Windows /\ base.tasks = v.tasks
        /\ base.shown = w.shown /\ base.ears = w.ears /\ base.names = w.names /\ base.open = w.open
        /\ base.seenTab = w.seenTab /\ base.loaded = w.loaded /\ base.list = w.list /\ base.tab = w.tab
    BY <1>2 DEF Windows
  <2>2. w' = RefreshModeBadge(base)
    BY <1>4
  <2> HIDE DEF base
  <2> QED BY <1>3, <2>1, <2>2, DrawnKeeps
<1>5. CASE w' = [v EXCEPT !.unsure = v.unsure \/ task = "recheck"]
  <2>1. /\ w' \in Windows /\ w'.tasks = v.tasks /\ w'.badge = w.badge /\ w'.mode = w.mode
        /\ w'.unsure = (w.unsure \/ task = "recheck")
        /\ w'.shown = w.shown /\ w'.ears = w.ears /\ w'.names = w.names
        /\ w'.open = w.open /\ w'.seenTab = w.seenTab /\ w'.loaded = w.loaded /\ w'.list = w.list /\ w'.tab = w.tab
    BY <1>2, <1>5 DEF Windows
  <2>2. Told(w')
    <3>1. CASE task = "recheck"
      BY <2>1, <3>1 DEF Told
    <3>2. CASE task = "status"
      BY <1>3, <2>1, <3>2 DEF Told, Good, Sound
    <3> QED BY <3>1, <3>2
  <2> QED BY <1>3, <2>1, <2>2 DEF Good, Sound, Closable, Named, Loading
<1> QED BY <1>4, <1>5 DEF Status, v

\* A change of the mode that is asked for shows in the badge until it is answered.
LEMMA SetModeKeeps ==
  ASSUME NEW v, Good(v), NEW mode, NEW u \in SetMode(v, mode)
  PROVE  Good(u)
<1> DEFINE base == [v EXCEPT !.badge = "switching"]
           tasks == [v.tasks EXCEPT !["post"] = v.tasks["post"] + 1]
<1>1. u = v \/ u = Add(base, "post")
  BY DEF SetMode
<1>2. CASE u = Add(base, "post")
  <2>1. v \in Windows /\ v.tasks \in [Tasks -> Nat] /\ "post" \in Tasks
    BY KnownTasks DEF Good, Sound, Windows
  <2>2. base \in Windows /\ base.tasks = v.tasks
    BY <2>1 DEF Windows
  <2>3. u = [base EXCEPT !.tasks = tasks]
    BY <1>2, <2>2 DEF Add
  <2>4. /\ tasks \in [Tasks -> Nat] /\ tasks["post"] > 0
        /\ \A t \in Tasks \ {"post"} : tasks[t] = v.tasks[t]
    BY <2>1
  <2> HIDE DEF tasks
  <2>5. /\ u \in Windows /\ u.tasks = tasks
        /\ u.shown = v.shown /\ u.ears = v.ears /\ u.names = v.names
        /\ u.open = v.open /\ u.seenTab = v.seenTab /\ u.loaded = v.loaded /\ u.list = v.list /\ u.tab = v.tab
    BY <2>1, <2>3, <2>4 DEF Windows
  <2>6. /\ tasks["load"] = v.tasks["load"] /\ tasks["whoami"] = v.tasks["whoami"]
        /\ \A p \in Popovers : tasks[Listen(p)] = v.tasks[Listen(p)]
    BY <2>4, KnownTasks
  <2> QED BY <2>4, <2>5, <2>6 DEF Good, Sound, Closable, Told, Named, Loading
<1> QED BY <1>1, <1>2

\* A new window shows no popover, its badge tells the mode, and its resources are asked for.
LEMMA ReinjectedKeeps ==
  ASSUME Good(w), Reinjected
  PROVE  Good(w')
<1> DEFINE tasks == [w.tasks EXCEPT !["load"] = 0, !["whoami"] = 0,
                                    !["oldLoad"] = w.tasks["oldLoad"] + w.tasks["load"]]
           ears == {e \in w.ears : e.tier = "document" /\ ~e.known}
           none == [p \in Popovers |-> FALSE]
           new == [w EXCEPT !.shown = none, !.ears = ears, !.seenTab = "chat", !.list = "loading",
                            !.badge = w.mode, !.unsure = FALSE, !.input = "", !.palette = "hidden",
                            !.names = "unknown", !.tasks = tasks]
<1>1. w \in Windows /\ w.tasks \in [Tasks -> Nat] /\ {"load", "whoami", "oldLoad"} \subseteq Tasks
  BY KnownTasks DEF Good, Sound, Windows
<1>2. tasks \in [Tasks -> Nat]
  BY <1>1
<1>3. ears \subseteq Ears /\ none \in [Popovers -> BOOLEAN] /\ \A p \in Popovers : ~none[p]
  BY <1>1 DEF Windows
<1>4. "chat" \in Tabs /\ "" \in Texts /\ w.mode \in Modes
  BY <1>1 DEF Tabs, Texts, Windows
<1>5. w' = IF w.open /\ w.tab = "resource" /\ ~w.loaded THEN Load(new) ELSE new
  BY DEF Reinjected
<1> HIDE DEF tasks, ears, none
<1>6. /\ new \in Windows /\ new.shown = none /\ new.badge = new.mode
      /\ new.seenTab = "chat"
  BY <1>1, <1>2, <1>3, <1>4 DEF Windows
<1> HIDE DEF new
<1>7. Sound(new)
  <2>1. ~new.shown["user"]
    BY <1>3, <1>6 DEF Popovers
  <2> QED BY <1>3, <1>6, <2>1 DEF Sound, Closable, Told, Named
<1>8. Good(new)
  BY <1>6, <1>7 DEF Good, Loading
<1> QED BY <1>5, <1>7, <1>8, LoadKeeps

-----------------------------------------------------------------------------
(* Clicks and keys *)

LEMMA TextsAndPalettes ==
  /\ Commands \subseteq Texts /\ Prompts \subseteq Texts /\ "" \in Texts
  /\ \A v \in Windows : v.input \in Texts /\ v.palette \in {"hidden", "shown", "chosen"}
BY DEF Texts, Windows

\* The text alone, or the palette alone, is an edit of both.
LEMMA TextKeeps ==
  ASSUME NEW v, Good(v), NEW text \in Texts
  PROVE  Good([v EXCEPT !.input = text])
<1>1. v \in Windows
  BY DEF Good, Sound
<1>2. [v EXCEPT !.input = text] = [v EXCEPT !.input = text, !.palette = v.palette]
  BY <1>1, EmptyEdits
<1>3. v.input \in Texts /\ v.palette \in {"hidden", "shown", "chosen"}
  BY <1>1, EmptyEdits
<1>4. Good([v EXCEPT !.input = text, !.palette = v.palette])
  BY <1>3, EditKeeps
<1> QED BY <1>2, <1>4, Zenon

LEMMA PaletteKeeps ==
  ASSUME NEW v, Good(v), NEW palette \in {"hidden", "shown", "chosen"}
  PROVE  Good([v EXCEPT !.palette = palette])
<1>1. v \in Windows
  BY DEF Good, Sound
<1>2. [v EXCEPT !.palette = palette] = [v EXCEPT !.input = v.input, !.palette = palette]
  BY <1>1, EmptyEdits
<1>3. v.input \in Texts /\ v.palette \in {"hidden", "shown", "chosen"}
  BY <1>1, EmptyEdits
<1>4. Good([v EXCEPT !.input = v.input, !.palette = palette])
  BY <1>3, EditKeeps
<1> QED BY <1>2, <1>4, Zenon

LEMMA CompletedKeeps ==
  ASSUME NEW v, Good(v), NEW u \in Completed(v)
  PROVE  Good(u)
<1>1. PICK c \in Commands : u = [v EXCEPT !.input = c, !.palette = "hidden"]
  BY DEF Completed
<1> QED BY <1>1, EditKeeps, TextsAndPalettes

LEMMA SendKeeps ==
  ASSUME NEW v, Good(v), NEW u \in SendMessage(v)
  PROVE  Good(u)
<1> DEFINE cleared == [v EXCEPT !.input = "", !.palette = "hidden"]
<1>1. Good(cleared)
  BY EditKeeps, TextsAndPalettes
<1> HIDE DEF cleared
<1>2. Good(Add(cleared, "send"))
  BY <1>1, AddKeeps, KnownTasks
<1>3. u \in {v, cleared, Add(cleared, "send")}
  BY DEF SendMessage, cleared
<1> QED BY <1>1, <1>2, <1>3

LEMMA EnterKeeps ==
  ASSUME Good(w), Enter
  PROVE  Good(w')
<1>1. PICK v \in {w} \cup SendMessage(w) : w' \in IF v.palette = "chosen" THEN Completed(v) ELSE {v}
  BY DEF Enter
<1>2. Good(v)
  BY SendKeeps
<1> QED BY <1>1, <1>2, CompletedKeeps

LEMMA EscapeKeeps ==
  ASSUME Good(w), Escape
  PROVE  Good(w')
<1> DEFINE closed == [w EXCEPT !.palette = "hidden"]
<1>1. Good(closed)
  BY PaletteKeeps
<1>2. w' \in {IF w.input # "" THEN closed ELSE TogglePanel(closed), TogglePanel(w)}
  BY DEF Escape
<1> HIDE DEF closed
<1> QED BY <1>1, <1>2, PanelKeeps

LEMMA TypedKeeps ==
  ASSUME Good(w), NEW text \in Texts, Typed(text)
  PROVE  Good(w')
<1> DEFINE palette == IF text \in Matching THEN "shown" ELSE "hidden"
<1>1. palette \in {"hidden", "shown", "chosen"} /\ w' = [w EXCEPT !.input = text, !.palette = palette]
  BY DEF Typed
<1> HIDE DEF palette
<1> QED BY <1>1, EditKeeps

LEMMA PromptKeeps ==
  ASSUME Good(w), ClickPrompt
  PROVE  Good(w')
<1> DEFINE v == SwitchTab(Press(w, "panel"), "chat")
<1>1. Good(v)
  BY PressKeeps, SwitchTabKeeps DEF Tabs
<1>2. PICK prompt \in Prompts : w' = [v EXCEPT !.input = prompt]
  BY DEF ClickPrompt
<1> HIDE DEF v
<1> QED BY <1>1, <1>2, TextKeeps, TextsAndPalettes

LEMMA HeadKeeps ==
  ASSUME Good(w), UseHead
  PROVE  Good(w')
<1> USE DEF Popovers
<1>1. CASE Picker
  BY <1>1, DoneKeeps, ShowKeeps DEF Picker
<1>2. CASE ShowSession
  BY <1>2, AddKeeps, KnownTasks DEF ShowSession
<1>3. CASE ClickUser
  BY <1>3, PressKeeps, PopoverKeeps DEF ClickUser
<1>4. CASE ChooseName
  BY <1>4, PressKeeps, HideKeeps DEF ChooseName
<1>5. ASSUME NEW place \in {"modeBadge", "modeCell"}, ClickMode(place) PROVE Good(w')
  BY <1>5, PressKeeps, PopoverKeeps DEF ClickMode
<1>6. ASSUME NEW mode \in Modes, ChooseMode(mode) PROVE Good(w')
  <2>1. Good(Hide(Press(w, "modePopover"), "mode"))
    BY PressKeeps, HideKeeps
  <2> QED BY <1>6, <2>1, SetModeKeeps DEF ChooseMode
<1> QED BY <1>1, <1>2, <1>3, <1>4, <1>5, <1>6, NamesKeep, PostedKeeps, CreatedKeeps, CreatedStatusKeeps,
           ListeningKeeps, StatusKeeps DEF UseHead

LEMMA BodyKeeps ==
  ASSUME Good(w), UseBody
  PROVE  Good(w')
<1>1. CASE Sent
  BY <1>1, DoneKeeps DEF Sent
<1>2. CASE Arrow
  BY <1>2, PaletteKeeps DEF Arrow
<1>3. CASE TabKey
  BY <1>3, CompletedKeeps DEF TabKey
<1>4. CASE ClickItem
  BY <1>4, PressKeeps, CompletedKeeps DEF ClickItem
<1>5. CASE ClickSend
  BY <1>5, PressKeeps, SendKeeps DEF ClickSend
<1>6. ASSUME NEW tab \in Tabs, ClickTab(tab) PROVE Good(w')
  BY <1>6, PressKeeps, SwitchTabKeeps DEF ClickTab
<1>7. ASSUME NEW text \in Texts, RestoreDraft(text) PROVE Good(w')
  BY <1>7, TextKeeps DEF RestoreDraft
<1> QED BY <1>1, <1>2, <1>3, <1>4, <1>5, <1>6, <1>7, LoadedKeeps, OldLoadedKeeps, EnterKeeps,
           PromptKeeps, TypedKeeps DEF UseBody

\* At first nothing is shown and nothing but the picker is called for.
LEMMA InitGood ==
  ASSUME Init
  PROVE  Good(w)
<1>1. PICK picker \in {0, 1} :
    w = [open |-> FALSE, shown |-> [p \in Popovers |-> FALSE], ears |-> {},
         tab |-> "chat", seenTab |-> "chat", loaded |-> FALSE, list |-> "loading",
         mode |-> DefaultMode, badge |-> DefaultMode, unsure |-> FALSE,
         input |-> "", palette |-> "hidden", names |-> "unknown",
         tasks |-> [t \in Tasks |-> IF t = "picker" THEN picker ELSE 0]]
  BY DEF Init
<1> DEFINE tasks == [t \in Tasks |-> IF t = "picker" THEN picker ELSE 0]
           none == [p \in Popovers |-> FALSE]
<1>2. tasks \in [Tasks -> Nat] /\ none \in [Popovers -> BOOLEAN] /\ \A p \in Popovers : ~none[p]
  OBVIOUS
<1>3. /\ w.shown = none /\ w.tasks = tasks /\ w.open = FALSE /\ w.badge = w.mode
      /\ w.seenTab = "chat" /\ w.tab = "chat"
  BY <1>1
<1> HIDE DEF tasks, none
<1>4. w \in Windows
  <2>1. w = [open |-> FALSE, shown |-> none, ears |-> {},
             tab |-> "chat", seenTab |-> "chat", loaded |-> FALSE, list |-> "loading",
             mode |-> DefaultMode, badge |-> DefaultMode, unsure |-> FALSE,
             input |-> "", palette |-> "hidden", names |-> "unknown", tasks |-> tasks]
    BY <1>1 DEF tasks, none
  <2>2. "chat" \in Tabs /\ "" \in Texts /\ DefaultMode \in Modes
    BY PanelAssumption DEF Tabs, Texts
  <2> QED BY <1>2, <2>1, <2>2 DEF Windows
<1>5. ~w.shown["user"]
  BY <1>2, <1>3 DEF Popovers
<1> QED BY <1>2, <1>3, <1>4, <1>5 DEF Good, Sound, Closable, Told, Named, Loading

LEMMA NextGood ==
  ASSUME Good(w), [Next]_vars
  PROVE  Good(w')
<1>1. CASE ClickFab
  BY <1>1, PressKeeps, PanelKeeps DEF ClickFab
<1>2. CASE ClickClose
  BY <1>2, PressKeeps, PanelKeeps DEF ClickClose, ClickFab
<1>3. CASE ClickElsewhere
  BY <1>3, PressKeeps DEF ClickElsewhere, In
<1>4. CASE UNCHANGED vars
  BY <1>4 DEF vars
<1> QED BY <1>1, <1>2, <1>3, <1>4, HeadKeeps, BodyKeeps, EscapeKeeps, ReinjectedKeeps DEF Next

LEMMA SpecGood == Spec => []Good(w)
<1>1. Init => Good(w)
  BY InitGood
<1>2. Good(w) /\ [Next]_vars => Good(w)'
  BY NextGood
<1> QED BY <1>1, <1>2, PTL DEF Spec

-----------------------------------------------------------------------------
(* Theorems *)

\* A press outside of a popover is heard by one of its listeners, which hides it.
LEMMA ClosableCloses ==
  ASSUME Good(w)
  PROVE  OutsidePressCloses
<1> SUFFICES ASSUME NEW p \in Popovers, NEW place \in {"panel", "page"},
                    w.shown[p], w.tasks[Listen(p)] = 0
             PROVE  ~Press(w, place).shown[p]
  BY DEF OutsidePressCloses
<1>1. w \in Windows /\ \A t \in Tiers(p) : \E e \in w.ears : e.pop = p /\ e.tier = t
  BY DEF Good, Sound, Closable
<1>2. \E e \in w.ears : e.pop = p /\ Hears(e, place)
  <2>1. CASE p = "mode"
    BY <1>1, <2>1 DEF Tiers, Hears
  <2>2. CASE p = "user" /\ place = "panel"
    BY <1>1, <2>2 DEF Tiers, Hears
  <2>3. CASE p = "user" /\ place = "page"
    BY <1>1, <2>3 DEF Tiers, Hears
  <2> QED BY <2>1, <2>2, <2>3 DEF Popovers
<1>3. ASSUME NEW v \in Windows, NEW q \in Popovers
      PROVE  /\ Hide(v, q) \in Windows /\ ~Hide(v, q).shown[q]
             /\ \A r \in Popovers : ~v.shown[r] => ~Hide(v, q).shown[r]
  <2> DEFINE left == {e \in v.ears : e.pop = q => ~e.known}
             shown == [v.shown EXCEPT ![q] = FALSE]
  <2>1. left \subseteq Ears /\ shown \in [Popovers -> BOOLEAN] /\ ~shown[q]
        /\ \A r \in Popovers : ~v.shown[r] => ~shown[r]
    BY DEF Windows
  <2>2. Hide(v, q) = [v EXCEPT !.ears = left, !.shown = shown]
    BY DEF Hide, Forget, Windows
  <2> HIDE DEF left, shown
  <2>3. Hide(v, q) \in Windows /\ Hide(v, q).shown = shown
    BY <2>1, <2>2 DEF Windows
  <2> QED BY <2>1, <2>3
<1>4. "mode" \in Popovers /\ "user" \in Popovers
  BY DEF Popovers
<1>5. CASE p = "user"
  <2> DEFINE One == IF \E e \in w.ears : e.pop = "mode" /\ Hears(e, place) THEN Hide(w, "mode") ELSE w
  <2>1. One \in Windows
    BY <1>1, <1>3, <1>4
  <2>2. Press(w, place) = Hide(One, "user")
    BY <1>2, <1>5 DEF Press
  <2> QED BY <1>3, <1>4, <1>5, <2>1, <2>2
<1>6. CASE p = "mode"
  <2> DEFINE One == Hide(w, "mode")
  <2>1. One \in Windows /\ ~One.shown["mode"]
    BY <1>1, <1>3, <1>4
  <2>2. Press(w, place) \in {One, Hide(One, "user")}
    BY <1>2, <1>6 DEF Press
  <2> HIDE DEF One
  <2> QED BY <1>3, <1>4, <1>6, <2>1, <2>2
<1> QED BY <1>5, <1>6 DEF Popovers

-----------------------------------------------------------------------------
(* What is sent *)

\* Whatever a step does between v and u, it asks the Bridge to send nothing.
Silent(v, u) == u.tasks["send"] <= v.tasks["send"]

\* Only the listeners of popovers, and requests other than a message, are under way more often.
LEMMA SilentParts ==
  ASSUME NEW v, v \in Windows
  PROVE  /\ v.tasks["send"] \in Nat
         /\ \A task \in Tasks \ {"send"} : Add(v, task).tasks["send"] = v.tasks["send"]
         /\ \A p \in Popovers : Hide(v, p).tasks = v.tasks
         /\ \A p \in Popovers : Show(v, p).tasks["send"] = v.tasks["send"]
         /\ \A place : Press(v, place).tasks = v.tasks
<1>1. v.tasks \in [Tasks -> Nat] /\ "send" \in Tasks
  BY DEF Windows, Tasks
<1>2. ASSUME NEW u, u \in Windows, NEW task \in Tasks \ {"send"}
      PROVE  Add(u, task).tasks["send"] = u.tasks["send"]
  <2> DEFINE tasks == [u.tasks EXCEPT ![task] = u.tasks[task] + 1]
  <2>1. u.tasks \in [Tasks -> Nat]
    BY <1>2 DEF Windows
  <2>2. tasks["send"] = u.tasks["send"]
    BY <1>1, <2>1
  <2>3. Add(u, task) = [u EXCEPT !.tasks = tasks]
    BY DEF Add
  <2> HIDE DEF tasks
  <2>4. Add(u, task).tasks = tasks
    BY <1>2, <2>3 DEF Windows
  <2> QED BY <2>2, <2>4
<1>3. ASSUME NEW u, u \in Windows, NEW p \in Popovers
      PROVE  Hide(u, p) \in Windows /\ Hide(u, p).tasks = u.tasks
  <2> DEFINE left == {e \in u.ears : e.pop = p => ~e.known}
             shown == [u.shown EXCEPT ![p] = FALSE]
  <2>1. left \subseteq Ears /\ shown \in [Popovers -> BOOLEAN]
    BY <1>3 DEF Windows
  <2>2. Hide(u, p) = [u EXCEPT !.ears = left, !.shown = shown]
    BY <1>3 DEF Hide, Forget, Windows
  <2> HIDE DEF left, shown
  <2> QED BY <1>3, <2>1, <2>2 DEF Windows
<1>4. ASSUME NEW p \in Popovers
      PROVE  Show(v, p).tasks["send"] = v.tasks["send"]
  <2> DEFINE left == {e \in v.ears : e.pop = p => ~e.known}
             shown == [v.shown EXCEPT ![p] = TRUE]
             u == [v EXCEPT !.ears = left, !.shown = shown]
             tasks == [v.tasks EXCEPT ![Listen(p)] = v.tasks[Listen(p)] + 1]
  <2>1. left \subseteq Ears /\ shown \in [Popovers -> BOOLEAN]
    BY DEF Windows
  <2>2. [Forget(v, p) EXCEPT !.shown[p] = TRUE] = u
    BY DEF Forget, Windows
  <2> HIDE DEF left, shown
  <2>3. u \in Windows /\ u.tasks = v.tasks
    BY <2>1 DEF Windows
  <2>4. tasks \in [Tasks -> Nat] /\ Listen(p) \in Tasks \ {"send"} /\ "whoami" \in Tasks \ {"send"}
    BY <1>1, KnownTasks DEF Tasks
  <2>5. Add(u, Listen(p)) = [u EXCEPT !.tasks = tasks]
    BY <2>3 DEF Add
  <2> HIDE DEF u, tasks
  <2>6. Add(u, Listen(p)) \in Windows
    BY <2>3, <2>4, <2>5 DEF Windows
  <2>7. Add(u, Listen(p)).tasks["send"] = v.tasks["send"]
    BY <1>2, <2>3, <2>4
  <2>8. Add(Add(u, Listen(p)), "whoami").tasks["send"] = v.tasks["send"]
    BY <1>2, <2>4, <2>6, <2>7
  <2> QED BY <2>2, <2>7, <2>8 DEF Show
<1>5. ASSUME NEW place PROVE Press(v, place).tasks = v.tasks
  <2>1. "mode" \in Popovers /\ "user" \in Popovers
    BY DEF Popovers
  <2>2. Hide(v, "mode") \in Windows /\ Hide(v, "mode").tasks = v.tasks
    BY <1>3, <2>1
  <2>3. Hide(v, "user").tasks = v.tasks /\ Hide(Hide(v, "mode"), "user").tasks = v.tasks
    BY <1>3, <2>1, <2>2
  <2> QED BY <2>2, <2>3 DEF Press
<1> QED BY <1>1, <1>2, <1>3, <1>4, <1>5

\* The panel and its tabs ask for resources at most.
LEMMA SilentPanel ==
  ASSUME NEW v, v \in Windows
  PROVE  /\ TogglePanel(v).tasks["send"] = v.tasks["send"]
         /\ \A tab \in Tabs : SwitchTab(v, tab).tasks["send"] = v.tasks["send"]
         /\ Load(v).tasks["send"] = v.tasks["send"]
<1>1. ASSUME NEW u, u \in Windows PROVE Load(u).tasks["send"] = u.tasks["send"]
  <2> DEFINE asked == [u EXCEPT !.list = "loading"]
  <2>1. asked \in Windows /\ asked.tasks = u.tasks
    BY <1>1 DEF Windows
  <2>2. Load(u) = Add(asked, "load") /\ "load" \in Tasks \ {"send"}
    BY DEF Load, Tasks
  <2> HIDE DEF asked
  <2> QED BY <2>1, <2>2, SilentParts
<1>2. [v EXCEPT !.open = ~v.open] \in Windows /\ [v EXCEPT !.open = ~v.open].tasks = v.tasks
  BY DEF Windows
<1>4. TogglePanel(v).tasks["send"] = v.tasks["send"]
  <2> DEFINE toggled == [v EXCEPT !.open = ~v.open]
  <2>1. TogglePanel(v) \in {Load(toggled), toggled}
    BY DEF TogglePanel
  <2> HIDE DEF toggled
  <2>2. toggled \in Windows /\ toggled.tasks = v.tasks
    BY <1>2 DEF toggled
  <2> QED BY <1>1, <2>1, <2>2
<1>5. ASSUME NEW tab \in Tabs PROVE SwitchTab(v, tab).tasks["send"] = v.tasks["send"]
  <2> DEFINE seen == [v EXCEPT !.tab = tab, !.seenTab = tab]
  <2>1. SwitchTab(v, tab) \in {Load(seen), seen}
    BY DEF SwitchTab
  <2>2. seen \in Windows /\ seen.tasks = v.tasks
    BY <1>5 DEF Windows
  <2> HIDE DEF seen
  <2> QED BY <1>1, <2>1, <2>2
<1> QED BY <1>1, <1>4, <1>5

\* A box that is filled and a palette that is closed stay so when a message is sent.
LEMMA SendFields ==
  ASSUME NEW v, v \in Windows, NEW text \in Texts
  PROVE  LET u == [v EXCEPT !.input = text, !.palette = "hidden"]
         IN /\ u.tasks = v.tasks
            /\ Add(u, "send").input = text /\ Add(u, "send").palette = "hidden"
<1> DEFINE u == [v EXCEPT !.input = text, !.palette = "hidden"]
<1>1. u \in Windows /\ u.tasks = v.tasks /\ u.input = text /\ u.palette = "hidden"
  BY DEF Windows
<1> HIDE DEF u
<1>2. Add(u, "send").input = text /\ Add(u, "send").palette = "hidden"
  BY <1>1 DEF Add, Windows
<1> QED BY <1>1, <1>2 DEF u

\* A message that is sent leaves the box empty and the palette closed.
LEMMA SendClears ==
  ASSUME NEW v, v \in Windows, NEW u \in SendMessage(v)
  PROVE  u.tasks["send"] > v.tasks["send"] => u.input = "" /\ u.palette = "hidden"
<1> DEFINE cleared == [v EXCEPT !.input = "", !.palette = "hidden"]
           IsClear == u.input = "" /\ u.palette = "hidden"
<1>1. /\ cleared.tasks = v.tasks
      /\ Add(cleared, "send").input = "" /\ Add(cleared, "send").palette = "hidden"
  BY SendFields, TextsAndPalettes, Zenon
<1>2. u \in {v, cleared, Add(cleared, "send")}
  BY DEF SendMessage
<1> HIDE DEF cleared
<1>3. u.tasks = v.tasks \/ IsClear
  BY <1>1, <1>2, Zenon
<1>4. v.tasks["send"] \in Nat
  BY SilentParts
<1>5. u.tasks["send"] > v.tasks["send"] => IsClear
  <2> HIDE DEF IsClear
  <2> QED BY <1>3, <1>4
<1> QED BY <1>5, Zenon

LEMMA SilentCompletion ==
  ASSUME NEW v, v \in Windows, NEW u \in Completed(v)
  PROVE  u.tasks = v.tasks
BY DEF Completed, Windows

\* An answer or a timer adds at most requests that are no message.
LEMMA SilentDone ==
  ASSUME Good(w), NEW task \in Tasks, w.tasks[task] > 0
  PROVE  /\ Silent(w, Done(task)) /\ Done(task) \in Windows
         /\ Done(task).tasks["send"] \in Int
<1> DEFINE tasks == [w.tasks EXCEPT ![task] = w.tasks[task] - 1]
<1>1. w \in Windows /\ w.tasks \in [Tasks -> Nat] /\ "send" \in Tasks
  BY DEF Good, Sound, Windows, Tasks
<1>2. tasks["send"] <= w.tasks["send"] /\ tasks["send"] \in Int
  BY <1>1
<1>3. Done(task) = [w EXCEPT !.tasks = tasks]
  BY DEF Done
<1> HIDE DEF tasks
<1>4. Done(task).tasks = tasks
  BY <1>1, <1>3 DEF Windows
<1> QED BY <1>2, <1>4, DoneFields DEF Silent

\* Fields of a window that are no tasks
LEMMA OtherFields ==
  ASSUME NEW v, v \in Windows, NEW x, NEW y
  PROVE  /\ [v EXCEPT !.ears = x].tasks = v.tasks
         /\ [v EXCEPT !.names = x].tasks = v.tasks
         /\ [v EXCEPT !.input = x].tasks = v.tasks
         /\ [v EXCEPT !.palette = x].tasks = v.tasks
         /\ [v EXCEPT !.badge = x, !.unsure = y].tasks = v.tasks
BY DEF Windows

LEMMA AcceptFields ==
  ASSUME NEW v, v \in Windows, NEW mode
  PROVE  Accept(v, mode) \in Windows /\ Accept(v, mode).tasks = v.tasks
<1>1. ASSUME mode \in Modes
      PROVE  [v EXCEPT !.mode = mode] \in Windows /\ [v EXCEPT !.mode = mode].tasks = v.tasks
  BY <1>1 DEF Windows
<1> QED BY <1>1 DEF Accept

LEMMA SilentHead ==
  ASSUME Good(w), UseHead
  PROVE  Silent(w, w')
<1> USE DEF Popovers
<1>1. w \in Windows /\ w.tasks["send"] \in Nat /\ \A place : Press(w, place) \in Windows
  <2>1. \A place : Good(Press(w, place))
    BY PressKeeps
  <2> QED BY <2>1, SilentParts DEF Good, Sound
<1>2. ASSUME NEW place, NEW p \in Popovers PROVE /\ Hide(Press(w, place), p).tasks = w.tasks
                                 /\ TogglePopover(Press(w, place), p).tasks["send"] = w.tasks["send"]
  BY <1>1, SilentParts DEF TogglePopover
<1>3. CASE Picker
  <2>1. "picker" \in Tasks /\ w.tasks["picker"] > 0
    BY <1>3, KnownTasks DEF Picker
  <2>2. Silent(w, Done("picker")) /\ Done("picker") \in Windows
    BY <2>1, SilentDone
  <2> QED BY <1>3, <2>2, SilentParts DEF Picker, Silent
<1>4. CASE ShowSession
  <2>1. "status" \in Tasks \ {"send"}
    BY DEF Tasks
  <2> QED BY <1>1, <1>4, <2>1, SilentParts DEF ShowSession, Silent
<1>5. CASE ClickUser \/ ChooseName \/ \E place \in {"modeBadge", "modeCell"} : ClickMode(place)
  BY <1>1, <1>2, <1>5 DEF ClickUser, ChooseName, ClickMode, Silent
<1>6. CASE NamesListed
  <2>1. "whoami" \in Tasks /\ w.tasks["whoami"] > 0
    BY <1>6, KnownTasks DEF NamesListed
  <2>2. Silent(w, Done("whoami")) /\ Done("whoami") \in Windows
    BY <2>1, SilentDone
  <2>3. PICK names : w' = [Done("whoami") EXCEPT !.names = names]
    BY <1>6 DEF NamesListed
  <2> QED BY <2>2, <2>3, OtherFields DEF Silent
<1>7. CASE \E p \in Popovers : Listening(p)
  <2>1. PICK p \in Popovers : Listening(p)
    BY <1>7
  <2>2. Listen(p) \in Tasks /\ w.tasks[Listen(p)] > 0
    BY <2>1, ListenIsTask DEF Listening
  <2>3. Silent(w, Done(Listen(p))) /\ Done(Listen(p)) \in Windows
    BY <2>2, SilentDone
  <2>4. PICK ears : w' = [Done(Listen(p)) EXCEPT !.ears = ears]
    BY <2>1 DEF Listening
  <2> QED BY <2>3, <2>4, OtherFields DEF Silent
<1>8. CASE Posted
  <2> DEFINE d == Done("post")
  <2>1. "post" \in Tasks /\ w.tasks["post"] > 0 /\ "recheck" \in Tasks \ {"send"}
    BY <1>8 DEF Posted, Tasks
  <2>2. Silent(w, d) /\ d \in Windows
    BY <2>1, SilentDone
  <2>3. \/ \E mode \in Modes \cup {"undefined"} : w' = Add(Accept(d, mode), "recheck")
        \/ w' = RefreshModeBadge(d)
    BY <1>8 DEF Posted, Failed
  <2> HIDE DEF d
  <2>4. RefreshModeBadge(d).tasks = d.tasks
    BY <2>2, OtherFields DEF RefreshModeBadge
  <2> QED BY <2>1, <2>2, <2>3, <2>4, AcceptFields, SilentParts DEF Silent
<1>9. CASE \E task \in {"recheck", "status"} : Status(task)
  <2>1. PICK task \in {"recheck", "status"} : Status(task)
    BY <1>9
  <2> DEFINE d == Done(task)
  <2>2. task \in Tasks /\ w.tasks[task] > 0
    BY <2>1 DEF Status, Tasks
  <2>3. Silent(w, d) /\ d \in Windows
    BY <2>2, SilentDone
  <2>4. \/ \E mode \in Modes : w' = RefreshModeBadge([d EXCEPT !.mode = mode])
        \/ \E unsure : w' = [d EXCEPT !.unsure = unsure]
    BY <2>1 DEF Status
  <2> HIDE DEF d
  <2>5. ASSUME NEW mode \in Modes PROVE RefreshModeBadge([d EXCEPT !.mode = mode]).tasks = d.tasks
    <3>1. [d EXCEPT !.mode = mode] \in Windows /\ [d EXCEPT !.mode = mode].tasks = d.tasks
      BY <2>3 DEF Windows
    <3> QED BY <3>1, OtherFields DEF RefreshModeBadge
  <2>6. CASE \E unsure : w' = [d EXCEPT !.unsure = unsure]
    <3>1. PICK unsure : w' = [d EXCEPT !.unsure = unsure]
      BY <2>6
    <3>2. w'.tasks = d.tasks
      BY <2>3, <3>1 DEF Windows
    <3> QED BY <2>3, <3>2 DEF Silent
  <2>7. CASE \E mode \in Modes : w' = RefreshModeBadge([d EXCEPT !.mode = mode])
    <3>1. w'.tasks = d.tasks
      BY <2>5, <2>7
    <3> QED BY <2>3, <3>1 DEF Silent
  <2> QED BY <2>4, <2>6, <2>7
<1>10. CASE \E mode \in Modes : ChooseMode(mode)
  <2> DEFINE v == Hide(Press(w, "modePopover"), "mode")
  <2>1. v \in Windows /\ v.tasks = w.tasks
    <3>1. Good(v)
      BY PressKeeps, HideKeeps
    <3> QED BY <1>2, <3>1 DEF Good, Sound
  <2>2. PICK mode \in Modes : w' \in SetMode(v, mode)
    BY <1>10 DEF ChooseMode
  <2> HIDE DEF v
  <2> DEFINE u == [v EXCEPT !.badge = "switching"]
  <2>3. u \in Windows /\ u.tasks = v.tasks
    BY <2>1 DEF Windows
  <2>4. w' \in {v, Add(u, "post")} /\ "post" \in Tasks \ {"send"}
    BY <2>2 DEF SetMode, Tasks
  <2> HIDE DEF u
  <2> QED BY <1>1, <2>1, <2>3, <2>4, SilentParts DEF Silent
<1>11. CASE SessionCreated
  <2>1. PICK mode : w' = Add(Accept(w, mode), "created")
    BY <1>11 DEF SessionCreated
  <2>2. "created" \in Tasks \ {"send"}
    BY DEF Tasks
  <2> QED BY <1>1, <2>1, <2>2, AcceptFields, SilentParts DEF Silent
<1>12. CASE CreatedStatus
  <2> DEFINE d == Done("created")
  <2>1. "created" \in Tasks /\ w.tasks["created"] > 0
    BY <1>12, KnownTasks DEF CreatedStatus
  <2>2. Silent(w, d) /\ d \in Windows
    BY <2>1, SilentDone
  <2>3. PICK mode : w' = RefreshModeBadge(Accept(d, mode))
    BY <1>12 DEF CreatedStatus
  <2> HIDE DEF d
  <2>4. w'.tasks = d.tasks
    BY <2>2, <2>3, AcceptFields, OtherFields DEF RefreshModeBadge
  <2> QED BY <2>2, <2>4 DEF Silent
<1> QED BY <1>3, <1>4, <1>5, <1>6, <1>7, <1>8, <1>9, <1>10, <1>11, <1>12 DEF UseHead

\* What a step has to keep
Cleared == w'.tasks["send"] > w.tasks["send"] => w'.input = "" /\ w'.palette = "hidden"

LEMMA SilentIsCleared ==
  ASSUME w.tasks["send"] \in Int, w'.tasks["send"] \in Int, Silent(w, w')
  PROVE  Cleared
<1>1. ~(w'.tasks["send"] > w.tasks["send"])
  BY DEF Silent
<1> QED BY <1>1, Zenon DEF Cleared

\* What does not ask for a message, or asks for one and clears the box, is what the step has to keep.
LEMMA SilentBody ==
  ASSUME Good(w), UseBody
  PROVE  Cleared \/ Silent(w, w')
<1>1. w \in Windows /\ w.tasks["send"] \in Nat
  BY SilentParts DEF Good, Sound
<1>2. \A place : Press(w, place) \in Windows /\ Press(w, place).tasks = w.tasks
  <2>1. \A place : Good(Press(w, place))
    BY PressKeeps
  <2> QED BY <1>1, <2>1, SilentParts DEF Good, Sound
<1>3. CASE Loaded
  <2> DEFINE d == Done("load")
  <2>1. "load" \in Tasks /\ w.tasks["load"] > 0
    BY <1>3 DEF Loaded, Tasks
  <2>2. Silent(w, d) /\ d \in Windows
    BY <2>1, SilentDone
  <2>3. w' \in {[d EXCEPT !.list = "items", !.loaded = TRUE], [d EXCEPT !.list = "failed"]}
    BY <1>3 DEF Loaded
  <2> HIDE DEF d
  <2>4. w'.tasks = d.tasks
    BY <2>2, <2>3 DEF Windows
  <2> QED BY <2>2, <2>4 DEF Silent
<1>4. CASE OldLoaded
  <2> DEFINE d == Done("oldLoad")
  <2>1. "oldLoad" \in Tasks /\ w.tasks["oldLoad"] > 0
    BY <1>4 DEF OldLoaded, Tasks
  <2>2. Silent(w, d) /\ d \in Windows
    BY <2>1, SilentDone
  <2>3. w' \in {[d EXCEPT !.loaded = TRUE], d}
    BY <1>4 DEF OldLoaded
  <2> HIDE DEF d
  <2>4. w'.tasks = d.tasks
    BY <2>2, <2>3 DEF Windows
  <2> QED BY <2>2, <2>4 DEF Silent
<1>5. CASE Sent
  BY <1>5, SilentDone, KnownTasks DEF Sent
<1>6. CASE Arrow
  BY <1>1, <1>6, OtherFields DEF Arrow, Silent
<1>7. CASE TabKey
  <2>1. w'.tasks = w.tasks
    BY <1>1, <1>7, SilentCompletion DEF TabKey
  <2> QED BY <1>1, <2>1 DEF Silent
<1>8. CASE ClickItem
  <2>1. w'.tasks = w.tasks
    BY <1>2, <1>8, SilentCompletion DEF ClickItem
  <2> QED BY <1>1, <2>1 DEF Silent
<1>9. CASE ClickSend
  <2>1. w' \in SendMessage(Press(w, "panel"))
    BY <1>9 DEF ClickSend
  <2>2. w'.tasks["send"] > w.tasks["send"] => w'.input = "" /\ w'.palette = "hidden"
    BY <1>2, <2>1, SendClears, Zenon
  <2> QED BY <2>2, Zenon DEF Cleared
<1>10. CASE Enter
  <2>1. PICK v \in {w} \cup SendMessage(w) : w' \in IF v.palette = "chosen" THEN Completed(v) ELSE {v}
    BY <1>10 DEF Enter
  <2>2. CASE v = w
    <3>1. w'.tasks = w.tasks
      BY <1>1, <2>1, <2>2, SilentCompletion
    <3> QED BY <1>1, <3>1 DEF Silent
  <2>3. CASE v \in SendMessage(w)
    <3>1. v.tasks["send"] > w.tasks["send"] => v.input = "" /\ v.palette = "hidden"
      BY <1>1, <2>3, SendClears, Zenon
    <3>2. CASE v.palette = "hidden"
      <4>1. w' = v
        BY <2>1, <3>2
      <4> QED BY <3>1, <4>1, Zenon DEF Cleared
    <3>3. CASE v.palette # "hidden"
      <4>1. ~(v.tasks["send"] > w.tasks["send"])
        BY <3>1, <3>3, Zenon
      <4>2. v \in Windows
        BY <2>3, SendKeeps DEF Good, Sound
      <4>3. w'.tasks = v.tasks
        BY <2>1, <4>2, SilentCompletion
      <4>4. v.tasks["send"] \in Nat
        BY <4>2, SilentParts
      <4> QED BY <1>1, <4>1, <4>3, <4>4 DEF Silent
    <3> QED BY <3>2, <3>3
  <2> QED BY <2>1, <2>2, <2>3
<1>11. CASE ClickPrompt
  <2> DEFINE v == SwitchTab(Press(w, "panel"), "chat")
  <2>1. v \in Windows
    <3>1. Good(v)
      BY PressKeeps, SwitchTabKeeps DEF Tabs
    <3> QED BY <3>1 DEF Good, Sound
  <2>2. v.tasks["send"] = w.tasks["send"]
    BY <1>2, SilentPanel DEF Tabs
  <2>3. PICK prompt : w' = [v EXCEPT !.input = prompt]
    BY <1>11 DEF ClickPrompt
  <2> HIDE DEF v
  <2> QED BY <1>1, <2>1, <2>2, <2>3, OtherFields DEF Silent
<1>12. CASE \E tab \in Tabs : ClickTab(tab)
  BY <1>1, <1>2, <1>12, SilentPanel DEF ClickTab, Silent
<1>13. CASE \E text \in Texts : Typed(text) \/ RestoreDraft(text)
  <2>1. PICK x, y : w' = [w EXCEPT !.input = x, !.palette = y] \/ w' = [w EXCEPT !.input = x]
    BY <1>13 DEF Typed, RestoreDraft
  <2>2. w'.tasks = w.tasks
    BY <1>1, <2>1 DEF Windows
  <2> QED BY <1>1, <2>2 DEF Silent
<1> QED BY <1>3, <1>4, <1>5, <1>6, <1>7, <1>8, <1>9, <1>10, <1>11, <1>12, <1>13 DEF UseBody

LEMMA SilentNext ==
  ASSUME Good(w), [Next]_vars
  PROVE  Cleared \/ Silent(w, w')
<1>1. w \in Windows /\ w.tasks["send"] \in Nat
  BY SilentParts DEF Good, Sound
<1>2. \A place : Press(w, place) \in Windows /\ Press(w, place).tasks = w.tasks
  <2>1. \A place : Good(Press(w, place))
    BY PressKeeps
  <2> QED BY <1>1, <2>1, SilentParts DEF Good, Sound
<1>3. CASE ClickFab \/ ClickClose \/ ClickElsewhere
  BY <1>1, <1>2, <1>3, SilentPanel DEF ClickFab, ClickClose, ClickElsewhere, In, Silent
<1>4. CASE Escape
  <2> DEFINE closed == [w EXCEPT !.palette = "hidden"]
  <2>1. closed \in Windows /\ closed.tasks = w.tasks
    BY <1>1 DEF Windows
  <2>2. w' \in {closed, TogglePanel(closed), TogglePanel(w)}
    BY <1>4, Zenon DEF Escape
  <2> HIDE DEF closed
  <2> QED BY <1>1, <2>1, <2>2, SilentPanel DEF Silent
<1>5. CASE Reinjected
  <2>1. PICK new : /\ w' \in {new, Load(new)}
                   /\ new \in Windows
                   /\ new.tasks["send"] = w.tasks["send"]
    <3> DEFINE tasks == [w.tasks EXCEPT !["load"] = 0, !["whoami"] = 0,
                                        !["oldLoad"] = w.tasks["oldLoad"] + w.tasks["load"]]
               ears == {e \in w.ears : e.tier = "document" /\ ~e.known}
               none == [p \in Popovers |-> FALSE]
               new == [w EXCEPT !.shown = none, !.ears = ears, !.seenTab = "chat", !.list = "loading",
                                !.badge = w.mode, !.unsure = FALSE, !.input = "", !.palette = "hidden",
                                !.names = "unknown", !.tasks = tasks]
    <3>1. w.tasks \in [Tasks -> Nat] /\ {"send", "load", "whoami", "oldLoad"} \subseteq Tasks
      BY <1>1, KnownTasks DEF Windows
    <3>2. tasks \in [Tasks -> Nat] /\ tasks["send"] = w.tasks["send"]
      BY <3>1
    <3>3. ears \subseteq Ears /\ none \in [Popovers -> BOOLEAN] /\ "chat" \in Tabs /\ w.mode \in Modes
      BY <1>1 DEF Windows, Tabs
    <3>4. w' = IF w.open /\ w.tab = "resource" /\ ~w.loaded THEN Load(new) ELSE new
      BY <1>5 DEF Reinjected
    <3> HIDE DEF tasks, ears, none
    <3>5. new \in Windows /\ new.tasks = tasks
      BY <1>1, <3>2, <3>3, TextsAndPalettes DEF Windows
    <3> HIDE DEF new
    <3> QED BY <3>2, <3>4, <3>5
  <2> QED BY <1>1, <2>1, SilentPanel DEF Silent
<1>6. CASE UNCHANGED vars
  BY <1>1, <1>6 DEF vars, Silent
<1> QED BY <1>3, <1>4, <1>5, <1>6, SilentHead, SilentBody DEF Next

\* The window keeps its type for any modes; in particular, a mode that is not known is never taken.
THEOREM TypeCorrect == Spec => []TypeOK
<1>1. Good(w) => TypeOK
  BY DEF Good, Sound, TypeOK
<1> QED BY <1>1, SpecGood, PTL

\* A popover can be closed by a press elsewhere, however often it was opened, closed and made anew.
THEOREM PopoverTheorem == Spec => []OutsidePressCloses
<1>1. Good(w) => OutsidePressCloses
  BY ClosableCloses
<1> QED BY <1>1, SpecGood, PTL

\* Nothing says that it is loading while no answer is awaited.
THEOREM WaitTheorem == Spec => []NoEmptyWait
<1>1. Good(w) => NoEmptyWait
  BY DEF Good, Sound, Named, Loading, NoEmptyWait
<1> QED BY <1>1, SpecGood, PTL

\* When all answers for modes are there, the badge tells the mode, or the last one was a failure.
THEOREM BadgeTheorem == Spec => []BadgeTellsMode
<1>1. Good(w) => BadgeTellsMode
  BY DEF Good, Sound, Told, BadgeTellsMode
<1> QED BY <1>1, SpecGood, PTL

\* Whoever sends a message leaves an empty box and a closed palette behind.
THEOREM SentTheorem == Spec => SentIsCleared
<1>1. Good(w) /\ Good(w)' /\ [Next]_vars => [Cleared]_vars
  <2> SUFFICES ASSUME Good(w), Good(w'), [Next]_vars PROVE Cleared
    BY Zenon
  <2>1. w.tasks["send"] \in Nat /\ w'.tasks["send"] \in Nat
    BY SilentParts DEF Good, Sound
  <2> QED BY <2>1, SilentNext, SilentIsCleared
<1>2. SentIsCleared <=> [][Cleared]_vars
  BY DEF SentIsCleared, Cleared
<1> QED BY <1>1, <1>2, SpecGood, PTL DEF Spec
=============================================================================
