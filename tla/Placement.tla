------------------------------- MODULE Placement -------------------------------
(***************************************************************************)
(* Where the floating window is.  The button (FAB) hangs at the lower      *)
(* right corner of the host, an element without an extent of its own, and  *)
(* the panel above it.  Both can be dragged: the button takes the host and *)
(* the panel along, the panel moves against the host.  All numbers are     *)
(* pixels; the viewport begins at (0, 0).                                  *)
(***************************************************************************)
EXTENDS Integers

CONSTANTS
  Viewports, \* sizes of the viewport
  Moves      \* displacements of the pointer since it was pressed

ASSUME PlacementAssumption ==
  /\ Viewports \subseteq [w : Nat, h : Nat]
  /\ Moves \subseteq [x : Int, y : Int]

PANEL_W == 440
PANEL_H == 620
PANEL_BOTTOM_OFFSET == 72
FAB_SIZE == 56

VARIABLES
  vp,    \* window.innerWidth and innerHeight
  host,  \* the place of the host: the default, or style.left and style.top
  panel, \* the place of the panel: the default, or style.left and style.top
  open,  \* the panel is shown
  drag   \* what is dragged, and the place it had when the drag began

placement == <<vp, host, panel, open, drag>>

At(x, y) == [set |-> TRUE, x |-> x, y |-> y]
Default == [set |-> FALSE, x |-> 0, y |-> 0]
Still == [what |-> "none", moved |-> FALSE, x |-> 0, y |-> 0]

-----------------------------------------------------------------------------
(* Geometry *)

Max2(a, b) == IF a < b THEN b ELSE a
Min2(a, b) == IF a < b THEN a ELSE b

\* getBoundingClientRect of the host; by default right: 24px and bottom: 24px
HostXIn(size) == IF host.set THEN host.x ELSE size.w - 24
HostYIn(size) == IF host.set THEN host.y ELSE size.h - 24
HostX == HostXIn(vp)
HostY == HostYIn(vp)

\* ... and of the panel, when it is shown; by default right: 0 and bottom: 72px
PanelX == HostX + (IF panel.set THEN panel.x ELSE -PANEL_W)
PanelY == HostY + (IF panel.set THEN panel.y ELSE -(PANEL_H + PANEL_BOTTOM_OFFSET))

\* The host is kept where the panel above it is within the viewport.
Kept(x, lowest, highest) == Max2(lowest, Min2(highest, x))
ButtonAt(x, y, size) == \* faulty: only the button is kept within
  At(Kept(x, FAB_SIZE, size.w - 16), Kept(y, FAB_SIZE, size.h - 16))
HostAt(x, y, size) ==
  At(Kept(x, PANEL_W, size.w - 16), Kept(y, PANEL_H + PANEL_BOTTOM_OFFSET, size.h - 16))

\* clampToViewport, and the way back to a place against the host.  A panel that is not shown
\* has no width.
ClampX(x, w, size) == Kept(x, 40 - w, size.w - 40)
ClampY(y, size) == Kept(y, -40, size.h - 40)
PanelAt(x, y, size) ==
  At(ClampX(x, IF open THEN PANEL_W ELSE 0, size) - HostXIn(size), ClampY(y, size) - HostYIn(size))

FabOffscreen ==
  HostX < 0 \/ HostY < 0 \/ HostX - FAB_SIZE > vp.w \/ HostY - FAB_SIZE > vp.h

\* What the user can press.
FabVisible == HostX > 0 /\ HostX - FAB_SIZE < vp.w /\ HostY > 0 /\ HostY - FAB_SIZE < vp.h
TitleVisible ==
  open /\ PanelX < vp.w /\ PanelX + PANEL_W > 0 /\ PanelY < vp.h /\ PanelY >= -40

-----------------------------------------------------------------------------
(* Opening and closing *)

\* togglePanel; isPanelFullyOffscreen looks at the button alone, because the panel
\* is not shown yet and has no extent.
Toggle ==
  /\ open' = ~open
  /\ IF open' /\ FabOffscreen
     THEN host' = Default /\ panel' = Default
     ELSE UNCHANGED <<host, panel>>
  /\ UNCHANGED vp

\* Escape, or the button in the title bar
TogglePanel ==
  /\ drag = Still
  /\ open
  /\ Toggle
  /\ UNCHANGED drag

\* The page has thrown the window out; a new one has taken its place.
Reinjected ==
  /\ host' = Default /\ panel' = Default /\ drag' = Still
  /\ UNCHANGED <<vp, open>>

-----------------------------------------------------------------------------
(* Dragging the panel by its title bar *)

FromHost == At(PanelX - HostX, PanelY - HostY)

PressPanel ==
  /\ drag = Still
  /\ TitleVisible
  /\ panel' = FromHost
  /\ drag' = [what |-> "panel", moved |-> TRUE, x |-> panel'.x, y |-> panel'.y]
  /\ UNCHANGED <<vp, host, open>>

MovePanel(m) ==
  /\ drag.what = "panel"
  /\ panel' = PanelAt(HostX + drag.x + m.x, HostY + drag.y + m.y, vp)
  /\ UNCHANGED <<vp, host, open, drag>>

-----------------------------------------------------------------------------
(* Dragging the button *)

PressFab ==
  /\ drag = Still
  /\ FabVisible
  /\ drag' = [what |-> "fab", moved |-> FALSE, x |-> 0, y |-> 0]
  /\ UNCHANGED <<vp, host, panel, open>>

Far(m) == m.x * m.x + m.y * m.y > 16

\* The place of the host is remembered when the pointer has moved by more than four pixels.
MoveFab(m) ==
  LET x == IF drag.moved THEN drag.x ELSE HostX
      y == IF drag.moved THEN drag.y ELSE HostY
  IN /\ drag.what = "fab"
     /\ drag.moved \/ Far(m)
     /\ host' = HostAt(x + m.x, y + m.y, vp)
     /\ drag' = [what |-> "fab", moved |-> TRUE, x |-> x, y |-> y]
     /\ UNCHANGED <<vp, panel, open>>

\* The pointer is released.  pointerup forgets that the button was moved, so that the click
\* which follows opens or closes the panel; there is none if the pointer was cancelled.
Release ==
  /\ drag # Still
  /\ drag' = Still
  /\ \/ UNCHANGED <<vp, host, panel, open>>
     \/ drag.what = "fab" /\ Toggle

-----------------------------------------------------------------------------
(* The size of the viewport changes. *)

PanelKept(size) ==
  IF panel.set THEN PanelAt(HostXIn(size) + panel.x, HostYIn(size) + panel.y, size) ELSE panel

HostForgotten(size) == host \* faulty: only the panel is looked at
HostKept(size) == IF host.set THEN HostAt(host.x, host.y, size) ELSE host

Resize(size) ==
  /\ size # vp
  /\ vp' = size
  /\ panel' = PanelKept(size)
  /\ host' = HostKept(size)
  /\ UNCHANGED <<open, drag>>

-----------------------------------------------------------------------------
Init ==
  /\ vp \in Viewports
  /\ host = Default /\ panel = Default /\ open = FALSE /\ drag = Still

Next ==
  \/ TogglePanel \/ Reinjected \/ PressPanel \/ PressFab \/ Release
  \/ \E m \in Moves : MovePanel(m) \/ MoveFab(m)
  \/ \E size \in Viewports : Resize(size)

Spec == Init /\ [][Next]_placement

-----------------------------------------------------------------------------
(* Properties *)

Place == [set : BOOLEAN, x : Int, y : Int]

\* What the variables hold.
TypeOK ==
  /\ vp \in Viewports
  /\ host \in Place
  /\ panel \in Place
  /\ open \in BOOLEAN
  /\ drag \in [what : {"none", "panel", "fab"}, moved : BOOLEAN, x : Int, y : Int]

\* In a viewport that has room for both, the button is wholly within it after any sequence of
\* drags, resizes (from smaller ones, too), resets and new windows.
FabIsReachable ==
  vp.w >= PANEL_W + 16 /\ vp.h >= PANEL_H + PANEL_BOTTOM_OFFSET + 16 =>
    HostX >= FAB_SIZE /\ HostX <= vp.w /\ HostY >= FAB_SIZE /\ HostY <= vp.h

\* ... and so is a panel that was not dragged away from its place above the button.
PanelIsWithin ==
  vp.w >= PANEL_W + 24 /\ vp.h >= PANEL_H + PANEL_BOTTOM_OFFSET + 24 /\ ~panel.set =>
    PanelX >= 0 /\ PanelX + PANEL_W <= vp.w /\ PanelY >= 0 /\ PanelY + PANEL_H <= vp.h

\* Whatever was dragged and resized, the user finds the window where there is room for it.
WithinViewport == FabIsReachable /\ PanelIsWithin

\* Pressing the title bar moves nothing: the panel stays where it is seen, though its place is
\* one against the host from then on.
PressKeepsPlace ==
  [][drag = Still /\ drag' # Still => PanelX' = PanelX /\ PanelY' = PanelY]_placement
=============================================================================
