---------------------------- MODULE Placement_proofs ----------------------------
(***************************************************************************)
(* Placement for every set of viewports and every movement of the pointer. *)
(* A host that was dragged stays where the panel above it has room         *)
(* (HostFits), and what the user can reach follows from that.              *)
(***************************************************************************)
EXTENDS Placement, TLAPS

\* A host that has a place of its own is where the panel above it is within the viewport, or as
\* near to that as a viewport without room allows.
HostFits ==
  host.set =>
    /\ host.x >= PANEL_W /\ host.x <= Max2(PANEL_W, vp.w - 16)
    /\ host.y >= PANEL_H + PANEL_BOTTOM_OFFSET
    /\ host.y <= Max2(PANEL_H + PANEL_BOTTOM_OFFSET, vp.h - 16)

IInv == TypeOK /\ HostFits

\* Max2 and Min2 of numbers are numbers, and Kept keeps what it says.
LEMMA KeptBounds ==
  ASSUME NEW x \in Int, NEW lowest \in Int, NEW highest \in Int
  PROVE  /\ Kept(x, lowest, highest) \in Int
         /\ Kept(x, lowest, highest) >= lowest
         /\ Kept(x, lowest, highest) <= Max2(lowest, highest)
BY DEF Kept, Max2, Min2

\* A place for the host fits the viewport that it was made for.
LEMMA HostAtFits ==
  ASSUME NEW x \in Int, NEW y \in Int, NEW size \in Viewports
  PROVE  /\ HostAt(x, y, size) \in Place
         /\ HostAt(x, y, size).set
         /\ HostAt(x, y, size).x >= PANEL_W
         /\ HostAt(x, y, size).x <= Max2(PANEL_W, size.w - 16)
         /\ HostAt(x, y, size).y >= PANEL_H + PANEL_BOTTOM_OFFSET
         /\ HostAt(x, y, size).y <= Max2(PANEL_H + PANEL_BOTTOM_OFFSET, size.h - 16)
<1> DEFINE kx == Kept(x, PANEL_W, size.w - 16)
           ky == Kept(y, PANEL_H + PANEL_BOTTOM_OFFSET, size.h - 16)
<1>1. size.w - 16 \in Int /\ size.h - 16 \in Int
  BY PlacementAssumption
<1>2. PANEL_W \in Int /\ PANEL_H + PANEL_BOTTOM_OFFSET \in Int
  BY DEF PANEL_W, PANEL_H, PANEL_BOTTOM_OFFSET
<1>3. kx \in Int /\ kx >= PANEL_W /\ kx <= Max2(PANEL_W, size.w - 16)
  BY <1>1, <1>2, KeptBounds
<1>4. /\ ky \in Int
      /\ ky >= PANEL_H + PANEL_BOTTOM_OFFSET
      /\ ky <= Max2(PANEL_H + PANEL_BOTTOM_OFFSET, size.h - 16)
  BY <1>1, <1>2, KeptBounds
<1>5. HostAt(x, y, size) = [set |-> TRUE, x |-> kx, y |-> ky]
  BY DEF HostAt, At
<1> HIDE DEF kx, ky
<1> QED BY <1>3, <1>4, <1>5 DEF Place

\* The host of a window is at a place in pixels, whatever the size of the viewport.
LEMMA HostIsSomewhere ==
  ASSUME TypeOK, NEW size \in Viewports
  PROVE  HostXIn(size) \in Int /\ HostYIn(size) \in Int
BY PlacementAssumption DEF TypeOK, Place, HostXIn, HostYIn

\* ... and so is the panel, shown or not.
LEMMA PanelAtPlace ==
  ASSUME TypeOK, NEW x \in Int, NEW y \in Int, NEW size \in Viewports
  PROVE  PanelAt(x, y, size) \in Place
<1>1. size.w \in Int /\ size.h \in Int
  BY PlacementAssumption
<1>2. (IF open THEN PANEL_W ELSE 0) \in Int
  BY DEF PANEL_W
<1>3. ASSUME NEW w \in Int PROVE ClampX(x, w, size) \in Int
  <2>1. 40 - w \in Int /\ size.w - 40 \in Int
    BY <1>1
  <2> QED BY <2>1, KeptBounds DEF ClampX
<1>4. ClampY(y, size) \in Int
  <2>1. -40 \in Int /\ size.h - 40 \in Int
    BY <1>1
  <2> QED BY <2>1, KeptBounds DEF ClampY
<1>5. ClampX(x, IF open THEN PANEL_W ELSE 0, size) \in Int
  BY <1>2, <1>3
<1> QED BY <1>4, <1>5, HostIsSomewhere DEF PanelAt, At, Place

\* The default place is one, and fits any viewport.
LEMMA DefaultPlace == Default \in Place /\ ~Default.set
BY DEF Default, Place

Drags == [what : {"none", "panel", "fab"}, moved : BOOLEAN, x : Int, y : Int]

\* Nothing is dragged, which is one way of dragging.
LEMMA StillDrag == Still \in Drags /\ Still.what = "none"
BY DEF Still, Drags

-----------------------------------------------------------------------------
(* The invariant *)

LEMMA InitIInv == Init => IInv
<1> SUFFICES ASSUME Init PROVE IInv
  OBVIOUS
<1>1. TypeOK
  <2>1. open \in BOOLEAN
    BY DEF Init
  <2>2. drag \in Drags
    BY StillDrag DEF Init
  <2> QED BY <2>1, <2>2, DefaultPlace DEF Init, TypeOK, Drags
<1>2. HostFits
  BY DefaultPlace DEF Init, HostFits
<1> QED BY <1>1, <1>2 DEF IInv

\* Opening and closing moves nothing, or puts everything back.
LEMMA ToggleIInv ==
  ASSUME IInv, Toggle, drag' \in {drag, Still}
  PROVE  IInv'
<1>1. vp' = vp /\ open' \in BOOLEAN
  BY DEF Toggle, IInv, TypeOK
<1>2. drag' \in Drags
  <2>1. drag \in Drags
    BY DEF IInv, TypeOK, Drags
  <2> QED BY <2>1, StillDrag
<1>3. CASE host' = Default /\ panel' = Default
  BY <1>1, <1>2, <1>3, DefaultPlace DEF IInv, TypeOK, HostFits, Drags
<1>4. CASE host' = host /\ panel' = panel
  BY <1>1, <1>2, <1>4 DEF IInv, TypeOK, HostFits, Drags
<1> QED BY <1>3, <1>4 DEF Toggle

LEMMA PressPanelIInv ==
  ASSUME IInv, PressPanel
  PROVE  IInv'
<1> USE DEF IInv
<1>1. vp \in Viewports /\ HostX \in Int /\ HostY \in Int
  BY HostIsSomewhere DEF TypeOK, HostX, HostY
<1>2. PanelX \in Int /\ PanelY \in Int
  BY <1>1 DEF TypeOK, Place, PanelX, PanelY, PANEL_W, PANEL_H, PANEL_BOTTOM_OFFSET
<1>3. FromHost \in Place
  BY <1>1, <1>2 DEF FromHost, At, Place
<1>4. panel' \in Place /\ drag' \in [what : {"none", "panel", "fab"}, moved : BOOLEAN, x : Int, y : Int]
  BY <1>3 DEF PressPanel, Place
<1> QED BY <1>4 DEF PressPanel, TypeOK, HostFits

LEMMA MovePanelIInv ==
  ASSUME IInv, NEW m \in Moves, MovePanel(m)
  PROVE  IInv'
<1> USE DEF IInv
<1>1. vp \in Viewports /\ HostX \in Int /\ HostY \in Int
  BY HostIsSomewhere DEF TypeOK, HostX, HostY
<1>2. HostX + drag.x + m.x \in Int /\ HostY + drag.y + m.y \in Int
  BY <1>1, PlacementAssumption DEF TypeOK
<1>3. panel' \in Place
  BY <1>1, <1>2, PanelAtPlace DEF MovePanel
<1> QED BY <1>3 DEF MovePanel, TypeOK, HostFits

LEMMA MoveFabIInv ==
  ASSUME IInv, NEW m \in Moves, MoveFab(m)
  PROVE  IInv'
<1> USE DEF IInv
<1> DEFINE x == IF drag.moved THEN drag.x ELSE HostX
           y == IF drag.moved THEN drag.y ELSE HostY
<1>1. vp \in Viewports /\ HostX \in Int /\ HostY \in Int
  BY HostIsSomewhere DEF TypeOK, HostX, HostY
<1>2. x \in Int /\ y \in Int
  BY <1>1 DEF TypeOK
<1>3. /\ host' = HostAt(x + m.x, y + m.y, vp)
      /\ drag' = [what |-> "fab", moved |-> TRUE, x |-> x, y |-> y]
      /\ UNCHANGED <<vp, panel, open>>
  BY DEF MoveFab
<1> HIDE DEF x, y
<1>4. x + m.x \in Int /\ y + m.y \in Int
  BY <1>2, PlacementAssumption
<1>5. drag' \in [what : {"none", "panel", "fab"}, moved : BOOLEAN, x : Int, y : Int]
  BY <1>2, <1>3
<1>6. TypeOK'
  BY <1>1, <1>3, <1>4, <1>5, HostAtFits DEF TypeOK
<1>7. HostFits'
  BY <1>1, <1>3, <1>4, HostAtFits DEF HostFits
<1> QED BY <1>6, <1>7

LEMMA ResizeIInv ==
  ASSUME IInv, NEW size \in Viewports, Resize(size)
  PROVE  IInv'
<1> USE DEF IInv
<1>1. vp' = size /\ panel' = PanelKept(size) /\ host' = HostKept(size) /\ UNCHANGED <<open, drag>>
  BY DEF Resize
<1>2. HostXIn(size) \in Int /\ HostYIn(size) \in Int
  BY HostIsSomewhere
<1>3. PanelKept(size) \in Place
  <2>1. CASE panel.set
    <3>1. HostXIn(size) + panel.x \in Int /\ HostYIn(size) + panel.y \in Int
      BY <1>2 DEF TypeOK, Place
    <3> QED BY <2>1, <3>1, PanelAtPlace DEF PanelKept
  <2>2. CASE ~panel.set
    BY <2>2 DEF PanelKept, TypeOK
  <2> QED BY <2>1, <2>2
<1>4. CASE host.set
  <2>1. host.x \in Int /\ host.y \in Int
    BY DEF TypeOK, Place
  <2>2. host' = HostAt(host.x, host.y, size)
    BY <1>1, <1>4 DEF HostKept
  <2>3. TypeOK'
    BY <1>1, <1>3, <2>1, <2>2, HostAtFits DEF TypeOK
  <2>4. HostFits'
    BY <1>1, <2>1, <2>2, HostAtFits DEF HostFits
  <2> QED BY <2>3, <2>4
<1>5. CASE ~host.set
  <2>1. host' = host
    BY <1>1, <1>5 DEF HostKept
  <2> QED BY <1>1, <1>3, <1>5, <2>1 DEF TypeOK, HostFits
<1> QED BY <1>4, <1>5

LEMMA NextIInv == IInv /\ [Next]_placement => IInv'
<1> SUFFICES ASSUME IInv, [Next]_placement PROVE IInv'
  OBVIOUS
<1>1. CASE TogglePanel
  BY <1>1, ToggleIInv DEF TogglePanel
<1>2. CASE Reinjected
  BY <1>2, DefaultPlace DEF Reinjected, IInv, TypeOK, HostFits, Still
<1>3. CASE PressPanel
  BY <1>3, PressPanelIInv
<1>4. CASE PressFab
  BY <1>4 DEF PressFab, IInv, TypeOK, HostFits
<1>5. CASE Release
  <2>1. CASE UNCHANGED <<vp, host, panel, open>>
    BY <1>5, <2>1 DEF Release, IInv, TypeOK, HostFits, Still
  <2>2. CASE Toggle
    BY <1>5, <2>2, ToggleIInv DEF Release
  <2> QED BY <1>5, <2>1, <2>2 DEF Release
<1>6. ASSUME NEW m \in Moves, MovePanel(m) PROVE IInv'
  BY <1>6, MovePanelIInv
<1>7. ASSUME NEW m \in Moves, MoveFab(m) PROVE IInv'
  BY <1>7, MoveFabIInv
<1>8. ASSUME NEW size \in Viewports, Resize(size) PROVE IInv'
  BY <1>8, ResizeIInv
<1>9. CASE UNCHANGED placement
  BY <1>9 DEF placement, IInv, TypeOK, HostFits
<1> QED BY <1>1, <1>2, <1>3, <1>4, <1>5, <1>6, <1>7, <1>8, <1>9 DEF Next

-----------------------------------------------------------------------------
(* What follows *)

\* The inductive invariant holds.
LEMMA Invariance == Spec => []IInv
BY InitIInv, NextIInv, PTL DEF Spec

\* Every place that the code computes is one in pixels: no coordinate is read that was never given.
THEOREM TypeCorrect == Spec => []TypeOK
BY Invariance, PTL DEF IInv

\* The button is wholly within every viewport that has room, whatever was dragged or resized.
THEOREM FabTheorem == Spec => []FabIsReachable
<1>1. IInv => FabIsReachable
  <2> SUFFICES ASSUME IInv, vp.w >= PANEL_W + 16, vp.h >= PANEL_H + PANEL_BOTTOM_OFFSET + 16
               PROVE  HostX >= FAB_SIZE /\ HostX <= vp.w /\ HostY >= FAB_SIZE /\ HostY <= vp.h
    BY DEF FabIsReachable
  <2>1. vp.w \in Int /\ vp.h \in Int /\ host.x \in Int /\ host.y \in Int
    BY PlacementAssumption DEF IInv, TypeOK, Place
  <2>2. CASE host.set
    BY <2>1, <2>2 DEF IInv, HostFits, Max2, HostX, HostY, HostXIn, HostYIn,
                      PANEL_W, PANEL_H, PANEL_BOTTOM_OFFSET, FAB_SIZE
  <2>3. CASE ~host.set
    BY <2>1, <2>3 DEF HostX, HostY, HostXIn, HostYIn, PANEL_W, PANEL_H, PANEL_BOTTOM_OFFSET, FAB_SIZE
  <2> QED BY <2>2, <2>3
<1> QED BY <1>1, Invariance, PTL

\* So is a panel that hangs at its place above the button.
THEOREM PanelTheorem == Spec => []PanelIsWithin
<1>1. IInv => PanelIsWithin
  <2> SUFFICES ASSUME IInv, vp.w >= PANEL_W + 24, vp.h >= PANEL_H + PANEL_BOTTOM_OFFSET + 24, ~panel.set
               PROVE  PanelX >= 0 /\ PanelX + PANEL_W <= vp.w /\ PanelY >= 0 /\ PanelY + PANEL_H <= vp.h
    BY DEF PanelIsWithin
  <2>1. vp.w \in Int /\ vp.h \in Int /\ host.x \in Int /\ host.y \in Int
    BY PlacementAssumption DEF IInv, TypeOK, Place
  <2>2. PanelX = HostX - PANEL_W /\ PanelY = HostY - (PANEL_H + PANEL_BOTTOM_OFFSET)
    BY <2>1 DEF PanelX, PanelY, HostX, HostY, HostXIn, HostYIn, PANEL_W, PANEL_H, PANEL_BOTTOM_OFFSET
  <2>3. CASE host.set
    BY <2>1, <2>2, <2>3 DEF IInv, HostFits, Max2, HostX, HostY, HostXIn, HostYIn,
                            PANEL_W, PANEL_H, PANEL_BOTTOM_OFFSET
  <2>4. CASE ~host.set
    BY <2>1, <2>2, <2>4 DEF HostX, HostY, HostXIn, HostYIn, PANEL_W, PANEL_H, PANEL_BOTTOM_OFFSET
  <2> QED BY <2>3, <2>4
<1> QED BY <1>1, Invariance, PTL

\* Both, as they are checked: the window is where the user finds it.
THEOREM WithinTheorem == Spec => []WithinViewport
<1>1. FabIsReachable /\ PanelIsWithin => WithinViewport
  BY DEF WithinViewport
<1> QED BY <1>1, FabTheorem, PanelTheorem, PTL

\* The panel does not jump when its title bar is pressed, wherever host and panel were before.
THEOREM PressTheorem == Spec => PressKeepsPlace
<1>1. IInv /\ [Next]_placement =>
        [drag = Still /\ drag' # Still => PanelX' = PanelX /\ PanelY' = PanelY]_placement
  <2> SUFFICES ASSUME IInv, Next, drag = Still, drag' # Still
               PROVE  PanelX' = PanelX /\ PanelY' = PanelY
    OBVIOUS
  <2>1. HostX \in Int /\ HostY \in Int
    BY HostIsSomewhere DEF IInv, TypeOK, HostX, HostY
  <2>2. PanelX \in Int /\ PanelY \in Int
    BY <2>1 DEF IInv, TypeOK, Place, PanelX, PanelY, PANEL_W, PANEL_H, PANEL_BOTTOM_OFFSET
  <2>3. CASE PressPanel
    <3>1. HostX' = HostX /\ HostY' = HostY
      BY <2>3 DEF PressPanel, HostX, HostY, HostXIn, HostYIn
    <3>2. panel'.set /\ panel'.x = PanelX - HostX /\ panel'.y = PanelY - HostY
      BY <2>3 DEF PressPanel, FromHost, At
    <3>3. PanelX' = HostX + (PanelX - HostX) /\ PanelY' = HostY + (PanelY - HostY)
      BY <3>1, <3>2 DEF PanelX, PanelY
    <3> QED BY <2>1, <2>2, <3>3
  <2>4. CASE PressFab
    BY <2>4 DEF PressFab, PanelX, PanelY, HostX, HostY, HostXIn, HostYIn
  <2>5. drag.what = "none" /\ Still.what = "none"
    BY DEF Still
  <2>6. CASE TogglePanel \/ Reinjected \/ Release
    BY <2>6 DEF TogglePanel, Reinjected, Release
  <2>7. ASSUME NEW m \in Moves, MovePanel(m) \/ MoveFab(m) PROVE FALSE
    BY <2>5, <2>7 DEF MovePanel, MoveFab
  <2>8. ASSUME NEW size \in Viewports, Resize(size) PROVE FALSE
    BY <2>8 DEF Resize
  <2> QED BY <2>3, <2>4, <2>6, <2>7, <2>8 DEF Next
<1> QED BY <1>1, Invariance, PTL DEF Spec, PressKeepsPlace
=============================================================================
