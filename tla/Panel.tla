------------------------------- MODULE Panel -------------------------------
(***************************************************************************)
(* How the landscape screen meets the upright panel                        *)
(* (client/src/ui/device_ui.cpp): the window and the order in which        *)
(* FlushDisplay writes the pixels of an area, and what the raw coordinates *)
(* of the touch controller become. Pure functions; DeviceUi has the        *)
(* threads. A coordinate is read as the kernel or the controller gives it. *)
(***************************************************************************)
EXTENDS Integers, Sequences, SequencesExt

CONSTANTS
  PanelWidth, PanelHeight, \* kPanelWidth, kPanelHeight: columns and rows of the panel
  Threshold,               \* how far a finger moves before it swipes (24 in the code)
  Strip                    \* the slider's part of the screen: its left, right and top

ASSUME PanelAssumption ==
  /\ PanelWidth \in Nat \ {0} /\ PanelHeight \in Nat \ {0}
  /\ Threshold \in Nat /\ Strip \in [left : Nat, right : Nat, top : Nat]

LogicalWidth == PanelHeight
LogicalHeight == PanelWidth

Clamp(v, low, high) == IF v < low THEN low ELSE IF v > high THEN high ELSE v

-----------------------------------------------------------------------------
(* FlushDisplay and SetWindow.                                             *)

Areas == [x1 : Int, y1 : Int, x2 : Int, y2 : Int]

\* The part of the area that is on the screen.
Clipped(a) ==
  [x1 |-> Clamp(a.x1, 0, a.x1), y1 |-> Clamp(a.y1, 0, a.y1),
   x2 |-> Clamp(a.x2, a.x2, LogicalWidth - 1), y2 |-> Clamp(a.y2, a.y2, LogicalHeight - 1)]

Visible(a) == LET c == Clipped(a) IN c.x1 <= c.x2 /\ c.y1 <= c.y2

Window(a) ==
  LET c == Clipped(a)
  IN [left |-> c.y1, top |-> PanelHeight - 1 - c.x2,
      right |-> c.y2, bottom |-> PanelHeight - 1 - c.x1]

Count(a) == LET c == Clipped(a) IN (c.x2 - c.x1 + 1) * (c.y2 - c.y1 + 1)

\* The pixel that is streamed k-th: columns from the right, each from the top.
Streamed(a, k) ==
  LET c == Clipped(a)
      height == c.y2 - c.y1 + 1
  IN [x |-> c.x2 - (k \div height), y |-> c.y1 + (k % height)]

SourceIndex(a, p) == (p.y - a.y1) * (a.x2 - a.x1 + 1) + p.x - a.x1

\* Where the panel puts the k-th pixel of a window: row by row.
Written(w, k) ==
  LET width == w.right - w.left + 1
  IN [column |-> w.left + (k % width), row |-> w.top + (k \div width)]

\* The screen is the panel turned by a quarter.
Cell(p) == [column |-> p.y, row |-> PanelHeight - 1 - p.x]

-----------------------------------------------------------------------------
(* The touch controller: HandleEvent on the kernel's events.               *)

NewTouch ==
  [slot |-> 0, x |-> 0, y |-> 0, start_x |-> 0, start_y |-> 0, active |-> FALSE,
   have_x |-> FALSE, have_y |-> FALSE, started |-> FALSE, swipe |-> "none"]

LogicalX(raw_y) == PanelHeight - 1 - Clamp(raw_y, 0, PanelHeight - 1)
LogicalY(raw_x) == Clamp(raw_x, 0, PanelWidth - 1)

BeginTouch(t) ==
  [t EXCEPT !.active = TRUE, !.have_x = FALSE, !.have_y = FALSE, !.started = FALSE,
            !.swipe = "none"]

StartGestureIfReady(t) ==
  IF t.active /\ t.have_x /\ t.have_y /\ ~t.started
  THEN [t EXCEPT !.start_x = t.x, !.start_y = t.y, !.started = TRUE] ELSE t

Abs(v) == IF v < 0 THEN -v ELSE v

InStrip(x, y) == x >= Strip.left /\ x <= Strip.right /\ y >= Strip.top

\* The swipe from a point to another, none when the finger hardly moved.
Direction(dx, dy) ==
  CASE Abs(dx) < Threshold /\ Abs(dy) < Threshold -> "none"
    [] Abs(dx) > Abs(dy) -> IF dx > 0 THEN "BrightnessUp" ELSE "BrightnessDown"
    [] OTHER             -> IF dy < 0 THEN "VolumeUp" ELSE "VolumeDown"

Swipe(t) ==
  IF ~t.active \/ ~t.started \/ InStrip(t.start_x, t.start_y) THEN "none"
  ELSE Direction(t.x - t.start_x, t.y - t.start_y)

EndTouch(t) == [t EXCEPT !.active = FALSE, !.swipe = Swipe(t)]

\* A coordinate or the tracking id of the current slot; only slot 0 counts.
Took(t, e) ==
  CASE e.code = "x"    -> [t EXCEPT !.y = LogicalY(e.value), !.have_y = TRUE]
    [] e.code = "y"    -> [t EXCEPT !.x = LogicalX(e.value), !.have_x = TRUE]
    [] e.code = "down" -> BeginTouch(t)
    [] e.code = "up"   -> EndTouch(t)

HandleEvent(t, e) ==
  IF e.code = "slot" THEN [t EXCEPT !.slot = e.value]
  ELSE IF t.slot # 0 THEN t
  ELSE StartGestureIfReady(Took(t, e))

Handled(t, events) == FoldLeft(HandleEvent, t, events)

\* PollGt911: the status says how many fingers there are, and where the first.
PollGt911(t, fingers, raw) ==
  IF fingers = 0 THEN EndTouch(t)
  ELSE StartGestureIfReady(
         [(IF t.active THEN t ELSE BeginTouch(t)) EXCEPT
            !.x = LogicalX(raw.y), !.y = LogicalY(raw.x), !.have_x = TRUE, !.have_y = TRUE])
=============================================================================
