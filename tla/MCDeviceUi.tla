----------------------------- MODULE MCDeviceUi -----------------------------
(* DeviceUi for TLC: three things people do with the panel; and Panel on a  *)
(* panel of four columns and five rows.                                    *)
EXTENDS DeviceUi, Panel

Looking == {"camera", "back", "wifi", "Idle", "Listening"}
Turning == {"talk", "slider", "mute", "VolumeDown"}
Talking == {"orb", "Brightness", "Idle", "Listening", "Thinking", "Speaking", "SpeakingTail"}

MCScenarios == {Looking, Turning, Talking}
MCStrip == [left |-> 1, right |-> 3, top |-> 3]

Raw == [column : 0..(PanelWidth - 1), row : 0..(PanelHeight - 1)]
Put(cell) == <<[code |-> "x", value |-> cell.column], [code |-> "y", value |-> cell.row]>>
Down == [code |-> "down", value |-> 1]
Up == [code |-> "up", value |-> -1]
Slot(n) == [code |-> "slot", value |-> n]
Point(cell) == [x |-> LogicalX(cell.row), y |-> LogicalY(cell.column)]

\* A finger that goes down at one cell and up at another swipes the way it has
\* moved on the screen, unless it went down on the slider: whatever a second
\* finger does meanwhile, and wherever the last touch was.
ASSUME SwipeFollowsFinger ==
  \A last, from, to, other \in Raw :
    LET others == <<Slot(1), Down>> \o Put(other) \o <<Up, Slot(0)>>
        touch == Handled(NewTouch, <<Down>> \o Put(last) \o <<Up, Down>> \o Put(from)
                                   \o others \o Put(to) \o <<Up>>)
        dx == Point(to).x - Point(from).x
        dy == Point(to).y - Point(from).y
    IN /\ ~touch.active
       /\ touch.swipe = IF InStrip(Point(from).x, Point(from).y) THEN "none"
                        ELSE Direction(dx, dy)

\* The controller polled over I2C reads a touch as the kernel's events do.
ASSUME BackendsAgree ==
  \A from, to \in Raw :
    LET raw(cell) == [x |-> cell.column, y |-> cell.row]
        polled == PollGt911(PollGt911(PollGt911(NewTouch, 1, raw(from)), 2, raw(to)), 0, raw(to))
        read == Handled(NewTouch, <<Down>> \o Put(from) \o Put(to) \o <<Up>>)
    IN polled = read

\* FlushDisplay covers every cell of its window once, whatever it is given.
ASSUME WindowCovered ==
  \A x1, x2 \in -1..LogicalWidth, y1, y2 \in -1..LogicalHeight :
    LET a == [x1 |-> x1, y1 |-> y1, x2 |-> x2, y2 |-> y2]
        w == Window(a)
    IN x1 <= x2 /\ y1 <= y2 /\ Visible(a) =>
         {Written(w, k) : k \in 0..(Count(a) - 1)} =
         [column : w.left..w.right, row : w.top..w.bottom]
=============================================================================
