----------------------------- MODULE CameraView -----------------------------
(***************************************************************************)
(* The camera above the table, and the detector that follows the table in  *)
(* its picture.  The keys of the recorder change the crop while the        *)
(* analysis runs, so the table grows, shrinks and leaves the picture under *)
(* the detector; in demo mode only the settings are looked at.             *)
(***************************************************************************)
EXTENDS FieldDetection, CameraControl

CONSTANTS Table,       \* the table's sides in the scene, in 16.16 fractions
          Bars,        \* where the player bars cross the picture
          Scenes,      \* the light: is the table seen, and which cell is noisy
          MaxChanges   \* of the picture in a run

VARIABLES mode,        \* how wait_for_next_change waits: "keys" or "demo"
          scene,
          changes

vars == <<fieldVars, cycleVars, zoomVars, mode, scene, changes>>

\* The cells that lie in [low, high] of the scene, n of them in the crop.
FirstCell(low, c, length, n) ==
  LET d == (low - c) * n IN IF d <= 0 THEN 0 ELSE -((-d) \div length)
LastCell(high, c, length, n) ==
  LET d == (high - c) * n IN IF d > n * length THEN n - 1 ELSE d \div length - 1

\* What the camera shows of the scene (the optics are external).
View(c, s) ==
  [xmin |-> FirstCell(Table.xmin, c.x, c.width, Width),
   xmax |-> IF s.table THEN LastCell(Table.xmax, c.x, c.width, Width) ELSE -1,
   ymin |-> FirstCell(Table.ymin, c.y, c.height, Height),
   ymax |-> IF s.table THEN LastCell(Table.ymax, c.y, c.height, Height) ELSE -1,
   bars |-> {((b - c.x) * Width) \div c.width : b \in Bars},
   speck |-> s.speck]

Init ==
  /\ FieldInit /\ CameraInit
  /\ scene \in Scenes /\ picture = View(crop, scene)
  /\ mode \in {"keys", "demo"} /\ changes = 0

Changed == changes' = IF picture' = picture THEN changes ELSE changes + 1

zoom ==
  /\ mode = "keys" /\ changes < MaxChanges
  /\ \E command \in {"in", "out", "reset"} : raspicamcontrol_zoom_in_zoom_out(command)
  /\ Show(View(crop', scene)) /\ Changed
  /\ UNCHANGED <<cycleVars, mode, scene>>

Flicker ==
  /\ mode = "keys" /\ changes < MaxChanges /\ scene' \in Scenes
  /\ Show(View(crop, scene')) /\ Changed
  /\ UNCHANGED <<cycleVars, zoomVars, mode>>

demo ==
  /\ mode = "demo" /\ raspicamcontrol_cycle_test
  /\ UNCHANGED <<fieldVars, zoomVars, mode, scene, changes>>

process_field_buffer ==
  /\ mode = "keys" /\ analysis_process_field_buffer
  /\ UNCHANGED <<cycleVars, zoomVars, mode, scene, changes>>

Next == zoom \/ Flicker \/ demo \/ process_field_buffer
Spec == Init /\ [][Next]_vars

-----------------------------------------------------------------------------
(* Properties                                                               *)

\* Once Settled buffers have shown the same picture, the field is what the
\* table is on the screen: it reaches at least to its sides, and at most two
\* cells and a tenth of the table farther, in spite of player bars, noise and
\* every earlier view (analysis.cpp:411-574).
Tolerance == 600
Encloses(low, high, first, last, n) ==
  LET a == Screen(first, n)
      b == Screen(last + 1, n)
      margin == (4 * One) \div n + (b - a) \div 10
      Outer(x) == IF x < -One THEN -One ELSE IF x > One THEN One ELSE x
  IN  /\ low \in Outer(a - margin) - Tolerance .. a + Tolerance
      /\ high \in b - Tolerance .. Outer(b + margin) + Tolerance
FieldTracksTable ==
  rest = Settled /\ scene.table =>
    /\ Encloses(field.xmin, field.xmax, picture.xmin, picture.xmax, Width)
    /\ Encloses(field.ymin, field.ymax, picture.ymin, picture.ymax, Height)

\* With the field at rest a ball anywhere on the table is found where it is,
\* though something brighter lies off the table, farther than the field's
\* margins reach (analysis.cpp:342-405).
Off(x, first, last, n) ==
  LET reach == Max({6, 3 + n \div 8}) IN x < first - reach \/ x > last + reach
Places(first, last) == {first, (first + last) \div 2, last}
Shirts == {<<0, 0>>, <<Width - 1, Height \div 2>>, <<Width \div 2, Height - 1>>}
OffTable(c) == \/ Off(c[1], picture.xmin, picture.xmax, Width)
               \/ Off(c[2], picture.ymin, picture.ymax, Height)
BallOnTable ==
  rest = Settled /\ scene.table =>
    \A x \in Places(picture.xmin, picture.xmax) :
    \A y \in Places(picture.ymin, picture.ymax) :
    \A shirt \in {c \in Shirts : OffTable(c)} :
      LET lit == [c \in {<<x, y>>, <<x, y + 1>>, shirt} |->
                    IF c = <<x, y>> THEN 200 ELSE IF c = shirt THEN 255 ELSE 150]
          ball == analysis_process_ball_buffer(field, lit)
      IN  /\ ball.found
          /\ ball.at[1] \in Screen(x, Width) .. Screen(x + 1, Width)
          /\ ball.at[2] \in Screen(y, Height) .. Screen(y + 2, Height)
=============================================================================
