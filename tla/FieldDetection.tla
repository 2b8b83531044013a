--------------------------- MODULE FieldDetection ---------------------------
(***************************************************************************)
(* Where the table lies in the picture: analysis_process_field_buffer and  *)
(* analysis_process_ball_buffer (analysis.cpp), which the analysis thread  *)
(* calls with the field and the ball texture.                              *)
(*                                                                         *)
(* A picture is what the field texture shows of the scene: a rectangle of  *)
(* cells that are table, columns a player bar crosses, and one noisy cell. *)
(* Screen coordinates are floats in [-1, 1]; here they are in 1/10000 of   *)
(* the half picture, rounded down.                                         *)
(***************************************************************************)
EXTENDS Integers, FiniteSetsExt

CONSTANTS Width, Height,  \* cells of a texture
          Pictures,       \* those for which Detect is evaluated once
          Settled         \* field buffers after which the field is at rest

ASSUME SizeAssumption == Width \in 1 .. 10000 /\ Height \in 1 .. 10000
ASSUME SettledAssumption == Settled \in Nat

VARIABLES field,    \* FIELD field: the sides in screen coordinates
          picture,  \* what the field texture shows now
          rest      \* history: field buffers since the picture has changed

fieldVars == <<field, picture, rest>>

One == 10000
FieldInit ==
  /\ field = [xmin |-> -9000, xmax |-> 9000, ymin |-> -9000, ymax |-> 9000]
  /\ rest = 0

-----------------------------------------------------------------------------
(* The picture                                                              *)

Green == 200   \* a cell of the table
Shaded == 50   \* one under a player bar

OnTable(p, x, y) == x \in p.xmin .. p.xmax /\ y \in p.ymin .. p.ymax
Pixel(p, x, y) ==
  IF OnTable(p, x, y) THEN IF x \in p.bars THEN Shaded ELSE Green
  ELSE IF p.speck.x = x /\ p.speck.y = y THEN p.speck.value ELSE 0

-----------------------------------------------------------------------------
(* Detection                                                                *)

\* Really small noise is ignored.
Counted(value) == IF value > 20 THEN value ELSE 0
Sum(sums) == MapThenSumSet(LAMBDA i : sums[i], DOMAIN sums)
ColumnSums(p) == [x \in 0 .. Width - 1 |->
  MapThenSumSet(LAMBDA y : Counted(Pixel(p, x, y)), 0 .. Height - 1)]
RowSums(p) == [y \in 0 .. Height - 1 |->
  MapThenSumSet(LAMBDA x : Counted(Pixel(p, x, y)), 0 .. Width - 1)]

\* Half of the mean of the sums.
HalfMean(sums, n) == Sum(sums) \div (2 * n)
Bound(sums, n) == HalfMean(sums, n)

\* The first and the last sum above the bound; the second loop stops before 0.
Above(sums, first, n) == {i \in first .. n - 1 : sums[i] > Bound(sums, n)}
FirstOrWidth(sums, n) ==
  IF Above(sums, 0, n) = {} THEN n ELSE Min(Above(sums, 0, n))
FirstLit(sums, n) == IF Above(sums, 0, n) = {} THEN 0 ELSE Min(Above(sums, 0, n))
LastLit(sums, n) == IF Above(sums, 1, n) = {} THEN 0 ELSE Max(Above(sums, 1, n))

\* The left corner of a cell, and the widening for the white bars.
Screen(cell, n) == (2 * One * cell) \div n - One
Lower(a, b) == (10715 * a - 715 * b) \div 10000
Upper(a, b) == (10715 * b - 715 * a) \div 10000
Side(sums, n) ==
  LET a == Screen(FirstLit(sums, n) - 1, n)
      b == Screen(LastLit(sums, n) + 2, n)
  IN  [low  |-> IF Lower(a, b) < -One THEN -One ELSE Lower(a, b),
       high |-> IF Upper(a, b) > One THEN One ELSE Upper(a, b)]

Detect(p) ==
  LET x == Side(ColumnSums(p), Width)
      y == Side(RowSums(p), Height)
  IN  [xmin |-> x.low, xmax |-> x.high, ymin |-> y.low, ymax |-> y.high]
Remembered == [p \in Pictures |-> Detect(p)]
Detected(p) == IF p \in DOMAIN Remembered THEN Remembered[p] ELSE Detect(p)

\* Time average, because it fluctuates too much.
SmoothSlowly(old, new) == (95 * old + 5 * new) \div 100
Smooth(old, new) == (80 * old + 20 * new) \div 100

analysis_process_field_buffer ==
  /\ LET new == Detected(picture)
     IN  field' = [xmin |-> Smooth(field.xmin, new.xmin),
                   xmax |-> Smooth(field.xmax, new.xmax),
                   ymin |-> Smooth(field.ymin, new.ymin),
                   ymax |-> Smooth(field.ymax, new.ymax)]
  /\ rest' = IF rest < Settled THEN rest + 1 ELSE rest
  /\ UNCHANGED picture

\* The scene or the camera's view of it changes.
Show(p) ==
  /\ picture' = p
  /\ rest' = IF p = picture THEN rest ELSE 0
  /\ UNCHANGED field

\* The field is never turned inside out or empty, whatever the pictures were:
\* the ball's place in the field divides by its width and height
\* (analysis.cpp:405-406).
FieldOpen ==
  /\ -One <= field.xmin /\ field.xmin < field.xmax /\ field.xmax <= One
  /\ -One <= field.ymin /\ field.ymin < field.ymax /\ field.ymax <= One

-----------------------------------------------------------------------------
(* The ball: lit is the value of each cell <<x, y>> of the ball texture     *)
(* that is not black.                                                       *)

\* The cells that are searched: the field and a cell and a half more.
Anywhere(f, c) == TRUE
Window(low, high, n) == ((One + low) * n - 3 * One) \div (2 * One)
                        .. ((One + high) * n + 3 * One) \div (2 * One)
InField(f, c) ==
  c[1] \in Window(f.xmin, f.xmax, Width) /\ c[2] \in Window(f.ymin, f.ymax, Height)
Searched(f, c) == InField(f, c)

Scanned(c, d) == c[2] < d[2] \/ (c[2] = d[2] /\ c[1] < d[1])
Brightest(f, lit) ==
  LET window == {c \in DOMAIN lit : Searched(f, c)}
      max == {c \in window : \A d \in window : lit[d] <= lit[c]}
  IN  IF max = {} THEN <<0, 0>>
      ELSE CHOOSE c \in max : \A d \in max \ {c} : Scanned(c, d)
Near(c, d) == d[1] - c[1] \in -5 .. 5 /\ d[2] - c[2] \in -5 .. 5

analysis_process_ball_buffer(f, lit) ==
  LET peak == Brightest(f, lit)
      near == {c \in DOMAIN lit : Near(peak, c)}
      weight == MapThenSumSet(LAMBDA c : lit[c], near)
      Average(i) == MapThenSumSet(LAMBDA c : c[i] * lit[c], near)
      found == peak \in DOMAIN lit /\ Searched(f, peak)
               /\ lit[peak] > 100 /\ weight > 270
      \* half a cell to its middle
      At(i, n) == (One + (2 * One * Average(i)) \div weight) \div n - One
  IN  [found |-> found,
       at |-> IF found THEN <<At(1, Width), At(2, Height)>> ELSE <<>>]
=============================================================================
