-------------------------- MODULE CameraViewProofs --------------------------
(***************************************************************************)
(* What the tracker sees and what it makes of it: the field is open in     *)
(* every state of CameraView, for every size of the textures and every     *)
(* picture, and comes to rest where the detector sees the table; the demo  *)
(* takes back what it set; and the signals, the maximum speed and the      *)
(* credit for a goal of BallAnalysis.  The parts share what is said here   *)
(* of least elements and of folds over a set of numbers.                   *)
(*                                                                         *)
(* FieldOpen is inductive with the type of the field, because a detected   *)
(* side is never empty, even of a black picture, and averaging two open    *)
(* intervals, in hundredths and rounded down, leaves an open one.          *)
(***************************************************************************)
EXTENDS CameraView, BallAnalysis, FiniteSetTheorems, SequenceTheorems, TLAPS

FieldType == field \in [xmin : Int, xmax : Int, ymin : Int, ymax : Int]
FieldInv == FieldType /\ FieldOpen

\* A set of natural numbers has a least element: of the intervals from 0 to
\* one of them, one has no other as a strict subset.
LEMMA LeastNumber ==
  ASSUME NEW S \in SUBSET Nat, S # {}
  PROVE  \E m \in S : \A i \in S : m <= i
PROOF
<1> DEFINE T == {0 .. x : x \in S}
<1>1. T \subseteq FiniteSubsetsOf(Nat)
  <2>1. SUFFICES ASSUME NEW x \in S PROVE 0 .. x \in FiniteSubsetsOf(Nat)
    OBVIOUS
  <2>2. x \in Nat /\ 0 .. x \subseteq Nat
    OBVIOUS
  <2>3. IsFiniteSet(0 .. x)
    BY <2>2, FS_Interval
  <2> QED BY <2>2, <2>3 DEF FiniteSubsetsOf
<1>2. T # {}
  OBVIOUS
<1> HIDE DEF T
<1>3. PICK t \in T : \A u \in T : ~ (<<u, t>> \in StrictSubsetOrdering(Nat))
  BY <1>1, <1>2, FS_StrictSubsetOrderingWellFounded, WFMin
<1> USE DEF T
<1>4. PICK m \in S : t = 0 .. m
  OBVIOUS
<1>5. ASSUME NEW i \in S, i < m PROVE FALSE
  <2>1. 0 .. i \in T
    OBVIOUS
  <2>2. 0 .. i \in SUBSET Nat /\ 0 .. m \in SUBSET Nat /\ 0 .. i \subseteq 0 .. m
    BY <1>5
  <2>3. m \in 0 .. m /\ m \notin 0 .. i
    BY <1>5
  <2>4. 0 .. i # 0 .. m
    BY <2>3
  <2>5. <<0 .. i, 0 .. m>> \in StrictSubsetOrdering(Nat)
    BY <2>2, <2>4 DEF StrictSubsetOrdering
  <2> QED BY <1>3, <1>4, <2>1, <2>5
<1> QED
  BY <1>5

\* Min and Max return the least and the greatest of a set of indices.
LEMMA MinOfIndices ==
  ASSUME NEW S \in SUBSET Nat, S # {}
  PROVE  Min(S) \in S /\ \A i \in S : Min(S) <= i
PROOF
<1>1. \E x \in S : \A y \in S : x =< y
  BY LeastNumber
<1> QED
  BY <1>1 DEF Min

\* The greatest, of indices that are bounded.
LEMMA MaxOfIndices ==
  ASSUME NEW n \in Nat, NEW S \in SUBSET Nat, S # {}, \A i \in S : i <= n
  PROVE  Max(S) \in S /\ \A i \in S : i <= Max(S)
PROOF
<1> DEFINE T == {n - i : i \in S}
<1>1. T \in SUBSET Nat
  OBVIOUS
<1>2. PICK s \in S : TRUE
  OBVIOUS
<1>3. n - s \in T
  OBVIOUS
<1>4. PICK t \in T : \A u \in T : t <= u
  BY <1>1, <1>3, LeastNumber
<1>5. PICK m \in S : t = n - m
  OBVIOUS
<1>6. \A i \in S : t <= n - i
  BY <1>4
<1>7. \A i \in S : i <= m
  BY <1>5, <1>6
<1>8. \E x \in S : \A y \in S : x >= y
  BY <1>7
<1> QED
  BY <1>8 DEF Max

\* The loops of the detector find cells of the texture, in order.
LEMMA CellsInOrder ==
  ASSUME NEW n \in Nat, 0 < n, n <= 10000, NEW sums
  PROVE  /\ FirstLit(sums, n) \in 0 .. n - 1
         /\ LastLit(sums, n) \in 0 .. n - 1
         /\ FirstLit(sums, n) <= LastLit(sums, n)
PROOF
<1> DEFINE A == Above(sums, 0, n)
           B == Above(sums, 1, n)
<1> DEFINE m == n - 1
<1>1. m \in Nat /\ 0 .. m \in SUBSET Nat
  OBVIOUS
<1>2. A \in SUBSET (0 .. m) /\ B \in SUBSET (0 .. m)
  BY DEF Above
<1>3. B \subseteq A
  BY DEF Above
<1>4. A # {} => Min(A) \in A /\ \A i \in A : Min(A) <= i
  <2> HIDE DEF A, m
  <2>1. SUFFICES ASSUME A # {} PROVE Min(A) \in A /\ \A i \in A : Min(A) <= i
    OBVIOUS
  <2>2. A \in SUBSET Nat
    BY <1>1, <1>2
  <2> QED BY <2>1, <2>2, MinOfIndices
<1>5. B # {} => Max(B) \in B /\ \A i \in B : i <= Max(B)
  <2> HIDE DEF A, B, m
  <2>1. SUFFICES ASSUME B # {} PROVE Max(B) \in B /\ \A i \in B : i <= Max(B)
    OBVIOUS
  <2>2. m \in Nat /\ B \in SUBSET Nat /\ \A i \in B : i <= m
    BY <1>1, <1>2
  <2> QED BY <2>1, <2>2, MaxOfIndices
<1>6. B = {} => A = {} \/ Min(A) = 0
  <2>1. SUFFICES ASSUME B = {}, A # {} PROVE Min(A) = 0
    OBVIOUS
  <2>2. Min(A) \in A /\ Min(A) \notin B
    BY <1>4, <2>1
  <2> QED BY <2>2 DEF Above
<1>7. FirstLit(sums, n) = IF A = {} THEN 0 ELSE Min(A)
  BY DEF FirstLit
<1>8. LastLit(sums, n) = IF B = {} THEN 0 ELSE Max(B)
  BY DEF LastLit
<1> HIDE DEF A, B
<1>9. CASE B = {}
  BY <1>1, <1>2, <1>4, <1>6, <1>7, <1>8, <1>9
<1>10. CASE B # {}
  <2>1. Max(B) \in B /\ Max(B) \in A /\ A # {}
    BY <1>3, <1>5, <1>10
  <2>2. Min(A) \in A /\ Min(A) <= Max(B)
    BY <1>4, <2>1
  <2>3. FirstLit(sums, n) = Min(A) /\ LastLit(sums, n) = Max(B)
    BY <1>7, <1>8, <1>10, <2>1
  <2>4. Min(A) \in 0 .. n - 1 /\ Max(B) \in 0 .. n - 1
    <3>1. \A i \in A \union B : i \in 0 .. n - 1
      BY <1>2
    <3> QED BY <2>1, <2>2, <3>1
  <2>5. Min(A) <= Max(B) /\ Min(A) \in Int /\ Max(B) \in Int
    BY <2>2, <2>4
  <2> QED BY <2>3, <2>4, <2>5
<1> QED
  BY <1>9, <1>10

\* Multiplication by a positive number keeps the order.
LEMMA Scaled ==
  ASSUME NEW n \in Nat, NEW p \in Int, NEW q \in Int, p <= q
  PROVE  n * p <= n * q
PROOF
<1> DEFINE k == q - p
<1>1. k \in Nat /\ q = p + k
  OBVIOUS
<1> HIDE DEF k
<1>2. n * q = n * p + n * k
  BY <1>1
<1>3. n * k \in Nat
  BY <1>1
<1> QED
  BY <1>2, <1>3

\* Division by the width, whatever it is, keeps three cells apart.
LEMMA ScreenApart ==
  ASSUME NEW n \in Nat, 0 < n, n <= 10000,
         NEW i \in Int, NEW j \in Int, i + 3 <= j, i < n, 2 <= j
  PROVE  /\ Screen(i, n) \in Int /\ Screen(j, n) \in Int
         /\ Screen(i, n) < Screen(j, n)
         /\ Screen(i, n) < One /\ -One < Screen(j, n)
PROOF
<1> DEFINE a == 20000 * i
           b == 20000 * j
           p == a \div n
           q == b \div n
<1>1. p \in Int /\ n * p <= a /\ a < n * p + n
  OBVIOUS
<1>2. q \in Int /\ n * q <= b /\ b < n * q + n
  OBVIOUS
<1>3. Screen(i, n) = p - 10000 /\ Screen(j, n) = q - 10000
  BY DEF Screen, One
<1>4. a \in Int /\ b \in Int /\ n \in Nat /\ 0 < n
  OBVIOUS
<1>5. a + n <= b /\ a < n * 20000 /\ n < b
  OBVIOUS
<1> HIDE DEF a, b, p, q
<1>6. p < q
  <2>1. SUFFICES ASSUME q <= p PROVE FALSE
    BY <1>1, <1>2
  <2>2. n * q <= n * p
    BY <1>1, <1>2, <1>4, <2>1, Scaled
  <2> DEFINE u == n * q
             v == n * p
  <2>3. u \in Int /\ v \in Int /\ u <= v /\ v <= a /\ b < u + n
    BY <1>1, <1>2, <1>4, <2>2
  <2> HIDE DEF u, v
  <2> QED BY <1>4, <1>5, <2>3
<1>7. p < 20000
  <2>1. SUFFICES ASSUME 20000 <= p PROVE FALSE
    BY <1>1
  <2>2. n * 20000 <= n * p
    BY <1>1, <1>4, <2>1, Scaled
  <2> DEFINE u == n * 20000
             v == n * p
  <2>3. u \in Int /\ v \in Int /\ u <= v /\ v <= a /\ a < u
    BY <1>1, <1>4, <1>5, <2>2
  <2> HIDE DEF u, v
  <2> QED BY <1>4, <2>3
<1>8. 0 < q
  <2>1. SUFFICES ASSUME q <= 0 PROVE FALSE
    BY <1>2
  <2>2. n * q <= n * 0
    BY <1>2, <1>4, <2>1, Scaled
  <2> DEFINE u == n * q
  <2>3. u \in Int /\ u <= 0 /\ b < u + n
    BY <1>2, <1>4, <2>2
  <2> HIDE DEF u
  <2> QED BY <1>4, <1>5, <2>3
<1> QED
  BY <1>1, <1>2, <1>3, <1>6, <1>7, <1>8 DEF One

\* One side of a detected field: inside the screen, and not empty.
OpenSide(low, high) ==
  low \in Int /\ high \in Int /\ -One <= low /\ low < high /\ high <= One

\* A detected side is open and on the screen, bars and clipping included.
LEMMA SideOpen ==
  ASSUME NEW n \in Nat, 0 < n, n <= 10000, NEW sums
  PROVE  OpenSide(Side(sums, n).low, Side(sums, n).high)
PROOF
<1> DEFINE a == Screen(FirstLit(sums, n) - 1, n)
           b == Screen(LastLit(sums, n) + 2, n)
<1>1. a \in Int /\ b \in Int /\ a < b /\ a < One /\ -One < b
  <2>1. FirstLit(sums, n) \in 0 .. n - 1 /\ LastLit(sums, n) \in 0 .. n - 1
        /\ FirstLit(sums, n) <= LastLit(sums, n)
    BY CellsInOrder
  <2> DEFINE i == FirstLit(sums, n) - 1
             j == LastLit(sums, n) + 2
  <2>2. i \in Int /\ j \in Int /\ i + 3 <= j /\ i < n /\ 2 <= j
    BY <2>1
  <2> HIDE DEF i, j
  <2>3. /\ Screen(i, n) \in Int /\ Screen(j, n) \in Int
        /\ Screen(i, n) < Screen(j, n)
        /\ Screen(i, n) < One /\ -One < Screen(j, n)
    BY <2>2, ScreenApart
  <2> QED BY <2>3 DEF i, j
<1>2. Side(sums, n).low = IF Lower(a, b) < -One THEN -One ELSE Lower(a, b)
  BY DEF Side
<1>3. Side(sums, n).high = IF Upper(a, b) > One THEN One ELSE Upper(a, b)
  BY DEF Side
<1> HIDE DEF a, b
<1>4. Lower(a, b) \in Int /\ Lower(a, b) <= a
  BY <1>1 DEF Lower
<1>5. Upper(a, b) \in Int /\ b <= Upper(a, b)
  BY <1>1 DEF Upper
<1> QED
  BY <1>1, <1>2, <1>3, <1>4, <1>5 DEF OpenSide, One

\* What the detector finds is a record of two open sides.
LEMMA DetectOpen ==
  ASSUME NEW p
  PROVE  /\ OpenSide(Detected(p).xmin, Detected(p).xmax)
         /\ OpenSide(Detected(p).ymin, Detected(p).ymax)
PROOF
<1>1. Detected(p) = Detect(p)
  BY DEF Detected, Remembered
<1>2. /\ OpenSide(Side(ColumnSums(p), Width).low, Side(ColumnSums(p), Width).high)
      /\ OpenSide(Side(RowSums(p), Height).low, Side(RowSums(p), Height).high)
  <2>1. Width \in Nat /\ 0 < Width /\ Width <= 10000
    BY SizeAssumption
  <2>2. Height \in Nat /\ 0 < Height /\ Height <= 10000
    BY SizeAssumption
  <2> QED BY <2>1, <2>2, SideOpen
<1>3. /\ Detect(p).xmin = Side(ColumnSums(p), Width).low
      /\ Detect(p).xmax = Side(ColumnSums(p), Width).high
      /\ Detect(p).ymin = Side(RowSums(p), Height).low
      /\ Detect(p).ymax = Side(RowSums(p), Height).high
  BY DEF Detect
<1> QED
  BY <1>1, <1>2, <1>3

\* The average of two open sides is one.
LEMMA SmoothOpen ==
  ASSUME NEW a, NEW b, NEW c, NEW d, OpenSide(a, b), OpenSide(c, d)
  PROVE  OpenSide(Smooth(a, c), Smooth(b, d))
PROOF
  BY DEF OpenSide, Smooth, One

\* The field analysis.cpp starts with is open (analysis.h:6-13).
LEMMA FieldInvInit == Init => FieldInv
PROOF
  BY DEF Init, FieldInit, FieldInv, FieldType, FieldOpen, One

\* No key, no change of the light and no buffer of the detector closes it.
LEMMA FieldInvNext == FieldInv /\ [Next]_vars => FieldInv'
PROOF
<1> SUFFICES ASSUME FieldInv, [Next]_vars PROVE FieldInv'
  OBVIOUS
<1>1. ASSUME UNCHANGED field PROVE FieldInv'
  BY <1>1 DEF FieldInv, FieldType, FieldOpen
<1>2. CASE zoom
  BY <1>1, <1>2 DEF zoom, Show
<1>3. CASE Flicker
  BY <1>1, <1>3 DEF Flicker, Show
<1>4. CASE demo
  BY <1>1, <1>4 DEF demo, fieldVars
<1>5. CASE process_field_buffer
  <2> DEFINE d == Detected(picture)
  <2>1. OpenSide(field.xmin, field.xmax) /\ OpenSide(field.ymin, field.ymax)
    BY DEF FieldInv, FieldType, FieldOpen, OpenSide
  <2>2. OpenSide(d.xmin, d.xmax) /\ OpenSide(d.ymin, d.ymax)
    BY DetectOpen
  <2>5. field' = [xmin |-> Smooth(field.xmin, d.xmin), xmax |-> Smooth(field.xmax, d.xmax),
                  ymin |-> Smooth(field.ymin, d.ymin), ymax |-> Smooth(field.ymax, d.ymax)]
    BY <1>5 DEF process_field_buffer, analysis_process_field_buffer
  <2> HIDE DEF d
  <2>6. /\ OpenSide(Smooth(field.xmin, d.xmin), Smooth(field.xmax, d.xmax))
        /\ OpenSide(Smooth(field.ymin, d.ymin), Smooth(field.ymax, d.ymax))
    BY <2>1, <2>2, SmoothOpen
  <2> QED BY <2>5, <2>6 DEF OpenSide, FieldInv, FieldType, FieldOpen
<1>6. CASE UNCHANGED vars
  BY <1>1, <1>6 DEF vars, fieldVars
<1> QED
  BY <1>2, <1>3, <1>4, <1>5, <1>6 DEF Next

\* The field on the screen is open in every reachable state, for textures of
\* every size, tables, bars, noise, crops and light (analysis.cpp:411-574).
THEOREM FieldAlwaysOpen == Spec => []FieldOpen
PROOF
<1>1. FieldInv => FieldOpen
  BY DEF FieldInv
<1> QED
  BY FieldInvInit, FieldInvNext, <1>1, PTL DEF Spec

-----------------------------------------------------------------------------
(* The field comes to rest                                                  *)

\* How far a side can be from where the detector sees it, after so many buffers
\* of one picture: each leaves four fifths of the distance, rounded, so the
\* first is the whole screen and the last stays.
Distances == <<20000, 16001, 12802, 10243, 8196, 6558, 5248,
               4200, 3361, 2690, 2153, 1724, 1380, 1105, 885, 709, 568>>
Distance(k) == Distances[IF k <= 16 THEN k + 1 ELSE 17]
Within(a, b, d) == a - d <= b /\ b <= a + d

\* The field is as near to what the detector finds as the buffers since the
\* picture changed allow.
Follows(f, d, k) ==
  /\ Within(d.xmin, f.xmin, Distance(k)) /\ Within(d.xmax, f.xmax, Distance(k))
  /\ Within(d.ymin, f.ymin, Distance(k)) /\ Within(d.ymax, f.ymax, Distance(k))
RestInv == FieldInv /\ rest \in 0 .. Settled /\ Follows(field, Detected(picture), rest)

\* After Settled buffers of one picture the field is what the detector finds in
\* it, to the tolerance FieldTracksTable allows.
FieldSettles ==
  rest = Settled =>
    LET d == Detected(picture)
    IN  /\ Within(d.xmin, field.xmin, Tolerance) /\ Within(d.xmax, field.xmax, Tolerance)
        /\ Within(d.ymin, field.ymin, Tolerance) /\ Within(d.ymax, field.ymax, Tolerance)

\* One more buffer.
LEMMA DistanceShrinks ==
  ASSUME NEW k \in Nat
  PROVE  /\ Distance(k) \in Nat /\ Distance(k + 1) \in Nat
         /\ 4 * Distance(k) + 4 <= 5 * Distance(k + 1)
PROOF
<1>1. CASE k \in 0 .. 7
  BY <1>1 DEF Distance, Distances
<1>2. CASE k \in 8 .. 15
  BY <1>2 DEF Distance, Distances
<1>3. CASE 16 <= k
  BY <1>3 DEF Distance, Distances
<1> QED
  BY <1>1, <1>2, <1>3

\* The average is nearer to the new value, but for the rounding.
LEMMA SmoothNears ==
  ASSUME NEW a \in Int, NEW b \in Int, NEW d \in Nat, NEW e \in Nat,
         Within(b, a, d), 4 * d + 4 <= 5 * e
  PROVE  Within(b, Smooth(a, b), e)
PROOF
  BY DEF Within, Smooth

\* On the screen nothing is farther than its width.
LEMMA AcrossScreen ==
  ASSUME NEW a, NEW b, NEW c, NEW d, OpenSide(a, b), OpenSide(c, d)
  PROVE  Within(c, a, Distance(0)) /\ Within(d, b, Distance(0))
PROOF
<1>1. Distance(0) = 20000
  BY DEF Distance, Distances
<1> QED
  BY <1>1 DEF OpenSide, One, Within

\* The sides of the field, and those the detector finds.
LEMMA SidesOpen ==
  ASSUME FieldInv, NEW p
  PROVE  /\ OpenSide(field.xmin, field.xmax) /\ OpenSide(field.ymin, field.ymax)
         /\ OpenSide(Detected(p).xmin, Detected(p).xmax)
         /\ OpenSide(Detected(p).ymin, Detected(p).ymax)
PROOF
<1>1. OpenSide(field.xmin, field.xmax) /\ OpenSide(field.ymin, field.ymax)
  BY DEF FieldInv, FieldType, FieldOpen, OpenSide
<1> QED
  BY <1>1, DetectOpen

LEMMA FollowsFromAnywhere ==
  ASSUME FieldInv, NEW p
  PROVE  Follows(field, Detected(p), 0)
PROOF
<1>1. /\ Within(Detected(p).xmin, field.xmin, Distance(0))
      /\ Within(Detected(p).xmax, field.xmax, Distance(0))
  BY SidesOpen, AcrossScreen
<1>2. /\ Within(Detected(p).ymin, field.ymin, Distance(0))
      /\ Within(Detected(p).ymax, field.ymax, Distance(0))
  BY SidesOpen, AcrossScreen
<1> QED
  BY <1>1, <1>2 DEF Follows

\* A buffer of the detector brings each side nearer.
LEMMA FollowsCloser ==
  ASSUME FieldInv, NEW k \in Nat, Follows(field, Detected(picture), k),
         analysis_process_field_buffer
  PROVE  Follows(field', Detected(picture), k + 1)
PROOF
<1> DEFINE d == Detected(picture)
           n == Distance(k)
           m == Distance(k + 1)
<1>1. /\ field.xmin \in Int /\ field.xmax \in Int /\ field.ymin \in Int /\ field.ymax \in Int
      /\ d.xmin \in Int /\ d.xmax \in Int /\ d.ymin \in Int /\ d.ymax \in Int
  BY SidesOpen DEF OpenSide
<1>2. n \in Nat /\ m \in Nat /\ 4 * n + 4 <= 5 * m
  BY DistanceShrinks
<1>3. /\ Within(d.xmin, field.xmin, n) /\ Within(d.xmax, field.xmax, n)
      /\ Within(d.ymin, field.ymin, n) /\ Within(d.ymax, field.ymax, n)
  BY DEF Follows
<1>4. field' = [xmin |-> Smooth(field.xmin, d.xmin), xmax |-> Smooth(field.xmax, d.xmax),
                ymin |-> Smooth(field.ymin, d.ymin), ymax |-> Smooth(field.ymax, d.ymax)]
  BY DEF analysis_process_field_buffer
<1>5. SUFFICES /\ Within(d.xmin, field'.xmin, m) /\ Within(d.xmax, field'.xmax, m)
               /\ Within(d.ymin, field'.ymin, m) /\ Within(d.ymax, field'.ymax, m)
  BY DEF Follows
<1> HIDE DEF d, n, m
<1>6. /\ Within(d.xmin, Smooth(field.xmin, d.xmin), m)
      /\ Within(d.xmax, Smooth(field.xmax, d.xmax), m)
      /\ Within(d.ymin, Smooth(field.ymin, d.ymin), m)
      /\ Within(d.ymax, Smooth(field.ymax, d.ymax), m)
  BY <1>1, <1>2, <1>3, SmoothNears
<1> QED
  BY <1>4, <1>6

LEMMA RestInit == Init => RestInv
PROOF
<1> SUFFICES ASSUME Init PROVE RestInv
  OBVIOUS
<1>1. FieldInv
  BY FieldInvInit
<1>2. rest = 0 /\ rest \in 0 .. Settled
  BY SettledAssumption DEF Init, FieldInit
<1>3. Follows(field, Detected(picture), 0)
  BY <1>1, FollowsFromAnywhere
<1> QED
  BY <1>1, <1>2, <1>3 DEF RestInv

LEMMA RestNext == 16 <= Settled /\ RestInv /\ [Next]_vars => RestInv'
PROOF
<1> SUFFICES ASSUME 16 <= Settled, RestInv, [Next]_vars PROVE RestInv'
  OBVIOUS
<1>1. FieldInv /\ FieldInv'
  BY FieldInvNext DEF RestInv
<1>2. rest \in 0 .. Settled /\ Follows(field, Detected(picture), rest)
  BY DEF RestInv
<1>3. ASSUME NEW p, Show(p) PROVE RestInv'
  <2>1. CASE p = picture
    <3>1. UNCHANGED <<field, picture, rest>>
      BY <1>3, <2>1 DEF Show
    <3> QED BY <1>1, <1>2, <3>1 DEF RestInv
  <2>2. CASE p # picture
    <3>1. rest' = 0 /\ picture' = p /\ field' = field
      BY <1>3, <2>2 DEF Show
    <3>2. Follows(field, Detected(p), 0)
      BY <1>1, FollowsFromAnywhere
    <3> QED BY <1>1, <3>1, <3>2, SettledAssumption DEF RestInv
  <2> QED BY <2>1, <2>2
<1>4. ASSUME UNCHANGED fieldVars PROVE RestInv'
  BY <1>1, <1>2, <1>4 DEF RestInv, fieldVars
<1>5. CASE process_field_buffer
  <2>1. /\ picture' = picture /\ rest' = IF rest < Settled THEN rest + 1 ELSE rest
        /\ Follows(field', Detected(picture), rest + 1)
    BY <1>1, <1>2, <1>5, FollowsCloser, SettledAssumption
       DEF process_field_buffer, analysis_process_field_buffer
  <2>2. rest' \in 0 .. Settled /\ Distance(rest') = Distance(rest + 1)
    BY <1>2, <2>1, SettledAssumption DEF Distance
  <2>3. Follows(field', Detected(picture), rest')
    BY <2>1, <2>2 DEF Follows
  <2> QED BY <1>1, <2>1, <2>2, <2>3 DEF RestInv
<1>6. CASE zoom
  BY <1>3, <1>6 DEF zoom
<1>7. CASE Flicker
  BY <1>3, <1>7 DEF Flicker
<1>8. CASE demo
  BY <1>4, <1>8 DEF demo
<1>9. CASE UNCHANGED vars
  BY <1>4, <1>9 DEF vars
<1> QED
  BY <1>5, <1>6, <1>7, <1>8, <1>9 DEF Next

\* Sixteen buffers of the same picture bring the field to what the detector
\* finds in it, wherever the views before had left it: for every picture, crop
\* and texture size (analysis.cpp:560-573).
THEOREM FieldComesToRest == 16 <= Settled => (Spec => []FieldSettles)
PROOF
<1> SUFFICES ASSUME 16 <= Settled PROVE Spec => []FieldSettles
  OBVIOUS
<1>1. RestInv => FieldSettles
  <2> SUFFICES ASSUME RestInv, rest = Settled PROVE FieldSettles
    BY DEF FieldSettles
  <2>1. Follows(field, Detected(picture), Settled)
    BY DEF RestInv
  <2>2. Distance(Settled) \in 0 .. Tolerance
    BY SettledAssumption DEF Distance, Distances, Tolerance
  <2>3. /\ OpenSide(field.xmin, field.xmax) /\ OpenSide(field.ymin, field.ymax)
        /\ OpenSide(Detected(picture).xmin, Detected(picture).xmax)
        /\ OpenSide(Detected(picture).ymin, Detected(picture).ymax)
    BY SidesOpen DEF RestInv
  <2>4. ASSUME NEW a \in Int, NEW b \in Int, Within(a, b, Distance(Settled))
        PROVE  Within(a, b, Tolerance)
    BY <2>2, <2>4 DEF Within, Tolerance
  <2> QED BY <2>1, <2>3, <2>4 DEF Follows, FieldSettles, OpenSide
<1>2. RestInv /\ [Next]_vars => RestInv'
  BY RestNext
<1> QED
  BY RestInit, <1>1, <1>2, PTL DEF Spec

-----------------------------------------------------------------------------
(* The demo mode                                                            *)

\* The cycles of update_cycle_parameter go through settings of their own, each
\* back to what it was at first.
LEMMA CycleEntries ==
  ASSUME NEW p \in 0 .. 7
  PROVE  /\ Cycle[p + 1].setting =
              <<"sharpness", "contrast", "brightness", "saturation", "ev", "exposure",
                "awb", "imagefx">>[p + 1]
         /\ Cycle[p + 1].min \in Int /\ Cycle[p + 1].increment \in Int
         /\ Cycle[p + 1].default = Defaults[Cycle[p + 1].setting]
PROOF
<1>1. \/ p = 0 \/ p = 1 \/ p = 2 \/ p = 3 \/ p = 4 \/ p = 5 \/ p = 6 \/ p = 7
  OBVIOUS
<1>2. CASE p = 0
  BY <1>2 DEF Cycle, Cycled, Defaults
<1>3. CASE p = 1
  BY <1>3 DEF Cycle, Cycled, Defaults
<1>4. CASE p = 2
  BY <1>4 DEF Cycle, Cycled, Defaults
<1>5. CASE p = 3
  BY <1>5 DEF Cycle, Cycled, Defaults
<1>6. CASE p = 4
  BY <1>6 DEF Cycle, Cycled, Defaults
<1>7. CASE p = 5
  BY <1>7 DEF Cycle, Cycled, Defaults
<1>8. CASE p = 6
  BY <1>8 DEF Cycle, Cycled, Defaults
<1>9. CASE p = 7
  BY <1>9 DEF Cycle, Cycled, Defaults
<1> QED
  BY <1>1, <1>2, <1>3, <1>4, <1>5, <1>6, <1>7, <1>8, <1>9

\* The names of the settings, and the parameter that cycles through each.
CycledBy ==
  [name \in DOMAIN Defaults |->
     IF name = "sharpness" THEN 0 ELSE IF name = "contrast" THEN 1
     ELSE IF name = "brightness" THEN 2 ELSE IF name = "saturation" THEN 3
     ELSE IF name = "ev" THEN 4 ELSE IF name = "exposure" THEN 5
     ELSE IF name = "awb" THEN 6 ELSE IF name = "imagefx" THEN 7
     ELSE IF name = "colour" THEN 8 ELSE 9]
LEMMA CycleOwns ==
  ASSUME NEW p \in 0 .. 7
  PROVE  Cycle[p + 1].setting \in DOMAIN Defaults /\ CycledBy[Cycle[p + 1].setting] = p
         /\ Cycle[p + 1].setting # "colour"
PROOF
<1>1. DOMAIN Defaults = {"sharpness", "contrast", "brightness", "saturation", "ev",
                         "exposure", "awb", "imagefx", "colour", "rotation", "flips"}
  BY DEF Defaults
<1>2. Cycle[p + 1].setting =
        <<"sharpness", "contrast", "brightness", "saturation", "ev", "exposure",
          "awb", "imagefx">>[p + 1]
  BY CycleEntries
<1>3. \/ p = 0 \/ p = 1 \/ p = 2 \/ p = 3 \/ p = 4 \/ p = 5 \/ p = 6 \/ p = 7
  OBVIOUS
<1> QED
  BY <1>1, <1>2, <1>3 DEF CycledBy
LEMMA SettingOwned ==
  ASSUME NEW p \in 0 .. 9, NEW name \in Settings[p + 1]
  PROVE  name \in DOMAIN Defaults /\ CycledBy[name] = p
PROOF
<1>1. DOMAIN Defaults = {"sharpness", "contrast", "brightness", "saturation", "ev",
                         "exposure", "awb", "imagefx", "colour", "rotation", "flips"}
  BY DEF Defaults
<1>2. \/ p = 0 \/ p = 1 \/ p = 2 \/ p = 3 \/ p = 4 \/ p = 5 \/ p = 6 \/ p = 7 \/ p = 8
      \/ p = 9
  OBVIOUS
<1>3. CASE p \in 0 .. 7
  <2>1. name = <<"sharpness", "contrast", "brightness", "saturation", "ev", "exposure",
                 "awb", "imagefx">>[p + 1]
    BY <1>2, <1>3 DEF Settings
  <2> QED BY <1>1, <1>2, <1>3, <2>1 DEF CycledBy
<1>4. CASE p = 8
  BY <1>1, <1>4 DEF Settings, CycledBy
<1>5. CASE p = 9
  BY <1>1, <1>5 DEF Settings, CycledBy
<1> QED
  BY <1>2, <1>3, <1>4, <1>5

LEMMA CycledOnce ==
  ASSUME NEW p \in 0 .. 7, NEW name \in DOMAIN Defaults, CycledBy[name] = p
  PROVE  name = Cycle[p + 1].setting
PROOF
<1>1. DOMAIN Defaults = {"sharpness", "contrast", "brightness", "saturation", "ev",
                         "exposure", "awb", "imagefx", "colour", "rotation", "flips"}
  BY DEF Defaults
<1>2. Cycle[p + 1].setting =
        <<"sharpness", "contrast", "brightness", "saturation", "ev", "exposure",
          "awb", "imagefx">>[p + 1]
  BY CycleEntries
<1>3. \/ p = 0 \/ p = 1 \/ p = 2 \/ p = 3 \/ p = 4 \/ p = 5 \/ p = 6 \/ p = 7
  OBVIOUS
<1> QED
  BY <1>1, <1>2, <1>3 DEF CycledBy

\* Between two steps of a call, and between two calls: every setting but those
\* of the parameter it is at is at its default if it has been gone through, and
\* what the user gave (u) if not.  The last turn of the orientation relies on
\* the rotation that was undone before the flips.
AsDue(s, name, p, w, u) ==
  IF w \/ CycledBy[name] < p THEN AtDefault(s, name) ELSE s[name] = u[name]
OtherSettings(s, p, w, u) ==
  \A name \in DOMAIN Defaults : CycledBy[name] # p => AsDue(s, name, p, w, u)
DemoState(p, o, s, w, u) ==
  /\ p \in 0 .. 10 /\ o \in Int
  /\ DOMAIN s = DOMAIN Defaults
  /\ OtherSettings(s, p, w, u)
  /\ p = 8 => o \in {Reset, 1, 2}
  /\ p \in {9, 10} => o \in {Reset} \union 1 .. 6
  /\ p = 9 /\ o \in 4 .. 6 => s.rotation = 0
DemoSound(d, w, u) == \E p, o, s : d = At(p, o, s) /\ DemoState(p, o, s, w, u)

\* Each name is cycled by one of the ten parameters.
LEMMA CycledByRange == \A name \in DOMAIN Defaults : CycledBy[name] \in 0 .. 9
PROOF
  BY DEF CycledBy

LEMMA FieldsOfAt ==
  ASSUME NEW p, NEW o, NEW s
  PROVE  At(p, o, s).parameter = p /\ At(p, o, s).option = o /\ At(p, o, s).setting = s
PROOF
  BY DEF At

\* To set a setting of the parameter p leaves those of others as they were.
LEMMA SetSound ==
  ASSUME NEW p, NEW w, NEW u, NEW s, DOMAIN s = DOMAIN Defaults, OtherSettings(s, p, w, u),
         NEW value, NEW name \in DOMAIN Defaults, CycledBy[name] = p
  PROVE  /\ DOMAIN Set(s, name, value) = DOMAIN Defaults
         /\ OtherSettings(Set(s, name, value), p, w, u)
         /\ Set(s, name, value)[name] = value
         /\ \A other \in DOMAIN Defaults \ {name} : Set(s, name, value)[other] = s[other]
PROOF
<1> DEFINE t == Set(s, name, value)
<1>1. /\ DOMAIN t = DOMAIN Defaults /\ t[name] = value
      /\ \A other \in DOMAIN Defaults \ {name} : t[other] = s[other]
  BY DEF Set
<1> HIDE DEF t
<1>2. ASSUME NEW other \in DOMAIN Defaults, CycledBy[other] # p
      PROVE  AsDue(t, other, p, w, u)
  <2>1. t[other] = s[other] /\ AsDue(s, other, p, w, u)
    BY <1>1, <1>2 DEF OtherSettings
  <2>2. AtDefault(s, other) => AtDefault(t, other)
    BY <2>1 DEF AtDefault
  <2> QED BY <2>1, <2>2 DEF AsDue
<1>3. OtherSettings(t, p, w, u)
  BY <1>2 DEF OtherSettings
<1> QED
  BY <1>1, <1>3 DEF t

\* Once the settings of p are at their defaults, p has been gone through.
LEMMA PassedOn ==
  ASSUME NEW p \in 0 .. 9, NEW w \in BOOLEAN, NEW u, NEW s, OtherSettings(s, p, w, u),
         \A name \in DOMAIN Defaults : CycledBy[name] = p => AtDefault(s, name)
  PROVE  OtherSettings(s, p + 1, w, u)
PROOF
<1> SUFFICES ASSUME NEW name \in DOMAIN Defaults, CycledBy[name] # p + 1
             PROVE  AsDue(s, name, p + 1, w, u)
  BY DEF OtherSettings
<1>0. CycledBy[name] \in 0 .. 9
  BY CycledByRange
<1>1. CASE CycledBy[name] = p
  BY <1>1 DEF AsDue
<1>2. CASE CycledBy[name] # p
  <2>1. AsDue(s, name, p, w, u)
    BY <1>2 DEF OtherSettings
  <2>2. CycledBy[name] < p + 1 <=> CycledBy[name] < p
    BY <1>0, <1>2
  <2> QED BY <2>1, <2>2 DEF AsDue
<1> QED
  BY <1>1, <1>2

LEMMA CycleSound ==
  ASSUME NEW p \in 0 .. 7, NEW o, NEW s, NEW w \in BOOLEAN, NEW u, DemoState(p, o, s, w, u)
  PROVE  DemoSound(update_cycle_parameter(At(p, o, s)), w, u)
PROOF
<1> DEFINE c == Cycle[p + 1]
           next == IF o = Reset THEN c.min ELSE o + c.increment
           back == Set(s, c.setting, c.default)
           other == Set(s, c.setting, next)
<1>1. /\ c.setting \in DOMAIN Defaults \ {"colour"} /\ CycledBy[c.setting] = p
      /\ c.default = Defaults[c.setting] /\ next \in Int
  BY CycleEntries, CycleOwns DEF DemoState
<1>2. update_cycle_parameter(At(p, o, s)) =
        IF next > c.max THEN At(p + 1, Reset, back) ELSE At(p, next, other)
  BY FieldsOfAt DEF update_cycle_parameter
<1>3. DOMAIN s = DOMAIN Defaults /\ OtherSettings(s, p, w, u)
  BY DEF DemoState
<1>4. Reset \in Int
  BY DEF Reset
<1> HIDE DEF c, next
<1>5. DemoState(p + 1, Reset, back, w, u)
  <2>1. DOMAIN back = DOMAIN Defaults /\ OtherSettings(back, p, w, u) /\ back[c.setting] = c.default
    BY <1>1, <1>3, SetSound
  <2> HIDE DEF back
  <2>2. ASSUME NEW name \in DOMAIN Defaults, CycledBy[name] = p PROVE AtDefault(back, name)
    <3>1. name = c.setting
      BY <2>2, CycledOnce DEF c
    <3> QED BY <1>1, <2>1, <3>1 DEF AtDefault
  <2>3. OtherSettings(back, p + 1, w, u)
    BY <2>1, <2>2, PassedOn
  <2> QED BY <1>4, <2>1, <2>3 DEF DemoState, Reset
<1>6. DemoState(p, next, other, w, u)
  <2>1. DOMAIN other = DOMAIN Defaults /\ OtherSettings(other, p, w, u)
    BY <1>1, <1>3, SetSound
  <2> HIDE DEF other
  <2> QED BY <1>1, <2>1 DEF DemoState
<1> QED
  BY <1>2, <1>5, <1>6 DEF DemoSound

LEMMA ColoursSound ==
  ASSUME NEW o, NEW s, NEW w \in BOOLEAN, NEW u, DemoState(8, o, s, w, u)
  PROVE  DemoSound(Colours(At(8, o, s)), w, u)
PROOF
<1> DEFINE coloured(a, b) == Set(s, "colour", [enable |-> 0, u |-> a, v |-> b])
<1>1. DOMAIN s = DOMAIN Defaults /\ OtherSettings(s, 8, w, u) /\ o \in {Reset, 1, 2}
      /\ "colour" \in DOMAIN Defaults /\ CycledBy["colour"] = 8
  BY DEF DemoState, Defaults, CycledBy
<1>2. At(8, o, s).option = o /\ At(8, o, s).parameter = 8 /\ At(8, o, s).setting = s
  BY FieldsOfAt
<1>3. ASSUME NEW a, NEW b
      PROVE  DOMAIN coloured(a, b) = DOMAIN Defaults /\ OtherSettings(coloured(a, b), 8, w, u)
             /\ OtherSettings(coloured(a, b), 9, w, u)
  <2> DEFINE t == coloured(a, b)
  <2>1. t.colour.enable = 0
    BY <1>1 DEF Set
  <2>2. DOMAIN t = DOMAIN Defaults /\ OtherSettings(t, 8, w, u)
    BY <1>1, SetSound
  <2> HIDE DEF t
  <2>3. ASSUME NEW name \in DOMAIN Defaults, CycledBy[name] = 8 PROVE AtDefault(t, name)
    <3>1. name = "colour"
      BY <2>3 DEF CycledBy, Defaults
    <3> QED BY <2>1, <3>1 DEF AtDefault
  <2>4. OtherSettings(t, 8 + 1, w, u)
    BY <2>2, <2>3, PassedOn
  <2> QED BY <2>2, <2>4 DEF t
<1>4. Reset \in Int /\ Reset # 1 /\ Reset # 2
  BY DEF Reset
<1>5. CASE o = Reset
  <2>1. Colours(At(8, o, s)) = At(8, 1, coloured(128, 128))
    BY <1>2, <1>4, <1>5 DEF Colours
  <2> HIDE DEF coloured
  <2> QED BY <1>3, <2>1 DEF DemoSound, DemoState
<1>6. CASE o = 1
  <2>1. Colours(At(8, o, s)) = At(8, 2, coloured(100, 200))
    BY <1>2, <1>4, <1>6 DEF Colours
  <2> HIDE DEF coloured
  <2> QED BY <1>3, <2>1 DEF DemoSound, DemoState
<1>7. CASE o = 2
  <2>1. Colours(At(8, o, s)) = At(9, Reset, coloured(0, 0))
    BY <1>2, <1>4, <1>7 DEF Colours
  <2> HIDE DEF coloured
  <2> QED BY <1>3, <1>4, <2>1 DEF DemoSound, DemoState, Reset
<1> QED
  BY <1>1, <1>5, <1>6, <1>7

LEMMA OrientationSound ==
  ASSUME NEW o, NEW s, NEW w \in BOOLEAN, NEW u, DemoState(9, o, s, w, u)
  PROVE  DemoSound(Orientation(At(9, o, s)), w, u)
PROOF
<1>1. /\ DOMAIN s = DOMAIN Defaults /\ OtherSettings(s, 9, w, u) /\ o \in {Reset} \union 1 .. 6
      /\ o \in 4 .. 6 => s.rotation = 0
  BY DEF DemoState
<1>2. At(9, o, s).option = o /\ At(9, o, s).parameter = 9 /\ At(9, o, s).setting = s
  BY FieldsOfAt
<1>3. ASSUME NEW t, DOMAIN t = DOMAIN Defaults, OtherSettings(t, 9, w, u), NEW angle
      PROVE  /\ DOMAIN Rotated(t, angle) = DOMAIN Defaults /\ OtherSettings(Rotated(t, angle), 9, w, u)
             /\ Rotated(t, angle).rotation = angle
  <2>1. "rotation" \in DOMAIN Defaults /\ CycledBy["rotation"] = 9
    BY DEF Defaults, CycledBy
  <2> QED BY <1>3, <2>1, SetSound DEF Rotated
<1>4. ASSUME NEW t, DOMAIN t = DOMAIN Defaults, OtherSettings(t, 9, w, u), NEW flips
      PROVE  /\ DOMAIN Flipped(t, flips) = DOMAIN Defaults /\ OtherSettings(Flipped(t, flips), 9, w, u)
             /\ Flipped(t, flips).rotation = t.rotation /\ Flipped(t, flips).flips = flips
  <2>1. /\ "flips" \in DOMAIN Defaults /\ CycledBy["flips"] = 9
        /\ "rotation" \in DOMAIN Defaults \ {"flips"}
    BY DEF Defaults, CycledBy
  <2> QED BY <1>4, <2>1, SetSound DEF Flipped
<1>5. ASSUME NEW q \in 1 .. 6, NEW t, DOMAIN t = DOMAIN Defaults, OtherSettings(t, 9, w, u),
             q \in 4 .. 6 => t.rotation = 0
      PROVE  DemoSound(At(9, q, t), w, u)
  <2>1. DemoState(9, q, t, w, u)
    BY <1>5 DEF DemoState
  <2> QED BY <2>1 DEF DemoSound
<1>6. /\ Reset # 1 /\ Reset # 2 /\ Reset # 3 /\ Reset # 4 /\ Reset # 5 /\ Reset # 6
      /\ Reset \in Int
  BY DEF Reset
<1>7. CASE o = Reset
  <2>1. Orientation(At(9, o, s)) = At(9, 1, Rotated(s, 90))
    BY <1>2, <1>6, <1>7 DEF Orientation
  <2>2. DOMAIN Rotated(s, 90) = DOMAIN Defaults /\ OtherSettings(Rotated(s, 90), 9, w, u)
    BY <1>1, <1>3
  <2> QED BY <1>5, <2>1, <2>2
<1>8. CASE o = 1
  <2>1. Orientation(At(9, o, s)) = At(9, 2, Rotated(s, 180))
    BY <1>2, <1>6, <1>8 DEF Orientation
  <2>2. DOMAIN Rotated(s, 180) = DOMAIN Defaults /\ OtherSettings(Rotated(s, 180), 9, w, u)
    BY <1>1, <1>3
  <2> QED BY <1>5, <2>1, <2>2
<1>9. CASE o = 2
  <2>1. Orientation(At(9, o, s)) = At(9, 3, Rotated(s, 270))
    BY <1>2, <1>6, <1>9 DEF Orientation
  <2>2. DOMAIN Rotated(s, 270) = DOMAIN Defaults /\ OtherSettings(Rotated(s, 270), 9, w, u)
    BY <1>1, <1>3
  <2> QED BY <1>5, <2>1, <2>2
<1>10. CASE o = 3
  <2> DEFINE t == Rotated(s, 0)
             f == Flipped(t, {"h"})
  <2>1. Orientation(At(9, o, s)) = At(9, 4, f)
    BY <1>2, <1>6, <1>10 DEF Orientation
  <2>2. DOMAIN t = DOMAIN Defaults /\ OtherSettings(t, 9, w, u) /\ t.rotation = 0
    BY <1>1, <1>3
  <2> HIDE DEF t
  <2>3. DOMAIN f = DOMAIN Defaults /\ OtherSettings(f, 9, w, u) /\ f.rotation = 0
    BY <1>4, <2>2
  <2> HIDE DEF f
  <2> QED BY <1>5, <2>1, <2>3
<1>11. CASE o = 4
  <2> DEFINE f == Flipped(s, {"v"})
  <2>1. Orientation(At(9, o, s)) = At(9, 5, f)
    BY <1>2, <1>6, <1>11 DEF Orientation
  <2>2. DOMAIN f = DOMAIN Defaults /\ OtherSettings(f, 9, w, u) /\ f.rotation = 0
    BY <1>1, <1>4, <1>11
  <2> HIDE DEF f
  <2> QED BY <1>5, <2>1, <2>2
<1>12. CASE o = 5
  <2> DEFINE f == Flipped(s, {"h", "v"})
  <2>1. Orientation(At(9, o, s)) = At(9, 6, f)
    BY <1>2, <1>6, <1>12 DEF Orientation
  <2>2. DOMAIN f = DOMAIN Defaults /\ OtherSettings(f, 9, w, u) /\ f.rotation = 0
    BY <1>1, <1>4, <1>12
  <2> HIDE DEF f
  <2> QED BY <1>5, <2>1, <2>2
<1>13. CASE o = 6
  <2> DEFINE f == Flipped(s, {})
  <2>1. Orientation(At(9, o, s)) = At(10, Reset, f)
    BY <1>2, <1>6, <1>13 DEF Orientation
  <2>2. DOMAIN f = DOMAIN Defaults /\ OtherSettings(f, 9, w, u) /\ f.rotation = 0 /\ f.flips = {}
    BY <1>1, <1>4, <1>13
  <2> HIDE DEF f
  <2>3. ASSUME NEW name \in DOMAIN Defaults, CycledBy[name] = 9 PROVE AtDefault(f, name)
    <3>1. name \in {"rotation", "flips"}
      BY <2>3 DEF CycledBy, Defaults
    <3>2. Defaults["rotation"] = 0 /\ Defaults["flips"] = {}
      BY DEF Defaults
    <3> QED BY <2>2, <3>1, <3>2 DEF AtDefault
  <2>4. OtherSettings(f, 9 + 1, w, u)
    BY <2>2, <2>3, PassedOn
  <2>5. DemoState(10, Reset, f, w, u)
    BY <1>6, <2>2, <2>4 DEF DemoState
  <2> QED BY <2>1, <2>5 DEF DemoSound
<1> QED
  BY <1>1, <1>7, <1>8, <1>9, <1>10, <1>11, <1>12, <1>13

\* One call goes through all of them; the last one ends the round.
LEMMA StepsSound ==
  ASSUME NEW d, NEW w \in BOOLEAN, NEW u, DemoSound(d, w, u)
  PROVE  /\ DemoSound(Chain(d), w, u) /\ DemoSound(Effects(d), w, u)
         /\ DemoSound(Colour(d), w, u) /\ DemoSound(Turned(d), w, u)
         /\ DemoSound(Again(d), w \/ d.parameter = 10, u) /\ Again(d).parameter \in 0 .. 9
PROOF
<1>1. PICK p, o, s : d = At(p, o, s) /\ DemoState(p, o, s, w, u)
  BY DEF DemoSound
<1>2. d.parameter = p /\ p \in 0 .. 10
  BY <1>1 DEF At, DemoState
<1>3. DemoSound(Chain(d), w, u)
  BY <1>1, <1>2, CycleSound DEF Chain
<1>4. DemoSound(Effects(d), w, u)
  BY <1>1, <1>2, CycleSound DEF Effects
<1>5. DemoSound(Colour(d), w, u)
  BY <1>1, <1>2, ColoursSound DEF Colour
<1>6. DemoSound(Turned(d), w, u)
  BY <1>1, <1>2, OrientationSound DEF Turned
<1> DEFINE e == w \/ d.parameter = 10
<1>7. DemoSound(Again(d), e, u) /\ Again(d).parameter \in 0 .. 9
  <2>1. CASE p = 10
    <3>1. Again(d) = At(1, o, s)
      BY <1>1, <2>1, FieldsOfAt DEF Again
    <3>2. ASSUME NEW name \in DOMAIN Defaults PROVE AtDefault(s, name)
      <4>1. CycledBy[name] # 10 /\ CycledBy[name] < 10
        BY CycledByRange
      <4>2. AsDue(s, name, 10, w, u)
        BY <1>1, <2>1, <4>1 DEF DemoState, OtherSettings
      <4> QED BY <4>1, <4>2 DEF AsDue
    <3>3. e
      BY <1>2, <2>1
    <3> HIDE DEF e
    <3>4. OtherSettings(s, 1, e, u)
      BY <3>2, <3>3 DEF OtherSettings, AsDue
    <3>5. /\ 1 \in 0 .. 10 /\ 1 # 8 /\ 1 # 9 /\ 1 \notin {9, 10}
          /\ o \in Int /\ DOMAIN s = DOMAIN Defaults
      BY <1>1 DEF DemoState
    <3>6. DemoState(1, o, s, e, u)
      BY <3>4, <3>5, Zenon DEF DemoState
    <3>7. DemoSound(Again(d), e, u)
      BY <3>1, <3>6, Zenon DEF DemoSound
    <3>8. Again(d).parameter = 1
      BY <3>1, FieldsOfAt
    <3> QED BY <3>7, <3>8
  <2>2. CASE p # 10
    <3>1. Again(d) = d /\ d.parameter \in 0 .. 9
      BY <1>2, <2>2 DEF Again
    <3>2. e = w
      BY <1>2, <2>2
    <3> HIDE DEF e
    <3>3. DemoSound(d, e, u)
      BY <3>2, Zenon
    <3> QED BY <3>1, <3>3
  <2> QED BY <2>1, <2>2
<1> QED
  BY <1>3, <1>4, <1>5, <1>6, <1>7

DemoInv ==
  /\ wrapped \in BOOLEAN /\ parameter # 10
  /\ DemoState(parameter, option, setting, wrapped, given)

LEMMA DemoInvInit == Init => DemoInv
PROOF
<1> SUFFICES ASSUME Init PROVE DemoInv
  OBVIOUS
<1>1. /\ parameter = 0 /\ option = Reset /\ setting = given /\ wrapped = FALSE
      /\ DOMAIN given = DOMAIN Defaults
  BY SettingsAssumption DEF Init, CameraInit
<1>2. OtherSettings(setting, parameter, wrapped, given)
  BY <1>1, CycledByRange DEF OtherSettings, AsDue
<1>3. option \in Int
  BY <1>1 DEF Reset
<1>4. /\ parameter \in 0 .. 10 /\ wrapped \in BOOLEAN
      /\ DOMAIN setting = DOMAIN Defaults
  <2>1. parameter \in 0 .. 10
    BY <1>1
  <2>2. wrapped \in BOOLEAN /\ DOMAIN setting = DOMAIN Defaults
    BY <1>1, Zenon
  <2> QED BY <2>1, <2>2
<1>5. parameter # 8 /\ parameter # 9 /\ parameter \notin {9, 10} /\ parameter # 10
  <2>1. parameter = 0
    BY <1>1
  <2> QED BY <2>1
<1>6. DemoState(parameter, option, setting, wrapped, given)
  BY <1>2, <1>3, <1>4, <1>5, Zenon DEF DemoState
<1> QED
  BY <1>4, <1>5, <1>6, Zenon DEF DemoInv

LEMMA DemoInvNext == DemoInv /\ [Next]_vars => DemoInv'
PROOF
<1> SUFFICES ASSUME DemoInv, [Next]_vars PROVE DemoInv'
  OBVIOUS
<1>1. CASE raspicamcontrol_cycle_test
  <2> DEFINE turned == Turned(Colour(Effects(Chain(Demo))))
             d == Again(turned)
             w == wrapped \/ turned.parameter = 10
  <2>1. /\ parameter' = d.parameter /\ option' = d.option /\ setting' = d.setting
        /\ wrapped' = w /\ given' = given /\ wrapped \in BOOLEAN
    BY <1>1 DEF raspicamcontrol_cycle_test, DemoInv
  <2>2. DemoSound(Demo, wrapped, given)
    BY DEF Demo, DemoSound, DemoInv
  <2>3. DemoSound(Chain(Demo), wrapped, given)
    BY <2>1, <2>2, StepsSound
  <2>4. DemoSound(Effects(Chain(Demo)), wrapped, given)
    BY <2>1, <2>3, StepsSound
  <2>5. DemoSound(Colour(Effects(Chain(Demo))), wrapped, given)
    BY <2>1, <2>4, StepsSound
  <2>6. DemoSound(turned, wrapped, given)
    BY <2>1, <2>5, StepsSound
  <2> HIDE DEF turned
  <2>7. DemoSound(d, w, given) /\ d.parameter \in 0 .. 9 /\ w \in BOOLEAN
    BY <2>1, <2>6, StepsSound
  <2> HIDE DEF d, w
  <2>8. PICK p, o, s : d = At(p, o, s) /\ DemoState(p, o, s, w, given)
    BY <2>7 DEF DemoSound
  <2>9. parameter' = p /\ option' = o /\ setting' = s /\ parameter' # 10
    BY <2>1, <2>7, <2>8, FieldsOfAt
  <2>10. DemoState(parameter', option', setting', wrapped', given')
    BY <2>1, <2>8, <2>9, Zenon
  <2>11. DemoState(parameter, option, setting, wrapped, given)'
    BY <2>10 DEF DemoState, OtherSettings, AsDue, AtDefault, CycledBy, Defaults, Reset, NoColour
  <2>12. wrapped' \in BOOLEAN
    BY <2>1, <2>7, Zenon
  <2> QED BY <2>9, <2>11, <2>12, Zenon DEF DemoInv
<1>2. CASE UNCHANGED cycleVars
  BY <1>2 DEF DemoInv, DemoState, OtherSettings, AsDue, AtDefault, CycledBy, Defaults, Reset,
              NoColour, cycleVars
<1>3. raspicamcontrol_cycle_test \/ UNCHANGED cycleVars
  BY DEF Next, zoom, Flicker, demo, process_field_buffer, vars
<1> QED
  BY <1>1, <1>2, <1>3

\* DemoOverrides of CameraControl, for every choice of settings by the user: after
\* every call what the demo has gone through is at its default, and what it has not
\* reached is as the user gave it (RaspiCamControl.c:259, 267-444).
THEOREM DemoAlwaysOverrides == Spec => []DemoOverrides
PROOF
<1>1. DemoInv => DemoOverrides
  <2> SUFFICES ASSUME DemoInv, NEW p \in 0 .. 9 \ {parameter}, NEW name \in Settings[p + 1]
               PROVE  IF wrapped \/ p < parameter THEN AtDefault(setting, name)
                      ELSE setting[name] = given[name]
    BY DEF DemoOverrides
  <2>1. name \in DOMAIN Defaults /\ CycledBy[name] = p
    BY SettingOwned
  <2>2. OtherSettings(setting, parameter, wrapped, given)
    BY DEF DemoInv, DemoState
  <2> QED BY <2>1, <2>2 DEF OtherSettings, AsDue
<1> QED
  BY <1>1, DemoInvInit, DemoInvNext, PTL DEF Spec

-----------------------------------------------------------------------------
(* The signals of the analysis                                              *)

AnalysisType ==
  /\ frameNumber \in Nat /\ ballMissing \in Nat /\ prevBallFrame \in Nat
  /\ sendSAVE \in Nat /\ sendFAST \in Nat /\ lastGOAL \in Nat
  /\ saveShot \in Nat /\ fastShot \in Nat /\ detected \in Nat
  /\ prevBallFrame <= frameNumber /\ lastGOAL <= frameNumber /\ detected <= frameNumber
  /\ ballCur \in 0 .. HistoryCount - 1
  /\ balls \in [0 .. HistoryCount - 1 -> [bar : 0 .. 8, goal : 0 .. 2, near : BOOLEAN]]

\* A signal that is armed counts the calls since its shot, and no goal was
\* detected since.
Armed(signal, shot) ==
  signal # 0 => detected < shot /\ frameNumber - shot = signal - 1
SignalsArmed == Armed(sendSAVE, saveShot) /\ Armed(sendFAST, fastShot)

\* After a ball in a goal the frames since are the missing ones, and before a
\* goal can be detected none was reported since the ball was seen.
MissingCounted ==
  /\ PrevBall.goal # 0 => frameNumber = prevBallFrame + ballMissing
  /\ ballMissing <= GoalMissing => lastGOAL = 0 \/ lastGOAL < prevBallFrame
SignalInv == AnalysisType /\ SignalsArmed /\ MissingCounted

\* What is in a concatenation is in one of its parts.
LEMMA ElementsOfConcat ==
  ASSUME NEW S, NEW s \in Seq(S), NEW t \in Seq(S)
  PROVE  ToSet(s \o t) = ToSet(s) \union ToSet(t)
PROOF
<1> DEFINE u == s \o t
           m == Len(s)
           n == Len(t)
<1>1. m \in Nat /\ n \in Nat /\ DOMAIN s = 1 .. m /\ DOMAIN t = 1 .. n /\ DOMAIN u = 1 .. m + n
  OBVIOUS
<1>2. \A k \in 1 .. m : u[k] = s[k]
  OBVIOUS
<1>3. \A k \in 1 .. n : u[m + k] = t[k]
  OBVIOUS
<1>4. \A k \in 1 .. m + n : k \notin 1 .. m => k - m \in 1 .. n /\ k = m + (k - m)
  BY <1>1
<1>5. \A k \in 1 .. n : m + k \in 1 .. m + n
  BY <1>1
<1>6. 1 .. m \subseteq 1 .. m + n
  BY <1>1
<1> HIDE DEF u, m, n
<1>7. ASSUME NEW k \in 1 .. m + n PROVE u[k] \in ToSet(s) \union ToSet(t)
  <2>1. CASE k \in 1 .. m
    BY <1>1, <1>2, <2>1 DEF ToSet
  <2>2. CASE k \notin 1 .. m
    <3>1. k - m \in 1 .. n /\ u[k] = t[k - m]
      BY <1>3, <1>4, <2>2
    <3> QED BY <1>1, <3>1 DEF ToSet
  <2> QED BY <2>1, <2>2
<1>8. ASSUME NEW k \in 1 .. n PROVE t[k] \in ToSet(u)
  BY <1>1, <1>3, <1>5, <1>8 DEF ToSet
<1>9. ASSUME NEW k \in 1 .. m PROVE s[k] \in ToSet(u)
  BY <1>1, <1>2, <1>6, <1>9 DEF ToSet
<1> QED
  BY <1>1, <1>7, <1>8, <1>9 DEF ToSet, u

\* What a call sends: signals that are due, the goal it was given, or the
\* maximal speed.
LEMMA SentBy ==
  ASSUME NEW fps, NEW goals, goals = <<>> \/ \E g : goals = <<g>>,
         Finish(goals, fps), NEW i \in DOMAIN sent'
  PROVE  /\ sent'[i].type = "SAVE" =>
              Due(sendSAVE, fps) \/ \E g : goals = <<g>> /\ sent'[i] = g
         /\ sent'[i].type = "FAST" =>
              Due(sendFAST, fps) \/ \E g : goals = <<g>> /\ sent'[i] = g
         /\ sent'[i].type \in {"RG", "BG"} => \E g : goals = <<g>> /\ sent'[i] = g
         /\ sent'[i].type = "MAXSPEED" =>
              sent'[i].value = MaxSpeed(fps) \/ \E g : goals = <<g>> /\ sent'[i] = g
PROOF
<1> DEFINE save == [type |-> "SAVE", value |-> 0]
           fast == [type |-> "FAST", value |-> 0]
           max == [type |-> "MAXSPEED", value |-> MaxSpeed(fps)]
           Sent == {save, fast, max} \union {g \in {goals[1]} : goals # <<>>}
           s1 == IF Due(sendSAVE, fps) THEN <<save>> ELSE <<>>
           s2 == IF Due(sendFAST, fps) THEN <<fast>> ELSE <<>>
           s4 == IF SpeedDue(fps) THEN <<max>> ELSE <<>>
<1>1. sent' = ((s1 \o s2) \o goals) \o s4
  BY DEF Finish, DueSignals
<1>2. s1 \in Seq(Sent) /\ s2 \in Seq(Sent) /\ goals \in Seq(Sent) /\ s4 \in Seq(Sent)
  <2>1. save \in Sent /\ fast \in Sent /\ max \in Sent /\ <<>> \in Seq(Sent)
    OBVIOUS
  <2>2. goals # <<>> => goals = <<goals[1]>> /\ goals[1] \in Sent
    OBVIOUS
  <2> HIDE DEF Sent, save, fast, max
  <2>3. s1 \in Seq(Sent) /\ s2 \in Seq(Sent)
    BY <2>1
  <2>4. s4 \in Seq(Sent)
    BY <2>1
  <2>5. goals \in Seq(Sent)
    <3>1. CASE goals = <<>>
      BY <2>1, <3>1
    <3>2. CASE goals # <<>>
      <4>1. PICK g : goals = <<g>>
        BY <3>2
      <4>2. g \in Sent
        BY <2>2, <3>2, <4>1
      <4> QED BY <4>1, <4>2
    <3> QED BY <3>1, <3>2
  <2> QED BY <2>3, <2>4, <2>5
<1>3. /\ \A j \in DOMAIN s1 : Due(sendSAVE, fps) /\ s1[j] = save
      /\ \A j \in DOMAIN s2 : Due(sendFAST, fps) /\ s2[j] = fast
      /\ \A j \in DOMAIN goals : goals = <<goals[j]>>
      /\ \A j \in DOMAIN s4 : s4[j] = max
  OBVIOUS
<1>4. save.type = "SAVE" /\ fast.type = "FAST" /\ max.type = "MAXSPEED" /\ max.value = MaxSpeed(fps)
  OBVIOUS
<1> HIDE DEF Sent, s1, s2, s4, save, fast, max
<1>5. ToSet(sent') = ToSet(s1) \union ToSet(s2) \union ToSet(goals) \union ToSet(s4)
  <2> DEFINE a == s1 \o s2
             b == a \o goals
  <2>1. a \in Seq(Sent) /\ ToSet(a) = ToSet(s1) \union ToSet(s2)
    BY <1>2, ElementsOfConcat
  <2> HIDE DEF a
  <2>2. b \in Seq(Sent) /\ ToSet(b) = ToSet(a) \union ToSet(goals)
    BY <1>2, <2>1, ElementsOfConcat
  <2>3. sent' = b \o s4
    BY <1>1 DEF a
  <2> HIDE DEF b
  <2>4. ToSet(b \o s4) = ToSet(b) \union ToSet(s4)
    BY <1>2, <2>2, ElementsOfConcat
  <2> QED BY <2>1, <2>2, <2>3, <2>4
<1>6. sent'[i] \in ToSet(s1) \union ToSet(s2) \union ToSet(goals) \union ToSet(s4)
  BY <1>5 DEF ToSet
<1> QED
  BY <1>3, <1>4, <1>6 DEF ToSet


\* A number of frames is a natural number, and no smaller at a higher rate.
LEMMA FramesGrow ==
  ASSUME NEW tenths \in Nat, NEW a \in Nat, NEW b \in Nat, a <= b
  PROVE  Frames(tenths, a) \in Nat /\ Frames(tenths, a) <= Frames(tenths, b)
PROOF
<1> DEFINE p == tenths * a
           q == tenths * b
<1>1. p \in Nat /\ q \in Nat
  OBVIOUS
<1>2. p <= q
  BY Scaled
<1>3. Frames(tenths, a) = p \div 10 /\ Frames(tenths, b) = q \div 10
  BY DEF Frames
<1> HIDE DEF p, q
<1> QED
  BY <1>1, <1>2, <1>3

\* Half a second at the lowest frame rate is no longer than at any other.
LEMMA HalfSecondLeast ==
  ASSUME NEW fps \in FPS
  PROVE  /\ HalfSecond(fps) \in Nat /\ HalfSecond(Min(FPS)) \in Nat
         /\ HalfSecond(Min(FPS)) <= HalfSecond(fps)
PROOF
<1>1. FPS \in SUBSET Nat /\ SignalDelay \in Nat
  BY AnalysisAssumption
<1>2. Min(FPS) \in Nat /\ fps \in Nat /\ Min(FPS) <= fps
  BY <1>1, MinOfIndices
<1> QED
  BY <1>1, <1>2, FramesGrow DEF HalfSecond

\* No signal is armed and nothing was seen at the start.
LEMMA SignalInit == AnalysisInit => SignalInv
PROOF
<1> SUFFICES ASSUME AnalysisInit PROVE SignalInv
  OBVIOUS
<1> USE AnalysisAssumption
<1>1. AnalysisType
  BY DEF AnalysisInit, AnalysisType, NeverSeen, Corner
<1>2. SignalsArmed
  BY DEF AnalysisInit, SignalsArmed, Armed
<1>3. PrevBall = Corner
  BY DEF AnalysisInit, PrevBall, Prev1
<1>4. MissingCounted
  BY <1>3 DEF AnalysisInit, MissingCounted, Corner
<1> QED
  BY <1>1, <1>2, <1>4 DEF SignalInv

\* A call that neither arms nor disarms a signal counts on.
LEMMA ArmedTicks ==
  ASSUME NEW signal \in Nat, NEW shot \in Nat, NEW fps, Armed(signal, shot),
         frameNumber \in Nat, frameNumber' = frameNumber + 1, detected' = detected
  PROVE  /\ Tick(signal, fps) \in Nat
         /\ Tick(signal, fps) # 0 => detected' < shot /\ frameNumber' - shot = Tick(signal, fps) - 1
PROOF
  BY DEF Armed, Tick

\* A call that finds the ball keeps the type and what the signals say.
LEMMA FoundKeepsSignals ==
  ASSUME SignalInv, NEW fps \in FPS, NEW pos \in Position, NEW v \in Speed,
         BallFound(pos, v, fps)
  PROVE  SignalInv'
PROOF
<1> USE AnalysisAssumption
<1>1. /\ AnalysisType /\ SignalsArmed /\ MissingCounted
      /\ frameNumber' = frameNumber + 1 /\ ballMissing' = 0
      /\ StoreBall(pos) /\ UNCHANGED <<lastGOAL, detected>>
  BY DEF SignalInv, BallFound, BeginUpdate
<1>2. ArmSignals(pos, v, fps) \/ KeepSignals(fps)
  BY DEF BallFound
<1>3. /\ Tick(sendSAVE, fps) \in Nat /\ Tick(sendFAST, fps) \in Nat
      /\ Tick(sendSAVE, fps) # 0 =>
           detected' < saveShot /\ frameNumber' - saveShot = Tick(sendSAVE, fps) - 1
      /\ Tick(sendFAST, fps) # 0 =>
           detected' < fastShot /\ frameNumber' - fastShot = Tick(sendFAST, fps) - 1
  BY <1>1, ArmedTicks DEF AnalysisType, SignalsArmed
<1>4. /\ sendSAVE' \in Nat /\ sendFAST' \in Nat /\ saveShot' \in Nat /\ fastShot' \in Nat
      /\ SignalsArmed'
  <2>1. CASE KeepSignals(fps)
    BY <1>1, <1>3, <2>1 DEF KeepSignals, AnalysisType, SignalsArmed, Armed
  <2>2. CASE ArmSignals(pos, v, fps) /\ v > 15 /\ pos.near
    BY <1>1, <1>3, <2>2 DEF ArmSignals, AnalysisType, SignalsArmed, Armed
  <2>3. CASE ArmSignals(pos, v, fps) /\ ~(v > 15 /\ pos.near) /\ v > 30
    <3>1. /\ sendSAVE' = Tick(sendSAVE, fps) /\ sendFAST' = 1
          /\ fastShot' = frameNumber' /\ UNCHANGED saveShot
      BY <2>3 DEF ArmSignals
    <3> QED BY <1>1, <1>3, <3>1 DEF AnalysisType, SignalsArmed, Armed
  <2>4. CASE ArmSignals(pos, v, fps) /\ ~(v > 15 /\ pos.near) /\ ~(v > 30)
    <3>1. KeepSignals(fps)
      BY <2>4 DEF ArmSignals
    <3> QED BY <2>1, <3>1
  <2> QED BY <1>2, <2>1, <2>2, <2>3, <2>4
<1>5. /\ ballCur' \in 0 .. HistoryCount - 1
      /\ balls' \in [0 .. HistoryCount - 1 -> [bar : 0 .. 8, goal : 0 .. 2, near : BOOLEAN]]
      /\ prevBallFrame' = frameNumber'
  BY <1>1 DEF StoreBall, Next1, AnalysisType
<1>6. AnalysisType'
  <2>1. /\ frameNumber' \in Nat /\ ballMissing' \in Nat /\ prevBallFrame' \in Nat
        /\ lastGOAL' \in Nat /\ detected' \in Nat
        /\ prevBallFrame' <= frameNumber' /\ lastGOAL' <= frameNumber'
        /\ detected' <= frameNumber'
    BY <1>1, <1>5 DEF AnalysisType
  <2> QED BY <1>4, <1>5, <2>1 DEF AnalysisType
<1>7. MissingCounted'
  <2>1. /\ frameNumber \in Nat /\ frameNumber' = frameNumber + 1 /\ ballMissing' = 0
        /\ lastGOAL \in Nat /\ lastGOAL <= frameNumber /\ lastGOAL' = lastGOAL
        /\ prevBallFrame' = frameNumber'
    BY <1>1, <1>5 DEF AnalysisType
  <2> QED BY <2>1 DEF MissingCounted
<1> QED
  BY <1>4, <1>6, <1>7 DEF SignalInv

\* So does a call that finds none.
LEMMA MissedKeepsSignals ==
  ASSUME SignalInv, NEW fps \in FPS, BallMissed(fps) \/ GoalDetected(fps)
  PROVE  SignalInv'
PROOF
<1> USE AnalysisAssumption
<1>1. /\ AnalysisType /\ SignalsArmed /\ MissingCounted
      /\ frameNumber' = frameNumber + 1 /\ ballMissing' = ballMissing + 1
      /\ UNCHANGED ballVars
  BY DEF SignalInv, BallMissed, GoalDetected, BeginUpdate
<1>2. PrevBall' = PrevBall
  BY <1>1 DEF PrevBall, ballVars
<1>3. CASE BallMissed(fps)
  <2>1. KeepSignals(fps) /\ UNCHANGED <<lastGOAL, detected>>
    BY <1>3 DEF BallMissed
  <2>2. /\ Tick(sendSAVE, fps) \in Nat /\ Tick(sendFAST, fps) \in Nat
        /\ Tick(sendSAVE, fps) # 0 =>
             detected' < saveShot /\ frameNumber' - saveShot = Tick(sendSAVE, fps) - 1
        /\ Tick(sendFAST, fps) # 0 =>
             detected' < fastShot /\ frameNumber' - fastShot = Tick(sendFAST, fps) - 1
    BY <1>1, <2>1, ArmedTicks DEF AnalysisType, SignalsArmed
  <2>3. AnalysisType'
    BY <1>1, <2>1, <2>2 DEF KeepSignals, AnalysisType, ballVars
  <2>4. SignalsArmed'
    BY <1>1, <2>1, <2>2 DEF KeepSignals, SignalsArmed, Armed
  <2>5. MissingCounted'
    <3>1. /\ frameNumber \in Nat /\ ballMissing \in Nat /\ GoalMissing \in Nat
          /\ prevBallFrame' = prevBallFrame /\ prevBallFrame \in Nat /\ lastGOAL' = lastGOAL
      BY <1>1, <2>1 DEF AnalysisType, ballVars
    <3> QED BY <1>1, <1>2, <3>1 DEF MissingCounted
  <2> QED BY <2>3, <2>4, <2>5 DEF SignalInv
<1>4. CASE GoalDetected(fps)
  <2>1. /\ sendSAVE' = 0 /\ sendFAST' = 0 /\ UNCHANGED <<saveShot, fastShot>>
        /\ detected' = frameNumber' /\ lastGOAL' \in {lastGOAL, frameNumber'}
        /\ ballMissing = GoalMissing
    BY <1>4 DEF GoalDetected, Disarm, GoneSince
  <2>2. AnalysisType' /\ SignalsArmed'
    BY <1>1, <2>1 DEF AnalysisType, SignalsArmed, Armed, ballVars
  <2>3. MissingCounted'
    <3>1. /\ frameNumber \in Nat /\ ballMissing \in Nat /\ GoalMissing \in Nat
          /\ prevBallFrame' = prevBallFrame /\ prevBallFrame \in Nat
      BY <1>1 DEF AnalysisType, ballVars
    <3>2. ~(ballMissing' <= GoalMissing)
      BY <1>1, <2>1, <3>1
    <3> QED BY <1>1, <1>2, <3>1, <3>2 DEF MissingCounted
  <2> QED BY <2>2, <2>3 DEF SignalInv
<1> QED
  BY <1>3, <1>4

\* The invariant is inductive.
LEMMA SignalNext == SignalInv /\ [analysis_update]_analysisVars => SignalInv'
PROOF
<1> SUFFICES ASSUME SignalInv, [analysis_update]_analysisVars PROVE SignalInv'
  OBVIOUS
<1>1. CASE analysis_update
  <2>1. PICK fps \in FPS : \/ \E pos \in Position, v \in Speed : BallFound(pos, v, fps)
                           \/ BallMissed(fps) \/ GoalDetected(fps)
    BY <1>1 DEF analysis_update
  <2>2. ASSUME NEW pos \in Position, NEW v \in Speed, BallFound(pos, v, fps)
        PROVE  SignalInv'
    BY <2>2, FoundKeepsSignals
  <2>3. CASE BallMissed(fps) \/ GoalDetected(fps)
    BY <2>3, MissedKeepsSignals
  <2> QED BY <2>1, <2>2, <2>3
<1>2. CASE UNCHANGED analysisVars
  BY <1>2 DEF analysisVars, ballVars, signalVars, SignalInv, AnalysisType, SignalsArmed,
              Armed, MissingCounted, PrevBall
<1> QED
  BY <1>1, <1>2

\* What one call sends is clear of goals.
LEMMA SignalSent ==
  ASSUME SignalInv, analysis_update
  PROVE  /\ Sends({"SAVE"}) => ClearOfGoals(saveShot)
         /\ Sends({"FAST"}) => ClearOfGoals(fastShot)
PROOF
<1>1. PICK fps \in FPS : \/ \E pos \in Position, v \in Speed : BallFound(pos, v, fps)
                         \/ BallMissed(fps) \/ GoalDetected(fps)
  BY DEF analysis_update
<1>2. PICK goals : /\ Finish(goals, fps)
                   /\ goals = <<>> \/ \E g : goals = <<g>> /\ g.type \in {"RG", "BG"}
  BY <1>1 DEF BallFound, BallMissed, GoalDetected
<1>3. frameNumber' = frameNumber + 1
  BY <1>1 DEF BallFound, BallMissed, GoalDetected, BeginUpdate
<1>4. ASSUME NEW i \in DOMAIN sent'
      PROVE  /\ sent'[i].type = "SAVE" => Due(sendSAVE, fps)
             /\ sent'[i].type = "FAST" => Due(sendFAST, fps)
  <2>1. goals = <<>> \/ \E g : goals = <<g>>
    BY <1>2
  <2>2. \A g : goals = <<g>> => g.type # "SAVE" /\ g.type # "FAST"
    BY <1>2
  <2> QED BY <1>2, <2>1, <2>2, SentBy
<1>5. Due(sendSAVE, fps) => ClearOfGoals(saveShot)
  BY <1>3, HalfSecondLeast DEF SignalInv, AnalysisType, SignalsArmed, Armed, Due, ClearOfGoals
<1>6. Due(sendFAST, fps) => ClearOfGoals(fastShot)
  BY <1>3, HalfSecondLeast DEF SignalInv, AnalysisType, SignalsArmed, Armed, Due, ClearOfGoals
<1> QED
  BY <1>4, <1>5, <1>6 DEF Sends

\* A goal is reported a fixed number of frames after the ball was last seen,
\* and no other since.
LEMMA GoalSent ==
  ASSUME SignalInv, analysis_update, Sends({"RG", "BG"})
  PROVE  /\ frameNumber' = prevBallFrame + GoalMissing + 1
         /\ lastGOAL = 0 \/ lastGOAL < prevBallFrame
PROOF
<1>1. PICK fps \in FPS : \/ \E pos \in Position, v \in Speed : BallFound(pos, v, fps)
                         \/ BallMissed(fps) \/ GoalDetected(fps)
  BY DEF analysis_update
<1>2. PICK i \in DOMAIN sent' : sent'[i].type \in {"RG", "BG"}
  BY DEF Sends
<1>3. ~Finish(<<>>, fps)
  BY <1>2, SentBy
<1>4. GoalDetected(fps)
  BY <1>1, <1>3 DEF BallFound, BallMissed
<1>5. /\ frameNumber' = frameNumber + 1
      /\ ballMissing = GoalMissing /\ PrevBall.goal # 0
  BY <1>4 DEF GoalDetected, BeginUpdate, GoneSince
<1> QED
  BY <1>5, AnalysisAssumption DEF SignalInv, MissingCounted, AnalysisType

\* A SAVE or FAST is sent only when no goal came between the shot and half a
\* second later, for every frame rate, history and threshold
\* (analysis.cpp:173-187).
THEOREM SignalsNeverInterrupted == AnalysisSpec => SignalsNotInterrupted
PROOF
<1>1. SignalInv /\ [analysis_update]_analysisVars =>
        [/\ Sends({"SAVE"}) => ClearOfGoals(saveShot)
         /\ Sends({"FAST"}) => ClearOfGoals(fastShot)]_analysisVars
  BY SignalSent
<1> QED
  BY SignalInit, SignalNext, <1>1, PTL DEF AnalysisSpec, SignalsNotInterrupted

\* One disappearance of the ball makes at most one goal message, for every
\* number of missing frames and every frame rate (analysis.cpp:241-247).
THEOREM OneGoalEach == AnalysisSpec => OneGoalPerDisappearance
PROOF
<1>1. SignalInv /\ [analysis_update]_analysisVars =>
        [Sends({"RG", "BG"}) =>
           /\ frameNumber' = prevBallFrame + GoalMissing + 1
           /\ lastGOAL = 0 \/ lastGOAL < prevBallFrame]_analysisVars
  BY GoalSent
<1> QED
  BY SignalInit, SignalNext, <1>1, PTL DEF AnalysisSpec, OneGoalPerDisappearance


-----------------------------------------------------------------------------
(* The two rings                                                            *)

\* The index k entries before c in a ring of n, and a ring that holds the
\* newest entries of a log, the newest one before c.
Behind(c, k, n) == IF c - k < 0 THEN c - k + n ELSE c - k
RingShows(ring, c, log, n, default) ==
  \A k \in 1 .. n : ring[Behind(c, k, n)] = IF k <= Len(log) THEN log[k] ELSE default

\* The lesser of two numbers.
LEMMA LesserOfTwo ==
  ASSUME NEW a \in Nat, NEW b \in Nat
  PROVE  Min({a, b}) = IF a <= b THEN a ELSE b
PROOF
<1>1. {a, b} \in SUBSET Nat /\ {a, b} # {}
  OBVIOUS
<1>2. Min({a, b}) \in {a, b} /\ Min({a, b}) <= a /\ Min({a, b}) <= b
  BY <1>1, MinOfIndices
<1> HIDE <1>1
<1> QED
  BY <1>2

\* The front of a log that has one more entry and is kept at n at most.
Logged(x, log, n) == SubSeq(<<x>> \o log, 1, Min({n, Len(log) + 1}))
LEMMA LogGrows ==
  ASSUME NEW S, NEW log \in Seq(S), NEW n \in Nat \ {0}, Len(log) <= n, NEW x \in S
  PROVE  /\ Logged(x, log, n) \in Seq(S)
         /\ Len(Logged(x, log, n)) <= n /\ Len(Logged(x, log, n)) <= Len(log) + 1
         /\ Len(Logged(x, log, n)) = n \/ Len(Logged(x, log, n)) = Len(log) + 1
         /\ Len(Logged(x, log, n)) > 0 /\ Logged(x, log, n)[1] = x
PROOF
<1> DEFINE log2 == Logged(x, log, n)
           l == Len(log)
           m == Min({n, l + 1})
           u == <<x>> \o log
<1>1. l \in Nat /\ l <= n
  OBVIOUS
<1>2. m = IF n <= l + 1 THEN n ELSE l + 1
  BY <1>1, LesserOfTwo
<1>3. u \in Seq(S) /\ Len(u) = l + 1 /\ u[1] = x
  OBVIOUS
<1> HIDE DEF l, m, u
<1>5. m \in 1 .. l + 1 /\ m <= n
  BY <1>1, <1>2
<1>6. log2 = SubSeq(u, 1, m)
  BY DEF u, m, l, Logged
<1> HIDE DEF log2
<1>7. log2 \in Seq(S) /\ Len(log2) = m
  <2>1. 1 \in 1 .. Len(u) + 1 /\ m \in 0 .. Len(u) /\ m - 1 + 1 = m
    BY <1>1, <1>3, <1>5
  <2> QED BY <1>1, <1>3, <1>5, <1>6, <2>1, SubSeqProperties
<1>8. \A k \in 1 .. m : log2[k] = u[k]
  BY <1>1, <1>3, <1>5, <1>6
<1>10. log2[1] = x
  <2>1. 1 \in 1 .. m
    BY <1>1, <1>5
  <2> QED BY <1>3, <1>8, <2>1
<1>11. m > 0 /\ m <= l + 1 /\ (m = n \/ m = l + 1)
  BY <1>1, <1>2, <1>5
<1> QED
  BY <1>5, <1>7, <1>10, <1>11 DEF l, log2

\* The older entries of the log move back by one.
LEMMA LogShifts ==
  ASSUME NEW S, NEW log \in Seq(S), NEW n \in Nat \ {0}, Len(log) <= n, NEW x \in S,
         NEW k \in 1 .. n - 1, k + 1 <= Len(Logged(x, log, n))
  PROVE  k <= Len(log) /\ Logged(x, log, n)[k + 1] = log[k]
PROOF
<1> DEFINE u == <<x>> \o log
           m == Min({n, Len(log) + 1})
<1>1. Len(Logged(x, log, n)) <= Len(log) + 1 /\ Logged(x, log, n) \in Seq(S)
  BY LogGrows
<1>2. k \in 1 .. Len(log)
  BY <1>1
<1>3. u \in Seq(S) /\ Len(u) = Len(log) + 1 /\ u[k + 1] = log[k]
  BY <1>2
<1>4. m \in 1 .. Len(log) + 1
  <2>1. Len(log) \in Nat /\ Len(log) + 1 \in Nat
    OBVIOUS
  <2>2. m = IF n <= Len(log) + 1 THEN n ELSE Len(log) + 1
    BY <2>1, LesserOfTwo
  <2> QED BY <2>1, <2>2
<1> HIDE DEF u, m
<1>5. Logged(x, log, n) = SubSeq(u, 1, m)
  BY DEF Logged, u, m
<1>6. (\A i \in 1 .. m : SubSeq(u, 1, m)[i] = u[i]) /\ Len(SubSeq(u, 1, m)) = m
  <2>1. \A i \in 1 .. m : u[i] \in S
    BY <1>3, <1>4
  <2>2. m \in Nat /\ 1 <= m /\ 1 \in Int
    BY <1>4
  <2>3. /\ Len(SubSeq(u, 1, m)) = IF 1 <= m THEN m - 1 + 1 ELSE 0
        /\ \A i \in 1 .. m - 1 + 1 : SubSeq(u, 1, m)[i] = u[1 + i - 1]
    BY <2>1, <2>2, SubSeqProperties
  <2>4. \A i \in 1 .. m : i \in 1 .. m - 1 + 1 /\ 1 + i - 1 = i
    BY <2>2
  <2> QED BY <2>2, <2>3, <2>4
<1>7. k + 1 \in 1 .. m
  BY <1>2, <1>4, <1>5, <1>6
<1>8. Logged(x, log, n)[k + 1] = u[k + 1]
  BY <1>5, <1>6, <1>7, Zenon
<1>9. k <= Len(log)
  BY <1>2
<1> QED
  BY <1>3, <1>8, <1>9

\* To write where the position stands and to move it on keeps the ring true
\* to its log, wherever the position wraps.
LEMMA RingStores ==
  ASSUME NEW S, NEW n \in Nat \ {0}, NEW c \in 0 .. n - 1, NEW ring \in [0 .. n - 1 -> S],
         NEW log \in Seq(S), Len(log) <= n, NEW x \in S, NEW default,
         RingShows(ring, c, log, n, default)
  PROVE  /\ Next1(c, n) \in 0 .. n - 1
         /\ [ring EXCEPT ![c] = x] \in [0 .. n - 1 -> S]
         /\ RingShows([ring EXCEPT ![c] = x], Next1(c, n), Logged(x, log, n), n, default)
PROOF
<1> DEFINE d == Next1(c, n)
           r == [ring EXCEPT ![c] = x]
           log2 == Logged(x, log, n)
<1>1. d \in 0 .. n - 1 /\ r \in [0 .. n - 1 -> S]
  BY DEF Next1
<1>2. /\ log2 \in Seq(S) /\ Len(log2) <= n /\ Len(log2) <= Len(log) + 1
      /\ Len(log2) = n \/ Len(log2) = Len(log) + 1
      /\ Len(log2) > 0 /\ log2[1] = x
      /\ \A k \in 1 .. n - 1 : k + 1 <= Len(log2) => k <= Len(log) /\ log2[k + 1] = log[k]
  <2>1. log2 \in Seq(S) /\ Len(log2) <= n
    BY LogGrows
  <2>2. Len(log2) <= Len(log) + 1
    BY LogGrows
  <2>3. Len(log2) = n \/ Len(log2) = Len(log) + 1
    BY LogGrows
  <2>4. Len(log2) > 0 /\ log2[1] = x
    BY LogGrows
  <2>5. ASSUME NEW k \in 1 .. n - 1, k + 1 <= Len(log2)
        PROVE  k <= Len(log) /\ log2[k + 1] = log[k]
    BY <2>5, LogShifts
  <2> QED BY <2>1, <2>2, <2>3, <2>4, <2>5
<1> HIDE DEF log2
<1>3. Behind(d, 1, n) = c
  BY DEF Behind, Next1
<1>4. ASSUME NEW k \in 1 .. n - 1
      PROVE  /\ Behind(d, k + 1, n) = Behind(c, k, n)
             /\ Behind(c, k, n) \in 0 .. n - 1 /\ Behind(c, k, n) # c
  BY DEF Behind, Next1
<1>5. ASSUME NEW k \in 1 .. n - 1
      PROVE  r[Behind(d, k + 1, n)] = IF k + 1 <= Len(log2) THEN log2[k + 1] ELSE default
  <2>1. r[Behind(d, k + 1, n)] = ring[Behind(c, k, n)]
    BY <1>4
  <2>2. ring[Behind(c, k, n)] = IF k <= Len(log) THEN log[k] ELSE default
    BY DEF RingShows
  <2>3. Len(log) \in Nat /\ Len(log2) \in Nat
    BY <1>2
  <2>4. k <= Len(log) <=> k + 1 <= Len(log2)
    BY <1>2, <2>3
  <2>5. k + 1 <= Len(log2) => log2[k + 1] = log[k]
    BY <1>2
  <2> QED BY <2>1, <2>2, <2>4, <2>5
<1>6. r[Behind(d, 1, n)] = IF 1 <= Len(log2) THEN log2[1] ELSE default
  <2>1. r[c] = x /\ Len(log2) \in Nat
    BY <1>2
  <2> QED BY <1>2, <1>3, <2>1
<1> HIDE DEF r, d
<1>7. ASSUME NEW k \in 1 .. n
      PROVE  r[Behind(d, k, n)] = IF k <= Len(log2) THEN log2[k] ELSE default
  <2>1. CASE k = 1
    BY <1>6, <2>1
  <2>2. CASE k # 1
    <3>1. k - 1 \in 1 .. n - 1 /\ k = (k - 1) + 1
      BY <2>2
    <3> DEFINE j == k - 1
    <3>2. j \in 1 .. n - 1 /\ k = j + 1
      BY <3>1
    <3> HIDE DEF j
    <3> QED BY <1>5, <3>2
  <2> QED BY <2>1, <2>2
<1> QED
  BY <1>1, <1>7 DEF RingShows, r, d, log2

\* The rings of the analysis hold what was stored last.
SpeedRing ==
  /\ ballSpeedIndex \in 0 .. BallSpeedCount - 1
  /\ ballSpeeds \in [0 .. BallSpeedCount - 1 -> Nat]
  /\ speedLog \in Seq(Nat) /\ Len(speedLog) <= BallSpeedCount
  /\ RingShows(ballSpeeds, ballSpeedIndex, speedLog, BallSpeedCount, 0)
BallType == [bar : 0 .. 8, goal : 0 .. 2, near : BOOLEAN]
BallRing ==
  /\ ballCur \in 0 .. HistoryCount - 1
  /\ balls \in [0 .. HistoryCount - 1 -> BallType]
  /\ recent \in Seq(BallType) /\ Len(recent) <= HistoryCount
  /\ RingShows(balls, ballCur, recent, HistoryCount, Corner)

LEMMA RingsInit == AnalysisInit => SpeedRing /\ BallRing
PROOF
<1> SUFFICES ASSUME AnalysisInit PROVE SpeedRing /\ BallRing
  OBVIOUS
<1>1. BallSpeedCount \in Nat \ {0} /\ HistoryCount \in Nat \ {0}
  BY AnalysisAssumption
<1>2. Corner \in BallType
  BY DEF Corner, BallType
<1>3. \A n \in Nat \ {0} : \A k \in 1 .. n : Behind(0, k, n) \in 0 .. n - 1
  BY DEF Behind
<1>4. SpeedRing
  BY <1>1, <1>3 DEF AnalysisInit, SpeedRing, RingShows
<1>5. BallRing
  BY <1>1, <1>2, <1>3 DEF AnalysisInit, BallRing, RingShows
<1> QED
  BY <1>4, <1>5

LEMMA SpeedStored ==
  ASSUME SpeedRing, NEW v \in Nat, StoreSpeed(v)
  PROVE  SpeedRing'
PROOF
<1>1. BallSpeedCount \in Nat \ {0}
  BY AnalysisAssumption
<1>2. /\ ballSpeedIndex \in 0 .. BallSpeedCount - 1 /\ ballSpeeds \in [0 .. BallSpeedCount - 1 -> Nat]
      /\ speedLog \in Seq(Nat) /\ Len(speedLog) <= BallSpeedCount
      /\ RingShows(ballSpeeds, ballSpeedIndex, speedLog, BallSpeedCount, 0)
  BY DEF SpeedRing
<1>3. Logged(v, speedLog, BallSpeedCount) \in Seq(Nat) /\ Len(Logged(v, speedLog, BallSpeedCount)) <= BallSpeedCount
  BY <1>1, <1>2, LogGrows
<1>4. /\ Next1(ballSpeedIndex, BallSpeedCount) \in 0 .. BallSpeedCount - 1
      /\ [ballSpeeds EXCEPT ![ballSpeedIndex] = v] \in [0 .. BallSpeedCount - 1 -> Nat]
      /\ RingShows([ballSpeeds EXCEPT ![ballSpeedIndex] = v], Next1(ballSpeedIndex, BallSpeedCount),
                   Logged(v, speedLog, BallSpeedCount), BallSpeedCount, 0)
  BY <1>1, <1>2, RingStores
<1>5. /\ ballSpeeds' = [ballSpeeds EXCEPT ![ballSpeedIndex] = v]
      /\ ballSpeedIndex' = Next1(ballSpeedIndex, BallSpeedCount) /\ speedLog' = Logged(v, speedLog, BallSpeedCount)
  BY DEF StoreSpeed, Logged
<1>6. RingShows(ballSpeeds', ballSpeedIndex', speedLog', BallSpeedCount, 0)
  BY <1>4, <1>5
<1> QED
  BY <1>3, <1>4, <1>5, <1>6 DEF SpeedRing

LEMMA BallStored ==
  ASSUME BallRing, NEW pos \in Position, StoreBall(pos)
  PROVE  BallRing'
PROOF
<1>1. HistoryCount \in Nat \ {0} /\ pos \in BallType
  BY AnalysisAssumption DEF BallType
<1>2. /\ ballCur \in 0 .. HistoryCount - 1 /\ balls \in [0 .. HistoryCount - 1 -> BallType]
      /\ recent \in Seq(BallType) /\ Len(recent) <= HistoryCount
      /\ RingShows(balls, ballCur, recent, HistoryCount, Corner)
  BY DEF BallRing
<1>3. Logged(pos, recent, HistoryCount) \in Seq(BallType) /\ Len(Logged(pos, recent, HistoryCount)) <= HistoryCount
  BY <1>1, <1>2, LogGrows
<1>4. /\ Next1(ballCur, HistoryCount) \in 0 .. HistoryCount - 1
      /\ [balls EXCEPT ![ballCur] = pos] \in [0 .. HistoryCount - 1 -> BallType]
      /\ RingShows([balls EXCEPT ![ballCur] = pos], Next1(ballCur, HistoryCount),
                   Logged(pos, recent, HistoryCount), HistoryCount, Corner)
  BY <1>1, <1>2, RingStores
<1>5. /\ balls' = [balls EXCEPT ![ballCur] = pos]
      /\ ballCur' = Next1(ballCur, HistoryCount) /\ recent' = Logged(pos, recent, HistoryCount)
  BY DEF StoreBall, Logged
<1>6. RingShows(balls', ballCur', recent', HistoryCount, Corner)
  BY <1>4, <1>5
<1> QED
  BY <1>3, <1>4, <1>5, <1>6 DEF BallRing, BallType, Corner

\* Both rings stay true to their logs.
LEMMA RingsNext ==
  SpeedRing /\ BallRing /\ [analysis_update]_analysisVars => SpeedRing' /\ BallRing'
PROOF
<1> SUFFICES ASSUME SpeedRing, BallRing, [analysis_update]_analysisVars
             PROVE  SpeedRing' /\ BallRing'
  OBVIOUS
<1>1. ASSUME UNCHANGED speedVars PROVE SpeedRing'
  BY <1>1 DEF speedVars, SpeedRing, RingShows, Behind
<1>2. ASSUME UNCHANGED ballVars PROVE BallRing'
  BY <1>2 DEF ballVars, BallRing, RingShows, Behind, BallType, Corner
<1>3. CASE analysis_update
  <2>1. PICK fps \in FPS : \/ \E pos \in Position, v \in Speed : BallFound(pos, v, fps)
                           \/ BallMissed(fps) \/ GoalDetected(fps)
    BY <1>3 DEF analysis_update
  <2>2. ASSUME NEW pos \in Position, NEW v \in Speed, BallFound(pos, v, fps)
        PROVE  SpeedRing' /\ BallRing'
    <3>1. v \in Nat
      BY AnalysisAssumption
    <3>2. StoreBall(pos) /\ (StoreSpeed(v) \/ UNCHANGED speedVars)
      BY <2>2 DEF BallFound
    <3> QED BY <1>1, <3>1, <3>2, SpeedStored, BallStored
  <2>3. CASE BallMissed(fps) \/ GoalDetected(fps)
    <3>1. StoreSpeed(0) /\ UNCHANGED ballVars
      BY <2>3 DEF BallMissed, GoalDetected
    <3> QED BY <1>2, <3>1, SpeedStored
  <2> QED BY <2>1, <2>2, <2>3
<1>4. CASE UNCHANGED analysisVars
  BY <1>1, <1>2, <1>4 DEF analysisVars
<1> QED
  BY <1>3, <1>4


\* The entries a window of the ring has, with 0, are the newest of the log.
RingWindow(ring, c, w, n) ==
  {0} \union {ring[IF i < 0 THEN i + n ELSE i] : i \in c - w .. c - 1}
LogWindow(log, w) == {0} \union {log[k] : k \in 1 .. Min({w, Len(log)})}
LEMMA WindowOfRing ==
  ASSUME NEW n \in Nat \ {0}, NEW c \in 0 .. n - 1, NEW ring,
         NEW log \in Seq(Nat), Len(log) <= n, RingShows(ring, c, log, n, 0),
         NEW w \in Nat, w <= n
  PROVE  RingWindow(ring, c, w, n) = LogWindow(log, w)
PROOF
<1> DEFINE A == {ring[IF i < 0 THEN i + n ELSE i] : i \in c - w .. c - 1}
           l == Len(log)
           m == Min({w, l})
           B == {log[k] : k \in 1 .. m}
<1>1. l \in Nat /\ m = IF w <= l THEN w ELSE l
  BY LesserOfTwo
<1> HIDE DEF m
<1>2. ASSUME NEW i \in c - w .. c - 1
      PROVE  ring[IF i < 0 THEN i + n ELSE i] \in {0} \union B
  <2> DEFINE k == c - i
  <2>1. k \in 1 .. n /\ k <= w /\ Behind(c, k, n) = IF i < 0 THEN i + n ELSE i
    BY DEF Behind
  <2> HIDE DEF k
  <2>2. ring[Behind(c, k, n)] = IF k <= l THEN log[k] ELSE 0
    BY <2>1 DEF RingShows
  <2>3. k <= l => k \in 1 .. m
    BY <1>1, <2>1
  <2> QED BY <2>1, <2>2, <2>3
<1>3. ASSUME NEW k \in 1 .. m PROVE log[k] \in A
  <2>1. k \in 1 .. n /\ k <= w /\ k <= l
    BY <1>1
  <2> DEFINE i == c - k
  <2>2. i \in c - w .. c - 1 /\ Behind(c, k, n) = IF i < 0 THEN i + n ELSE i
    BY <2>1 DEF Behind
  <2>3. ring[Behind(c, k, n)] = log[k]
    BY <2>1 DEF RingShows
  <2> HIDE DEF i
  <2> QED BY <2>2, <2>3
<1> QED
  BY <1>2, <1>3 DEF m, RingWindow, LogWindow

\* The speed a call reports.
LEMMA ReportedSpeed ==
  ASSUME SpeedRing', NEW fps \in FPS
  PROVE  MaxSpeed(fps) = Max(LogWindow(speedLog', LastSpeeds(fps)))
PROOF
<1> DEFINE w == LastSpeeds(fps)
<1>1. BallSpeedCount \in Nat \ {0} /\ SpeedWindow \in Nat /\ fps \in Nat
      /\ SpeedWindow * fps <= 10 * BallSpeedCount
  BY AnalysisAssumption
<1>2. w \in Nat /\ w <= BallSpeedCount
  <2> DEFINE p == SpeedWindow * fps
  <2>1. p \in Nat /\ p <= 10 * BallSpeedCount /\ w = p \div 10
    BY <1>1 DEF LastSpeeds, Frames
  <2> HIDE DEF p, w
  <2> QED BY <1>1, <2>1
<1> HIDE DEF w
<1>3. /\ ballSpeedIndex' \in 0 .. BallSpeedCount - 1
      /\ speedLog' \in Seq(Nat) /\ Len(speedLog') <= BallSpeedCount
      /\ RingShows(ballSpeeds', ballSpeedIndex', speedLog', BallSpeedCount, 0)
  BY DEF SpeedRing
<1>4. RingWindow(ballSpeeds', ballSpeedIndex', w, BallSpeedCount) = LogWindow(speedLog', w)
  BY <1>1, <1>2, <1>3, WindowOfRing
<1>5. MaxSpeed(fps) = Max(RingWindow(ballSpeeds', ballSpeedIndex', w, BallSpeedCount))
  BY DEF MaxSpeed, RingWindow, w
<1> QED
  BY <1>4, <1>5 DEF w

\* MaxSpeedIsRecentMax with the window of the log by its name.
MaxOfLog ==
  \A i \in DOMAIN sent : sent[i].type = "MAXSPEED" =>
    \E fps \in FPS : sent[i].value = Max(LogWindow(speedLog, LastSpeeds(fps)))
SpeedInv == SpeedRing /\ BallRing /\ MaxOfLog

LEMMA SpeedInit == AnalysisInit => SpeedInv
PROOF
<1>1. AnalysisInit => MaxOfLog
  BY DEF AnalysisInit, MaxOfLog
<1> QED
  BY <1>1, RingsInit DEF SpeedInv

LEMMA SpeedNext == SpeedInv /\ [analysis_update]_analysisVars => SpeedInv'
PROOF
<1> SUFFICES ASSUME SpeedInv, [analysis_update]_analysisVars PROVE SpeedInv'
  OBVIOUS
<1>1. SpeedRing' /\ BallRing'
  BY RingsNext DEF SpeedInv
<1>2. CASE analysis_update
  <2>1. PICK fps \in FPS : \/ \E pos \in Position, v \in Speed : BallFound(pos, v, fps)
                           \/ BallMissed(fps) \/ GoalDetected(fps)
    BY <1>2 DEF analysis_update
  <2>2. PICK goals : /\ Finish(goals, fps)
                     /\ goals = <<>> \/ \E g : goals = <<g>> /\ g.type \in {"RG", "BG"}
    BY <2>1 DEF BallFound, BallMissed, GoalDetected
  <2>3. ASSUME NEW i \in DOMAIN sent', sent'[i].type = "MAXSPEED"
        PROVE  sent'[i].value = MaxSpeed(fps)
    <3>1. goals = <<>> \/ \E g : goals = <<g>>
      BY <2>2
    <3>2. \A g : goals = <<g>> => g.type # "MAXSPEED"
      BY <2>2
    <3> QED BY <2>2, <2>3, <3>1, <3>2, SentBy
  <2>4. MaxOfLog'
    BY <1>1, <2>3, ReportedSpeed DEF MaxOfLog, LastSpeeds, Frames
  <2> QED BY <1>1, <2>4 DEF SpeedInv
<1>3. CASE UNCHANGED analysisVars
  <2>1. MaxOfLog'
    BY <1>3 DEF analysisVars, speedVars, SpeedInv, MaxOfLog, LastSpeeds, Frames
  <2> QED BY <1>1, <2>1 DEF SpeedInv
<1> QED
  BY <1>2, <1>3

\* The speed reported is the largest of the window, for every length of the
\* ring and every frame rate it has room for (analysis.cpp:263-273).
THEOREM FastestReported == AnalysisSpec => []MaxSpeedIsRecentMax
PROOF
<1>1. SpeedInv => MaxSpeedIsRecentMax
  BY DEF SpeedInv, MaxOfLog, MaxSpeedIsRecentMax, LogWindow
<1> QED
  BY SpeedInit, SpeedNext, <1>1, PTL DEF AnalysisSpec


-----------------------------------------------------------------------------
(* Who scored                                                               *)

\* Induction up to a number, over a set.
LEMMA UpTo ==
  ASSUME NEW w \in Nat, NEW S, 0 \in S, \A k \in 0 .. w - 1 : k \in S => k + 1 \in S
  PROVE  \A k \in 0 .. w : k \in S
PROOF
<1> DEFINE Missing == {k \in 0 .. w : k \notin S}
<1>1. SUFFICES ASSUME Missing # {} PROVE FALSE
  OBVIOUS
<1>2. Missing \in SUBSET Nat
  OBVIOUS
<1>3. PICK m \in Missing : \A i \in Missing : m <= i
  BY <1>1, <1>2, LeastNumber
<1>4. m \in 1 .. w
  BY <1>3
<1>5. m - 1 \in 0 .. w - 1 /\ m - 1 \in 0 .. w /\ (m - 1) + 1 = m
  BY <1>4
<1>6. m - 1 \notin Missing
  BY <1>3, <1>4
<1> QED
  BY <1>3, <1>5, <1>6

\* The greatest of a set of turns, and of an interval.
LEMMA LastTurn ==
  ASSUME NEW n \in Nat, NEW t \in SUBSET (1 .. n), n \in t
  PROVE  Max(t) = n
PROOF
<1>1. t \in SUBSET Nat /\ t # {} /\ \A i \in t : i <= n
  OBVIOUS
<1>2. Max(t) \in t /\ \A i \in t : i <= Max(t)
  BY <1>1, MaxOfIndices
<1>3. Max(t) \in Nat /\ Max(t) <= n /\ n <= Max(t)
  BY <1>1, <1>2
<1> QED
  BY <1>3
LEMMA TopOfInterval ==
  ASSUME NEW k \in Nat \ {0}
  PROVE  1 .. k # {} /\ Max(1 .. k) = k /\ (1 .. k) \ {k} = 1 .. k - 1
PROOF
<1>1. k \in 1 .. k /\ 1 .. k \in SUBSET (1 .. k) /\ k \in Nat
  OBVIOUS
<1>2. Max(1 .. k) = k
  BY <1>1, LastTurn
<1> QED
  BY <1>1, <1>2

\* The equation of the fold in getPlayerWhoScored, on the sets of turns up to n.
OneTurn(g, t, s, team) ==
  IF t = {} THEN NoHits
  ELSE Hit(g[t \ {Max(t)}], LookedBack(s[Max(t)]).bar, team)
Turns(g, n, s, team) == g = [t \in SUBSET (1 .. n) |-> OneTurn(g, t, s, team)]

LEMMA FoldOfHits ==
  ASSUME NEW w \in Nat, NEW s, DOMAIN s = 1 .. w, NEW team
  PROVE  FoldLeft(LAMBDA state, k : Hit(state, LookedBack(k).bar, team), NoHits, s)
           = (CHOOSE g : Turns(g, w, s, team))[1 .. w]
PROOF
  BY DEF FoldLeft, MapThenFoldSet, Turns, OneTurn

\* A function that satisfies it exists.
LEMMA TurnsExist ==
  ASSUME NEW w \in Nat, NEW s, NEW team
  PROVE  \E g : Turns(g, w, s, team)
PROOF
<1> DEFINE S == {n \in Nat : \E g : Turns(g, n, s, team)}
<1>1. 0 \in S
  <2> DEFINE g == [t \in SUBSET (1 .. 0) |-> NoHits]
  <2>1. \A t \in SUBSET (1 .. 0) : t = {}
    OBVIOUS
  <2>2. Turns(g, 0, s, team)
    BY <2>1 DEF Turns, OneTurn
  <2> QED BY <2>2
<1>2. ASSUME NEW k \in 0 .. w - 1, k \in S PROVE k + 1 \in S
  <2>1. PICK g : Turns(g, k, s, team)
    BY <1>2
  <2>2. k \in Nat
    OBVIOUS
  <2> DEFINE h == [t \in SUBSET (1 .. k + 1) |->
                     IF k + 1 \in t THEN Hit(g[t \ {k + 1}], LookedBack(s[k + 1]).bar, team)
                     ELSE g[t]]
  <2>3. ASSUME NEW t \in SUBSET (1 .. k + 1) PROVE h[t] = OneTurn(h, t, s, team)
    <3>1. CASE k + 1 \in t
      <4>1. t # {} /\ k + 1 \in Nat
        BY <2>2, <3>1
      <4>3. Max(t) = k + 1
        BY <3>1, <4>1, LastTurn
      <4>4. t \ {k + 1} \in SUBSET (1 .. k + 1) /\ k + 1 \notin t \ {k + 1}
        OBVIOUS
      <4>5. h[t \ {k + 1}] = g[t \ {k + 1}]
        BY <4>4
      <4>6. h[t] = Hit(g[t \ {k + 1}], LookedBack(s[k + 1]).bar, team)
        BY <3>1
      <4> HIDE DEF h
      <4>7. OneTurn(h, t, s, team) = Hit(h[t \ {Max(t)}], LookedBack(s[Max(t)]).bar, team)
        BY <4>1, Zenon DEF OneTurn
      <4>8. OneTurn(h, t, s, team) = Hit(h[t \ {k + 1}], LookedBack(s[k + 1]).bar, team)
        BY <4>3, <4>7, Zenon
      <4> QED BY <4>5, <4>6, <4>8, Zenon
    <3>2. CASE k + 1 \notin t
      <4>1. t \in SUBSET (1 .. k)
        BY <2>2, <3>2
      <4>2. h[t] = g[t] /\ g[t] = OneTurn(g, t, s, team)
        BY <2>1, <3>2, <4>1 DEF Turns
      <4>3. t # {} => h[t \ {Max(t)}] = g[t \ {Max(t)}]
        <5>1. t \ {Max(t)} \in SUBSET (1 .. k + 1) /\ k + 1 \notin t \ {Max(t)}
          BY <3>2
        <5> QED BY <5>1
      <4> HIDE DEF h
      <4> QED BY <4>2, <4>3 DEF OneTurn
    <3> QED BY <3>1, <3>2
  <2>4. h = [t \in SUBSET (1 .. k + 1) |-> h[t]]
    OBVIOUS
  <2> HIDE DEF h
  <2>5. h = [t \in SUBSET (1 .. k + 1) |-> OneTurn(h, t, s, team)]
    BY <2>3, <2>4
  <2>6. Turns(h, k + 1, s, team)
    BY <2>5 DEF Turns
  <2> QED BY <2>2, <2>6
<1> HIDE DEF S
<1>3. \A k \in 0 .. w : k \in S
  BY <1>1, <1>2, UpTo
<1>4. w \in S
  BY <1>3
<1> QED
  BY <1>4 DEF S

\* The fold is the last of a row of states, each one turn after the one before.
Loop(h, w, team) ==
  /\ h[0] = NoHits
  /\ \A k \in 0 .. w - 1 : h[k + 1] = Hit(h[k], LookedBack(k + 1).bar, team)
LEMMA LoopTurns ==
  ASSUME NEW w \in Nat, NEW team
  PROVE  \E h : Loop(h, w, team) /\ HitsOver(w, team) = h[w]
PROOF
<1> DEFINE s == [k \in 1 .. w |-> k]
           g == CHOOSE f : Turns(f, w, s, team)
           h == [k \in 0 .. w |-> g[1 .. k]]
<1>1. DOMAIN s = 1 .. w /\ \A k \in 1 .. w : s[k] = k
  OBVIOUS
<1> HIDE DEF s
<1>2. Turns(g, w, s, team)
  BY TurnsExist
<1>3. HitsOver(w, team) = g[1 .. w]
  BY <1>1, FoldOfHits, Zenon DEF HitsOver, s
<1> HIDE DEF g
<1>4. \A t \in SUBSET (1 .. w) : g[t] = OneTurn(g, t, s, team)
  BY <1>2 DEF Turns
<1>5. h[0] = NoHits
  <2>1. 1 .. 0 = {} /\ {} \in SUBSET (1 .. w)
    OBVIOUS
  <2> QED BY <1>4, <2>1 DEF OneTurn
<1>6. ASSUME NEW k \in 0 .. w - 1
      PROVE  h[k + 1] = Hit(h[k], LookedBack(k + 1).bar, team)
  <2>1. k + 1 \in Nat \ {0} /\ (k + 1) - 1 = k /\ 1 .. k + 1 \in SUBSET (1 .. w)
        /\ k + 1 \in 1 .. w /\ k \in 0 .. w /\ k + 1 \in 0 .. w
    OBVIOUS
  <2>2. 1 .. k + 1 # {} /\ Max(1 .. k + 1) = k + 1 /\ (1 .. k + 1) \ {k + 1} = 1 .. k
    BY <2>1, TopOfInterval
  <2>3. g[1 .. k + 1] = Hit(g[1 .. k], LookedBack(s[k + 1]).bar, team)
    BY <1>4, <2>1, <2>2 DEF OneTurn
  <2> QED BY <1>1, <2>1, <2>3
<1>7. h[w] = g[1 .. w]
  OBVIOUS
<1> HIDE DEF h
<1>8. Loop(h, w, team)
  BY <1>5, <1>6 DEF Loop
<1> QED
  BY <1>3, <1>7, <1>8 DEF s


\* The rows of a longer window: a ball at a bar of the team leaves them as they
\* are, any other makes each of them one longer.
LEMMA OthersBounded ==
  ASSUME NEW team, NEW k \in Nat
  PROVE  Others(team, k) \in SUBSET (1 .. k) /\ IsFiniteSet(Others(team, k))
PROOF
<1>1. Others(team, k) \in SUBSET (1 .. k)
  BY DEF Others
<1> QED
  BY <1>1, FS_Interval, FS_Subset
LEMMA OthersGrow ==
  ASSUME NEW team, NEW k \in Nat
  PROVE  Others(team, k + 1) =
           IF barTeams[BarAgo(k + 1)] = team THEN Others(team, k)
           ELSE Others(team, k) \union {k + 1}
PROOF
<1>1. 1 .. k + 1 = (1 .. k) \union {k + 1}
  OBVIOUS
<1> QED
  BY <1>1 DEF Others
LEMMA RowGrows ==
  ASSUME NEW team, NEW k \in Nat, NEW j \in 1 .. k + 1, barTeams[BarAgo(k + 1)] # team
  PROVE  /\ Row(team, j, k + 1) = Row(team, j, k) \union {k + 1}
         /\ k + 1 \notin Row(team, j, k)
         /\ Cardinality(Row(team, j, k)) \in Nat
         /\ Cardinality(Row(team, j, k + 1)) = Cardinality(Row(team, j, k)) + 1
PROOF
<1>1. Others(team, k + 1) = Others(team, k) \union {k + 1}
  BY OthersGrow
<1>2. Others(team, j - 1) \in SUBSET (1 .. j - 1) /\ j - 1 \in Nat
  BY OthersBounded
<1>3. k + 1 \notin Others(team, j - 1) /\ k + 1 \notin Others(team, k)
  <2>1. Others(team, k) \in SUBSET (1 .. k)
    BY OthersBounded
  <2> QED BY <1>2, <2>1
<1>4. Row(team, j, k + 1) = Row(team, j, k) \union {k + 1} /\ k + 1 \notin Row(team, j, k)
  BY <1>1, <1>3 DEF Row
<1>5. IsFiniteSet(Row(team, j, k))
  <2>1. IsFiniteSet(Others(team, k)) /\ Row(team, j, k) \in SUBSET Others(team, k)
    BY OthersBounded DEF Row
  <2> QED BY <2>1, FS_Subset
<1>6. Cardinality(Row(team, j, k)) \in Nat
  BY <1>5, FS_CardinalityType
<1>7. Cardinality(Row(team, j, k) \union {k + 1}) = Cardinality(Row(team, j, k)) + 1
  BY <1>4, <1>5, FS_AddElement
<1> QED
  BY <1>4, <1>6, <1>7

\* A row that has not begun.
LEMMA EmptyRow ==
  ASSUME NEW team, NEW k \in Nat
  PROVE  Row(team, k + 1, k) = {} /\ Cardinality(Row(team, k + 1, k)) = 0
PROOF
<1>1. (k + 1) - 1 = k
  OBVIOUS
<1>2. Row(team, k + 1, k) = {}
  BY <1>1 DEF Row
<1> QED
  BY <1>2, FS_EmptySet

\* What the state of the loop says after k turns: below the threshold no row
\* has been long enough, and the hits are the length of the longest row that
\* ends here at one bar; at the threshold the player is the one at which the
\* first long row ended.
AllAt(p, team, j, k) == \A i \in Row(team, j, k) : BarAgo(i) = p
Newest(n, team, k) == n \in Others(team, k) /\ \A i \in Others(team, k) : i <= n
NoneYet(team, k) == \A i \in Others(team, k) : ~RowEnds(team, i)
LongestHere(s, team, k) ==
  /\ \E j \in 1 .. k + 1 : /\ Cardinality(Row(team, j, k)) = s.hits
                           /\ AllAt(s.player, team, j, k)
  /\ \A j \in 1 .. k + 1 : AllAt(s.player, team, j, k) =>
                             Cardinality(Row(team, j, k)) <= s.hits
  /\ Others(team, k) # {} => \E n : Newest(n, team, k) /\ BarAgo(n) = s.player
FirstEnd(m, team, k) ==
  /\ m \in Others(team, k) /\ RowEnds(team, m)
  /\ \A i \in Others(team, k) : RowEnds(team, i) => m <= i
HitsRight(s, team, k) ==
  /\ s.hits \in 0 .. BarThreshold
  /\ s.hits < BarThreshold => NoneYet(team, k) /\ LongestHere(s, team, k)
  /\ s.hits = BarThreshold => \E m : FirstEnd(m, team, k) /\ BarAgo(m) = s.player

LEMMA CountedInit ==
  ASSUME NEW team
  PROVE  HitsRight(NoHits, team, 0)
PROOF
<1>1. BarThreshold \in Nat \ {0, 1} /\ NoHits.hits = 0
  BY AnalysisAssumption DEF NoHits
<1>2. Others(team, 0) = {}
  <2>1. Others(team, 0) \in SUBSET (1 .. 0) /\ 1 .. 0 = {}
    BY OthersBounded
  <2> QED BY <2>1
<1>3. Row(team, 1, 0) = {} /\ Cardinality(Row(team, 1, 0)) = 0
  <2>1. 0 \in Nat /\ 0 + 1 = 1
    OBVIOUS
  <2> QED BY <2>1, EmptyRow
<1>4. AllAt(NoHits.player, team, 1, 0)
  BY <1>3 DEF AllAt
<1>5. \A j \in 1 .. 0 + 1 : j = 1
  OBVIOUS
<1>6. 1 \in 1 .. 0 + 1 /\ Cardinality(Row(team, 1, 0)) <= 0
  BY <1>3
<1>7. LongestHere(NoHits, team, 0)
  BY <1>1, <1>2, <1>3, <1>4, <1>5, <1>6 DEF LongestHere
<1>8. NoneYet(team, 0)
  BY <1>2 DEF NoneYet
<1> QED
  BY <1>1, <1>7, <1>8 DEF HitsRight

\* A turn that skips the ball.
LEMMA CountedSkip ==
  ASSUME NEW team, NEW k \in Nat, NEW s, HitsRight(s, team, k),
         barTeams[BarAgo(k + 1)] = team
  PROVE  HitsRight(s, team, k + 1)
PROOF
<1>1. Others(team, k + 1) = Others(team, k)
  BY OthersGrow
<1>2. \A j \in 1 .. k + 1 : Row(team, j, k + 1) = Row(team, j, k)
  BY <1>1 DEF Row
<1>3. ASSUME s.hits < BarThreshold PROVE NoneYet(team, k + 1) /\ LongestHere(s, team, k + 1)
  <2>1. NoneYet(team, k) /\ LongestHere(s, team, k)
    BY <1>3 DEF HitsRight
  <2>2. NoneYet(team, k + 1)
    BY <1>1, <2>1 DEF NoneYet
  <2>3. PICK j \in 1 .. k + 1 : Cardinality(Row(team, j, k)) = s.hits
                                /\ AllAt(s.player, team, j, k)
    BY <2>1 DEF LongestHere
  <2>4. j \in 1 .. (k + 1) + 1 /\ Cardinality(Row(team, j, k + 1)) = s.hits
        /\ AllAt(s.player, team, j, k + 1)
    BY <1>2, <2>3 DEF AllAt
  <2>5. ASSUME NEW i \in 1 .. (k + 1) + 1, AllAt(s.player, team, i, k + 1)
        PROVE  Cardinality(Row(team, i, k + 1)) <= s.hits
    <3>1. CASE i = (k + 1) + 1
      <4>1. Cardinality(Row(team, i, k + 1)) = 0
        BY <3>1, EmptyRow
      <4> QED BY <4>1 DEF HitsRight
    <3>2. CASE i # (k + 1) + 1
      <4>1. i \in 1 .. k + 1
        BY <3>2
      <4>2. Row(team, i, k + 1) = Row(team, i, k) /\ AllAt(s.player, team, i, k)
        BY <1>2, <2>5, <4>1 DEF AllAt
      <4> QED BY <2>1, <4>1, <4>2 DEF LongestHere
    <3> QED BY <3>1, <3>2
  <2>6. Others(team, k + 1) # {} => \E n : Newest(n, team, k + 1) /\ BarAgo(n) = s.player
    BY <1>1, <2>1 DEF LongestHere, Newest
  <2> QED BY <2>2, <2>4, <2>5, <2>6 DEF LongestHere
<1>4. s.hits = BarThreshold => \E m : FirstEnd(m, team, k + 1) /\ BarAgo(m) = s.player
  BY <1>1 DEF HitsRight, FirstEnd
<1> QED
  BY <1>3, <1>4 DEF HitsRight

\* A turn after the threshold.
LEMMA CountedDone ==
  ASSUME NEW team, NEW k \in Nat, NEW s, HitsRight(s, team, k), s.hits = BarThreshold
  PROVE  HitsRight(s, team, k + 1)
PROOF
<1>1. PICK m : FirstEnd(m, team, k) /\ BarAgo(m) = s.player
  BY DEF HitsRight
<1>2. Others(team, k) \in SUBSET (1 .. k)
  BY OthersBounded
<1>3. Others(team, k) \in SUBSET Others(team, k + 1)
      /\ Others(team, k + 1) \in SUBSET (Others(team, k) \union {k + 1})
  BY OthersGrow
<1>4. m \in 1 .. k /\ m <= k + 1
  BY <1>1, <1>2 DEF FirstEnd
<1>5. FirstEnd(m, team, k + 1)
  BY <1>1, <1>3, <1>4 DEF FirstEnd
<1>6. ~(s.hits < BarThreshold)
  BY AnalysisAssumption
<1> QED
  BY <1>1, <1>5, <1>6 DEF HitsRight

\* A turn that counts the ball: the row at its bar grows, or a new one begins.
LEMMA CountedHit ==
  ASSUME NEW team, NEW k \in Nat, NEW s, HitsRight(s, team, k), s.hits < BarThreshold,
         barTeams[BarAgo(k + 1)] # team
  PROVE  HitsRight(Hit(s, BarAgo(k + 1), team), team, k + 1)
PROOF
<1> DEFINE n == k + 1
           p == BarAgo(n)
           r == Hit(s, p, team)
<1>1. BarThreshold \in Nat \ {0, 1} /\ s.hits \in 0 .. BarThreshold
      /\ NoneYet(team, k) /\ LongestHere(s, team, k)
  BY AnalysisAssumption DEF HitsRight
<1>2. n \in Nat /\ n >= 1 /\ n \in 1 .. k + 1
  OBVIOUS
<1>3. /\ Others(team, n) = Others(team, k) \union {n}
      /\ Others(team, k) \in SUBSET (1 .. k)
  BY OthersGrow, OthersBounded
<1>4. \A j \in 1 .. k + 1 :
        /\ Row(team, j, n) = Row(team, j, k) \union {n}
        /\ Cardinality(Row(team, j, k)) \in Nat
        /\ Cardinality(Row(team, j, n)) = Cardinality(Row(team, j, k)) + 1
  BY RowGrows
<1>5. r.player = p /\ r.hits = IF p = s.player THEN s.hits + 1 ELSE 1
  <2>1. r = [player |-> p, hits |-> IF p = s.player THEN s.hits + 1 ELSE 1]
    BY <1>1 DEF Hit
  <2> HIDE DEF r
  <2> QED BY <2>1
<1> HIDE DEF r
<1>6. r.hits \in 1 .. BarThreshold
  BY <1>1, <1>5
<1>7. \E j \in 1 .. k + 1 : Cardinality(Row(team, j, n)) = r.hits /\ AllAt(p, team, j, n)
  <2>1. CASE p = s.player
    <3>1. PICK j \in 1 .. k + 1 : Cardinality(Row(team, j, k)) = s.hits
                                  /\ AllAt(s.player, team, j, k)
      BY <1>1 DEF LongestHere
    <3>2. Cardinality(Row(team, j, n)) = r.hits
      BY <1>4, <1>5, <2>1, <3>1
    <3>3. AllAt(p, team, j, n)
      BY <1>4, <2>1, <3>1 DEF AllAt
    <3> QED BY <3>2, <3>3
  <2>2. CASE p # s.player
    <3>1. Row(team, n, k) = {} /\ Cardinality(Row(team, n, k)) = 0
      BY EmptyRow
    <3>2. Cardinality(Row(team, n, n)) = 1 /\ Row(team, n, n) = {n}
      BY <1>2, <1>4, <3>1
    <3>3. AllAt(p, team, n, n)
      BY <3>2 DEF AllAt
    <3> QED BY <1>2, <1>5, <2>2, <3>2, <3>3
  <2> QED BY <2>1, <2>2
<1>8. ASSUME NEW j \in 1 .. k + 1, AllAt(p, team, j, n)
      PROVE  Cardinality(Row(team, j, n)) <= r.hits
  <2>1. AllAt(p, team, j, k)
    BY <1>4, <1>8 DEF AllAt
  <2>2. CASE p = s.player
    <3>1. Cardinality(Row(team, j, k)) <= s.hits
      BY <1>1, <2>1, <2>2 DEF LongestHere
    <3> QED BY <1>1, <1>4, <1>5, <2>2, <3>1
  <2>3. CASE p # s.player
    <3>1. SUFFICES ASSUME Row(team, j, k) # {} PROVE FALSE
      <4>1. Row(team, j, k) = {} => Cardinality(Row(team, j, k)) = 0
        BY FS_EmptySet
      <4> QED BY <1>4, <1>5, <2>3, <4>1
    <3>2. PICK i : i \in Others(team, k) /\ i \notin Others(team, j - 1)
      BY <3>1 DEF Row
    <3>3. PICK m : Newest(m, team, k) /\ BarAgo(m) = s.player
      BY <1>1, <3>2 DEF LongestHere
    <3>4. i \in 1 .. k /\ m \in 1 .. k /\ i <= m /\ barTeams[BarAgo(i)] # team
      BY <1>3, <3>2, <3>3 DEF Newest, Others
    <3>5. j - 1 < i
      BY <3>2, <3>4 DEF Others
    <3>6. m \notin 1 .. j - 1
      BY <3>4, <3>5
    <3>7. m \in Row(team, j, k)
      BY <3>3, <3>6 DEF Row, Newest, Others
    <3> QED BY <2>1, <2>3, <3>3, <3>7 DEF AllAt
  <2> QED BY <2>2, <2>3
<1>9. RowEnds(team, n) <=> r.hits = BarThreshold
  <2>1. ASSUME NEW j \in 1 .. n, Cardinality(Row(team, j, n)) = BarThreshold,
               AllAt(p, team, j, n)
        PROVE  r.hits = BarThreshold
    BY <1>1, <1>6, <1>8, <2>1
  <2>2. RowEnds(team, n) <=> \E j \in 1 .. n : /\ Cardinality(Row(team, j, n)) = BarThreshold
                                               /\ AllAt(p, team, j, n)
    BY DEF RowEnds, AllAt
  <2> QED BY <1>7, <2>1, <2>2
<1>10. CASE r.hits = BarThreshold
  <2>1. FirstEnd(n, team, n)
    BY <1>1, <1>2, <1>3, <1>9, <1>10 DEF FirstEnd, NoneYet
  <2>2. ~(r.hits < BarThreshold)
    BY <1>1, <1>10
  <2> QED BY <1>1, <1>5, <1>6, <1>10, <2>1, <2>2 DEF HitsRight, r
<1>11. CASE r.hits # BarThreshold
  <2>1. NoneYet(team, n)
    BY <1>1, <1>3, <1>9, <1>11 DEF NoneYet
  <2>2. PICK j \in 1 .. k + 1 : Cardinality(Row(team, j, n)) = r.hits
                                /\ AllAt(r.player, team, j, n)
    BY <1>5, <1>7
  <2>3. j \in 1 .. n + 1
    OBVIOUS
  <2>4. ASSUME NEW i \in 1 .. n + 1, AllAt(r.player, team, i, n)
        PROVE  Cardinality(Row(team, i, n)) <= r.hits
    <3>1. CASE i = n + 1
      <4>1. Cardinality(Row(team, i, n)) = 0
        BY <1>2, <3>1, EmptyRow
      <4> QED BY <1>6, <4>1
    <3>2. CASE i # n + 1
      <4>1. i \in 1 .. k + 1
        BY <3>2
      <4> QED BY <1>5, <1>8, <2>4, <4>1
    <3> QED BY <3>1, <3>2
  <2>5. Newest(n, team, n) /\ BarAgo(n) = r.player
    BY <1>2, <1>3, <1>5 DEF Newest
  <2>6. LongestHere(r, team, n)
    BY <2>2, <2>3, <2>4, <2>5 DEF LongestHere
  <2> QED BY <1>6, <1>11, <2>1, <2>6 DEF HitsRight, r
<1> QED
  BY <1>10, <1>11

\* The history before the write position is the log, newest first.
LEMMA LookedBackIsLog ==
  ASSUME BallRing, NEW k \in 1 .. HistoryCount
  PROVE  LookedBack(k).bar = BarAgo(k)
PROOF
<1>1. HistoryCount \in Nat \ {0} /\ ballCur \in 0 .. HistoryCount - 1
  BY AnalysisAssumption DEF BallRing
<1>2. (ballCur + HistoryCount - k) % HistoryCount = Behind(ballCur, k, HistoryCount)
  BY <1>1 DEF Behind
<1>3. balls[Behind(ballCur, k, HistoryCount)] =
        IF k <= Len(recent) THEN recent[k] ELSE Corner
  BY DEF BallRing, RingShows
<1> QED
  BY <1>2, <1>3 DEF LookedBack, BarAgo

\* Every state of the loop says what it should.
LEMMA LoopCounts ==
  ASSUME BallRing, NEW team, NEW w \in 0 .. HistoryCount, NEW h, Loop(h, w, team)
  PROVE  HitsRight(h[w], team, w)
PROOF
<1> DEFINE S == {k \in 0 .. w : HitsRight(h[k], team, k)}
<1>1. w \in Nat /\ HistoryCount \in Nat
  BY AnalysisAssumption
<1>2. 0 \in S
  BY <1>1, CountedInit DEF Loop
<1>3. ASSUME NEW k \in 0 .. w - 1, k \in S PROVE k + 1 \in S
  <2>1. k \in Nat /\ k + 1 \in 0 .. w /\ k + 1 \in 1 .. HistoryCount
    BY <1>1
  <2>2. h[k + 1] = Hit(h[k], BarAgo(k + 1), team)
    BY <2>1, LookedBackIsLog DEF Loop
  <2>3. HitsRight(h[k], team, k)
    BY <1>3
  <2>4. BarThreshold \in Nat /\ h[k].hits \in 0 .. BarThreshold
    BY <2>3, AnalysisAssumption DEF HitsRight
  <2>5. CASE h[k].hits = BarThreshold
    <3>1. h[k + 1] = h[k]
      BY <2>2, <2>5 DEF Hit
    <3> QED BY <2>1, <2>3, <2>5, <3>1, CountedDone
  <2>6. CASE barTeams[BarAgo(k + 1)] = team
    <3>1. h[k + 1] = h[k]
      BY <2>2, <2>6 DEF Hit
    <3> QED BY <2>1, <2>3, <2>6, <3>1, CountedSkip
  <2>7. CASE h[k].hits # BarThreshold /\ barTeams[BarAgo(k + 1)] # team
    <3>1. h[k].hits < BarThreshold
      BY <2>4, <2>7
    <3> QED BY <2>1, <2>2, <2>3, <2>7, <3>1, CountedHit
  <2> QED BY <2>5, <2>6, <2>7
<1> HIDE DEF S
<1>4. \A k \in 0 .. w : k \in S
  BY <1>1, <1>2, <1>3, UpTo
<1>5. w \in 0 .. w
  BY <1>1
<1> QED
  BY <1>4, <1>5 DEF S

\* getPlayerWhoScored finds the scorer whenever the ring is true to its log.
LEMMA ScorerFound ==
  ASSUME BallRing, NEW team, NEW fps \in FPS
  PROVE  getPlayerWhoScored(team, fps) = Scorer(team, fps)
PROOF
<1> DEFINE w == Min({LookBack(fps), HistoryCount})
           ends == {k \in Others(team, w) : RowEnds(team, k)}
<1>1. HistoryCount \in Nat /\ fps \in Nat /\ PlayerWindow \in Nat
  BY AnalysisAssumption
<1>2. LookBack(fps) \in Nat
  BY <1>1, Scaled DEF LookBack, Frames
<1>3. w \in 0 .. HistoryCount
  BY <1>1, <1>2, LesserOfTwo
<1> HIDE DEF w
<1>4. w \in Nat
  BY <1>1, <1>3
<1>5. PICK h : Loop(h, w, team) /\ HitsOver(w, team) = h[w]
  BY <1>4, LoopTurns
<1>6. getPlayerWhoScored(team, fps) = IF h[w].hits = BarThreshold THEN h[w].player ELSE 0
  BY <1>5 DEF getPlayerWhoScored, w
<1>7. Scorer(team, fps) = IF ends = {} THEN 0 ELSE BarAgo(Min(ends))
  BY DEF Scorer, w
<1>8. HitsRight(h[w], team, w)
  BY <1>3, <1>5, LoopCounts
<1>9. w \in Nat /\ Others(team, w) \in SUBSET (1 .. w)
  BY <1>1, <1>3, OthersBounded
<1>10. CASE h[w].hits = BarThreshold
  <2>1. PICK m : FirstEnd(m, team, w) /\ BarAgo(m) = h[w].player
    BY <1>8, <1>10 DEF HitsRight
  <2>2. ends \in SUBSET Nat /\ m \in ends /\ \A i \in ends : m <= i
    BY <1>9, <2>1 DEF FirstEnd
  <2> HIDE DEF ends
  <2>3. Min(ends) \in ends /\ Min(ends) <= m
    BY <2>2, MinOfIndices
  <2>4. Min(ends) \in Nat /\ m \in Nat /\ m <= Min(ends)
    BY <2>2, <2>3
  <2>5. Min(ends) = m
    BY <2>3, <2>4
  <2> QED BY <1>6, <1>7, <1>10, <2>1, <2>2, <2>5
<1>11. CASE h[w].hits # BarThreshold
  <2>1. NoneYet(team, w)
    BY <1>8, <1>11, AnalysisAssumption DEF HitsRight
  <2>2. ends = {}
    BY <2>1 DEF NoneYet
  <2> QED BY <1>6, <1>7, <1>11, <2>2
<1> QED
  BY <1>10, <1>11

\* PlayerByReference of BallAnalysis: the bar a goal is credited to is the one
\* at which the first BarThreshold balls in a row were, wherever the ring
\* stands and however often it has wrapped (analysis.cpp:133-164).
THEOREM ScorerIsRightBar == AnalysisSpec => []PlayerByReference
PROOF
<1>1. BallRing => PlayerByReference
  BY ScorerFound DEF PlayerByReference
<1>2. AnalysisInit => SpeedRing /\ BallRing
  BY RingsInit
<1>3. SpeedRing /\ BallRing /\ [analysis_update]_analysisVars => (SpeedRing /\ BallRing)'
  BY RingsNext
<1> QED
  BY <1>1, <1>2, <1>3, PTL DEF AnalysisSpec
=============================================================================
