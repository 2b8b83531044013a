---------------------------- MODULE PlayerProofs ----------------------------
(***************************************************************************)
(* The hand-over of frames in the player, for every number and size of     *)
(* input buffers and every file: the two semaphores and the GL thread hold *)
(* one token per notification of the callback.  From this, how far the     *)
(* texture and what is shown can be apart.                                 *)
(*                                                                         *)
(* Then the player's pipeline, for every number of event structures and of *)
(* refusals: no event structure is lost.  Beside the count the invariant   *)
(* says that whatever statement the client has come to, its argument names *)
(* components and tunnels of the player, for only then does an event that  *)
(* is dropped or taken out belong to one of the lists that are counted.    *)
(***************************************************************************)
EXTENDS Player, PlayerPipeline, FiniteSetTheorems, SequenceTheorems, TLAPS

\* The part of the state the hand-over depends on.
HandOver ==
  /\ semNewFrame \in Nat /\ semFinishedFrame \in Nat
  /\ gl \in {"wait", "read", "finished"}
  /\ callback \in {"idle", "notify", "wait", "fill"}

Tokens == HandOver /\ TokensConserved

\* Initially the one token is in semFinishedFrame (triangle.c:293-298).
LEMMA TokensInit == Init => Tokens
BY DEF Init, Tokens, HandOver, TokensConserved

\* Only the callback and the GL thread touch the semaphores, and each of their
\* steps moves a token or leaves it (video.c:77-93, triangle.c:240-248).
LEMMA TokensStep == Tokens /\ [Next]_vars => Tokens'
<1> SUFFICES ASSUME Tokens, [Next]_vars PROVE Tokens'
  OBVIOUS
<1> USE DEF Tokens, HandOver, TokensConserved, semVars
<1>1. CASE Decoder
  BY <1>1 DEF Decoder, GetInputBuffer, Read, PortSettings, Submit, TearDown
<1>2. CASE Decode
  BY <1>2 DEF Decode
<1>3. CASE BeginWrite
  BY <1>3 DEF BeginWrite
<1>4. CASE EndWrite
  BY <1>4 DEF EndWrite
<1>5. CASE Notify
  BY <1>5 DEF Notify
<1>6. CASE WaitFinished
  BY <1>6 DEF WaitFinished, MayFill
<1>7. CASE FillThisBuffer
  BY <1>7 DEF FillThisBuffer
<1>8. CASE WaitNewFrame
  BY <1>8 DEF WaitNewFrame
<1>9. CASE ProcessImage
  BY <1>9 DEF ProcessImage
<1>10. CASE PostFinished
  BY <1>10 DEF PostFinished, Finished
<1>11. CASE UNCHANGED vars
  BY <1>11 DEF vars
<1> QED
  BY <1>1, <1>2, <1>3, <1>4, <1>5, <1>6, <1>7, <1>8, <1>9, <1>10, <1>11
     DEF Next, OpenMAX, Callback, redraw_scene

\* No notification is lost or answered twice, whatever the decoder does.
THEOREM TokensAlways == Spec => []TokensConserved
<1>1. Tokens => TokensConserved
  BY DEF Tokens
<1> QED
  BY TokensInit, TokensStep, <1>1, PTL DEF Spec

\* What conservation is worth: at most two frames are announced and not yet
\* drawn, and the callback and the GL thread never wait for each other at the
\* same time.
NeverBothWaiting ==
  ~(callback = "wait" /\ semFinishedFrame = 0 /\ gl = "wait" /\ semNewFrame = 0)

THEOREM HandOverNeverStuck == Spec => [](NeverBothWaiting /\ semNewFrame <= 2)
<1>1. Tokens => NeverBothWaiting /\ semNewFrame <= 2
  BY DEF Tokens, HandOver, TokensConserved, NeverBothWaiting
<1> QED
  BY TokensInit, TokensStep, <1>1, PTL DEF Spec

-----------------------------------------------------------------------------
(* The picture never goes back                                              *)

Frame == 0 .. Frames - 1
Plus(f, k) == IF f + k < Frames THEN f + k ELSE f + k - Frames

\* Frame numbers wrap, but the frames under way are fewer than there are
\* numbers.
LEMMA NumberOfFrame ==
  ASSUME NEW n \in 0 .. 2 * Frames - 1
  PROVE  n % Frames = IF n < Frames THEN n ELSE n - Frames
<1> Frames \in Nat /\ Frames >= 6
  BY PlayerAssumption
<1> DEFINE m == n % Frames
           q == n \div Frames
<1>1. n = Frames * q + m /\ m \in 0 .. Frames - 1 /\ q \in Int
  BY PlayerAssumption
<1> HIDE DEF m, q
<1>2. q = 0 \/ q = 1
  <2>1. CASE q >= 2
    <3>1. Frames * q >= Frames * 2
      BY <1>1, <2>1
    <3>2. QED
      BY <1>1, <3>1
  <2>2. CASE q <= -1
    <3>1. Frames * q <= Frames * (-1)
      BY <1>1, <2>2
    <3>2. QED
      BY <1>1, <3>1
  <2>3. QED
    BY <1>1, <2>1, <2>2
<1>3. QED
  BY <1>1, <1>2 DEF m

LEMMA NextFrame ==
  ASSUME NEW f \in Frame
  PROVE  Up(f) \in Frame /\ Up(f) = Plus(f, 1)
<1>1. Frames \in Nat /\ Frames >= 6
  BY PlayerAssumption
<1>2. f + 1 \in 0 .. 2 * Frames - 1
  BY <1>1 DEF Frame
<1>3. Up(f) = IF f + 1 < Frames THEN f + 1 ELSE f + 1 - Frames
  <2>1. PICK n \in 0 .. 2 * Frames - 1 : n = f + 1
    BY <1>2
  <2>2. n % Frames = IF n < Frames THEN n ELSE n - Frames
    BY NumberOfFrame
  <2>3. Up(f) = n % Frames
    BY <2>1 DEF Up
  <2>4. Up(f) = IF n < Frames THEN n ELSE n - Frames
    BY <2>2, <2>3, Zenon
  <2>5. QED
    BY <1>1, <2>1, <2>4 DEF Frame
<1>4. QED
  BY <1>1, <1>3 DEF Frame, Plus

LEMMA FramesOn ==
  ASSUME NEW f \in Frame, NEW j \in 0 .. 4, NEW k \in 0 .. 4
  PROVE  /\ Plus(f, k) \in Frame /\ Plus(f, 0) = f
         /\ j + k <= 4 => Plus(Plus(f, k), j) = Plus(f, k + j)
<1>1. Frames \in Nat /\ Frames >= 6 /\ f \in Nat /\ f < Frames
  BY PlayerAssumption DEF Frame
<1>2. PICK h \in Int : h = Plus(f, k)
  BY <1>1 DEF Plus
<1>3. /\ h = IF f + k < Frames THEN f + k ELSE f + k - Frames
      /\ Plus(h, j) = IF h + j < Frames THEN h + j ELSE h + j - Frames
      /\ Plus(f, k + j) = IF f + (k + j) < Frames THEN f + (k + j) ELSE f + (k + j) - Frames
      /\ Plus(f, 0) = IF f + 0 < Frames THEN f + 0 ELSE f + 0 - Frames
  BY <1>2 DEF Plus
<1>4. h \in Frame /\ Plus(f, 0) = f
  BY <1>1, <1>3 DEF Frame
<1>5. j + k <= 4 => Plus(h, j) = Plus(f, k + j)
  BY <1>1, <1>3
<1>6. QED
  BY <1>2, <1>4, <1>5

LEMMA FramesBetween ==
  ASSUME NEW f \in Frame, NEW j \in 0 .. 4, NEW k \in 0 .. 4, j <= k
  PROVE  Behind(Plus(f, k), Plus(f, j)) = k - j
<1>1. Frames \in Nat /\ Frames >= 6
  BY PlayerAssumption
<1>2. /\ Plus(f, k) \in Frame /\ Plus(f, j) \in Frame
      /\ Plus(f, k) = IF f + k < Frames THEN f + k ELSE f + k - Frames
      /\ Plus(f, j) = IF f + j < Frames THEN f + j ELSE f + j - Frames
  BY <1>1 DEF Frame, Plus
<1> DEFINE n == Plus(f, k) - Plus(f, j) + Frames
<1>3. n \in 0 .. 2 * Frames - 1 /\ (IF n < Frames THEN n ELSE n - Frames) = k - j
  BY <1>1, <1>2 DEF Frame
<1>4. QED
  BY <1>3, NumberOfFrame DEF Behind

\* Frames that were begun and that the GL thread has not been told of and
\* waited for.
Pending ==
  semNewFrame + (IF callback = "notify" THEN 1 ELSE 0) + (IF texture # written THEN 1 ELSE 0)

\* OpenMAX writes only when the callback has asked it to, and then the next
\* frame; before the first request there is none.
WriterInStage ==
  /\ fill \in {"none", "asked", "writing"}
  /\ fill # "none" => callback = "idle"
  /\ texture # written => callback = "idle" /\ fill # "asked"
  /\ ~port_settings_changed => callback = "idle" /\ texture = written /\ fill = "none"

\* The frame in the texture is later than those the GL thread began to read and
\* showed last, but no more than are pending, or one more while it reads.
At(d, e) ==
  /\ shown \in Frame /\ d <= e
  /\ texture = Plus(shown, e) /\ reading = Plus(shown, e - d)
  /\ d <= Pending
  /\ (gl = "read" => e <= Pending + 1) /\ (gl # "read" => e = d)
Lag == \E d \in 0 .. 3, e \in 0 .. 3 : At(d, e)

PictureInv == Tokens /\ WriterInStage /\ Lag

PendingFew == Pending \in 0 .. 2 /\ (gl # "wait" => Pending <= 1)
LEMMA PendingBound == Tokens /\ WriterInStage => PendingFew
BY DEF Tokens, HandOver, TokensConserved, WriterInStage, Pending, PendingFew

LEMMA PictureInit == Init => PictureInv
<1> SUFFICES ASSUME Init PROVE PictureInv
  OBVIOUS
<1>1. Tokens
  BY TokensInit
<1>2. WriterInStage /\ Pending = 0
  BY DEF Init, WriterInStage, Pending
<1>3. 0 \in Frame /\ Plus(0, 0) = 0
  BY PlayerAssumption DEF Frame, Plus
<1>4. \E d \in 0 .. 3, e \in 0 .. 3 :
        /\ shown \in Frame /\ d <= e
        /\ texture = Plus(shown, e) /\ reading = Plus(shown, e - d)
        /\ d <= Pending
        /\ (gl = "read" => e <= Pending + 1) /\ (gl # "read" => e = d)
  <2>1. /\ shown \in Frame /\ 0 <= 0
        /\ texture = Plus(shown, 0) /\ reading = Plus(shown, 0 - 0)
        /\ 0 <= Pending
        /\ (gl = "read" => 0 <= Pending + 1) /\ (gl # "read" => 0 = 0)
    BY <1>2, <1>3 DEF Init
  <2>2. 0 \in 0 .. 3
    OBVIOUS
  <2>3. QED
    BY <2>1, <2>2
<1>5. QED
  BY <1>1, <1>2, <1>4 DEF PictureInv, Lag, At

LEMMA WriterStep == Tokens /\ WriterInStage /\ [Next]_vars => WriterInStage'
<1> SUFFICES ASSUME Tokens, WriterInStage, [Next]_vars PROVE WriterInStage'
  OBVIOUS
<1> USE DEF WriterInStage, semVars, fileVars, omxVars, texVars, glVars
<1>1. CASE Decoder
  BY <1>1 DEF Decoder, GetInputBuffer, Read, PortSettings, Submit, TearDown
<1>2. CASE OpenMAX
  BY <1>2 DEF OpenMAX, Decode, BeginWrite, EndWrite
<1>3. CASE Callback
  BY <1>3 DEF Callback, Notify, WaitFinished, FillThisBuffer
<1>4. CASE redraw_scene
  BY <1>4 DEF redraw_scene, WaitNewFrame, ProcessImage, PostFinished
<1>5. CASE UNCHANGED vars
  BY <1>5 DEF vars
<1>6. QED
  BY <1>1, <1>2, <1>3, <1>4, <1>5 DEF Next

\* The distances in the next state, and what they say of ShowsRecent.
LEMMA Moved ==
  ASSUME PendingFew', NEW a \in 0 .. 4, NEW b \in 0 .. 4, a <= b, NEW g \in Frame,
         shown' = g, texture' = Plus(g, b), reading' = Plus(g, b - a), a <= Pending',
         (gl' = "read" => b <= Pending' + 1) /\ (gl' # "read" => b = a)
  PROVE  Lag' /\ Behind(texture', shown') <= 2
<1>1. PICK p \in 0 .. 2 : p = Pending' /\ (gl' # "wait" => p <= 1)
  BY DEF PendingFew
<1>2. b <= 2 /\ a \in 0 .. 3 /\ b \in 0 .. 3
  <2>1. (gl' = "read" => b <= p + 1) /\ (gl' # "read" => b = a)
    BY <1>1
  <2>2. CASE gl' = "read"
    <3>1. p <= 1 /\ b <= p + 1
      BY <1>1, <2>1, <2>2
    <3>2. QED
      BY <3>1
  <2>3. CASE gl' # "read"
    <3>1. a <= p /\ b = a
      BY <1>1, <2>1, <2>3
    <3>2. QED
      BY <3>1
  <2>4. QED
    BY <2>2, <2>3
<1>3. Lag'
  BY <1>2 DEF Lag, At
<1>4. Behind(Plus(g, b), Plus(g, 0)) = b - 0 /\ Plus(g, 0) = g
  BY FramesBetween, FramesOn
<1>5. QED
  BY <1>2, <1>3, <1>4

\* No step moves the frames by more than ShowsRecent allows.
Recent == Behind(shown', shown) <= 3 /\ Behind(texture', shown') <= 2
LEMMA PictureStep == PictureInv /\ [Next]_vars => PictureInv' /\ [Recent]_vars
<1> SUFFICES ASSUME PictureInv, [Next]_vars PROVE PictureInv' /\ [Recent]_vars
  OBVIOUS
<1>1. Tokens' /\ WriterInStage' /\ PendingFew /\ PendingFew'
  <2>1. Tokens' /\ WriterInStage' => PendingFew'
    BY PendingBound, PTL
  <2>2. QED
    BY <2>1, TokensStep, WriterStep, PendingBound DEF PictureInv
<1>2. PICK d \in 0 .. 3, e \in 0 .. 3 : At(d, e)
  BY DEF PictureInv, Lag
<1>3. PICK f \in Frame : f = shown
  BY <1>2 DEF At
<1>4. /\ d \in 0 .. 4 /\ e \in 0 .. 4
      /\ d <= e /\ texture = Plus(f, e) /\ reading = Plus(f, e - d) /\ d <= Pending
      /\ (gl = "read" => e <= Pending + 1) /\ (gl # "read" => e = d)
  BY <1>2, <1>3 DEF At
<1>5. PICK p \in 0 .. 2 : p = Pending /\ (gl # "wait" => p <= 1)
  BY <1>1 DEF PendingFew
<1>6. Behind(f, f) = 0 /\ Plus(f, 0) = f
  BY FramesOn, FramesBetween
<1>7. ASSUME UNCHANGED <<shown, texture, reading, gl>>, Pending <= Pending', Pending' \in Nat
      PROVE  PictureInv' /\ [Recent]_vars
  <2>1. d <= Pending' /\ (gl' = "read" => e <= Pending' + 1) /\ (gl' # "read" => e = d)
    <3>1. PICK q \in Nat : q = Pending'
      BY <1>7
    <3>2. p <= q /\ d <= p /\ (gl = "read" => e <= p + 1) /\ (gl # "read" => e = d)
      BY <1>4, <1>5, <1>7, <3>1
    <3>3. d <= q /\ (gl = "read" => e <= q + 1) /\ (gl # "read" => e = d)
      BY <3>2
    <3>4. gl' = gl
      BY <1>7
    <3>5. (gl' = "read" => e <= q + 1) /\ (gl' # "read" => e = d)
      BY <3>3, <3>4
    <3>6. d <= Pending'
      BY <3>1, <3>3
    <3>7. gl' = "read" => e <= Pending' + 1
      BY <3>1, <3>5
    <3>8. gl' # "read" => e = d
      BY <3>3, <3>4
    <3>9. QED
      BY <3>6, <3>7, <3>8
  <2>2. Lag' /\ Behind(texture', shown') <= 2
    BY <1>1, <1>3, <1>4, <1>7, <2>1, Moved
  <2>3. Behind(shown', shown) = 0
    BY <1>3, <1>6, <1>7
  <2>4. QED
    BY <1>1, <2>2, <2>3 DEF PictureInv, Recent
<1>8. ASSUME UNCHANGED <<shown, texture, reading, gl, semNewFrame, written>>,
             callback' = "notify" <=> callback = "notify"
      PROVE  PictureInv' /\ [Recent]_vars
  <2>1. Pending' = Pending
    BY <1>8 DEF Pending
  <2>2. QED
    BY <1>5, <1>7, <1>8, <2>1
<1>9. CASE Decoder
  BY <1>8, <1>9 DEF Decoder, GetInputBuffer, Read, PortSettings, Submit, TearDown,
     semVars, fileVars, omxVars, texVars, glVars
<1>10. CASE Decode
  BY <1>8, <1>10 DEF Decode, semVars, texVars, glVars
<1>11. CASE BeginWrite
  <2>1. /\ texture = written /\ texture' = Up(written)
        /\ UNCHANGED <<shown, reading, gl, semNewFrame, callback, written>>
    BY <1>11 DEF BeginWrite, PictureInv, WriterInStage, semVars, glVars
  <2>2. texture' = Plus(f, e + 1) /\ texture' # written
    <3>1. Up(Plus(f, e)) = Plus(Plus(f, e), 1) /\ Plus(f, e) \in Frame
      BY FramesOn, NextFrame
    <3>2. Plus(Plus(f, e), 1) = Plus(f, e + 1)
      BY FramesOn
    <3>3. Behind(Plus(f, e + 1), Plus(f, e)) = (e + 1) - e /\ Behind(Plus(f, e), Plus(f, e)) = e - e
      BY FramesBetween
    <3>4. Plus(f, e + 1) # Plus(f, e)
      BY <3>3
    <3>5. written = Plus(f, e)
      BY <1>4, <2>1
    <3>6. texture' = Plus(f, e + 1)
      BY <2>1, <3>1, <3>2, <3>5
    <3>7. QED
      BY <3>4, <3>5, <3>6
  <2>3. Pending' = p + 1
    <3>1. Pending = semNewFrame + (IF callback = "notify" THEN 1 ELSE 0) + 0
      BY <2>1 DEF Pending
    <3>2. Pending' = semNewFrame + (IF callback = "notify" THEN 1 ELSE 0) + 1
      BY <2>1, <2>2 DEF Pending
    <3>3. QED
      BY <1>5, <3>1, <3>2 DEF PictureInv, Tokens, HandOver
  <2>4. /\ d + 1 \in 0 .. 4 /\ e + 1 \in 0 .. 4 /\ d + 1 <= e + 1 /\ d + 1 <= p + 1
        /\ (e + 1) - (d + 1) = e - d
        /\ (gl' = "read" => e + 1 <= (p + 1) + 1) /\ (gl' # "read" => e + 1 = d + 1)
    BY <1>4, <1>5, <2>1
  <2>5. reading' = Plus(f, (e + 1) - (d + 1))
    BY <1>4, <2>1, <2>4
  <2>6. Lag' /\ Behind(texture', shown') <= 2
    BY <1>1, <1>3, <2>1, <2>2, <2>3, <2>4, <2>5, Moved
  <2>7. QED
    BY <1>1, <1>3, <1>6, <2>1, <2>6 DEF PictureInv, Recent
<1>12. CASE EndWrite
  <2>1. /\ UNCHANGED <<shown, texture, reading, gl, semNewFrame>>
        /\ callback # "notify" /\ callback' = "notify" /\ written' = texture
    BY <1>12 DEF EndWrite, semVars, glVars
  <2>2. Pending <= Pending' /\ Pending' \in Nat
    BY <1>5, <2>1 DEF Pending, PictureInv, Tokens, HandOver
  <2>3. QED
    BY <1>7, <2>1, <2>2
<1>13. CASE Notify
  <2>1. /\ UNCHANGED <<shown, texture, reading, gl, written>>
        /\ callback = "notify" /\ callback' = "wait" /\ semNewFrame' = semNewFrame + 1
    BY <1>13 DEF Notify, texVars, glVars
  <2>2. Pending' = Pending
    BY <2>1 DEF Pending, PictureInv, Tokens, HandOver
  <2>3. QED
    BY <1>5, <1>7, <2>1, <2>2
<1>14. CASE WaitFinished \/ FillThisBuffer
  BY <1>8, <1>14 DEF WaitFinished, FillThisBuffer, semVars, texVars, glVars
<1>15. CASE WaitNewFrame
  <2>1. /\ UNCHANGED <<shown, texture, callback, written>> /\ reading' = texture
        /\ gl = "wait" /\ gl' = "read" /\ semNewFrame' = semNewFrame - 1
    BY <1>15 DEF WaitNewFrame, texVars
  <2>2. Pending' = p - 1
    BY <1>5, <2>1 DEF Pending, PictureInv, Tokens, HandOver
  <2>3. e <= (p - 1) + 1 /\ 0 <= p - 1
    <3>1. Pending' \in 0 .. 2
      BY <1>1 DEF PendingFew
    <3>2. QED
      BY <1>4, <1>5, <2>1, <2>2, <3>1
  <2>4. 0 \in 0 .. 4 /\ e \in 0 .. 4 /\ 0 <= e /\ e - 0 = e
    OBVIOUS
  <2>5. reading' = Plus(f, e - 0)
    BY <1>4, <2>1, <2>4
  <2>6. Lag' /\ Behind(texture', shown') <= 2
    BY <1>1, <1>3, <1>4, <2>1, <2>2, <2>3, <2>4, <2>5, Moved
  <2>7. QED
    BY <1>1, <1>3, <1>6, <2>1, <2>6 DEF PictureInv, Recent
<1>16. CASE ProcessImage
  <2>1. /\ UNCHANGED <<texture, reading, semNewFrame, callback, written>>
        /\ shown' = reading /\ gl = "read" /\ gl' = "finished"
    BY <1>16 DEF ProcessImage, semVars, texVars
  <2>2. PICK g \in Frame : g = Plus(f, e - d)
    BY <1>4, FramesOn
  <2>3. Pending' = Pending
    BY <2>1 DEF Pending
  <2>4. e - d \in 0 .. 3 /\ d \in 0 .. 4 /\ e \in 0 .. 4 /\ (e - d) + d = e /\ d - d = 0
    BY <1>4
  <2>5. Plus(g, d) = Plus(f, e)
    <3>1. Plus(Plus(f, e - d), d) = Plus(f, (e - d) + d)
      BY <2>4, FramesOn
    <3>2. QED
      BY <2>2, <2>4, <3>1
  <2>6. shown' = g /\ texture' = Plus(g, d) /\ reading' = Plus(g, d - d) /\ d <= d
    <3>1. Plus(g, 0) = g
      BY FramesOn
    <3>2. QED
      BY <1>4, <2>1, <2>2, <2>4, <2>5, <3>1
  <2>7. Lag' /\ Behind(texture', shown') <= 2
    BY <1>1, <1>4, <2>1, <2>3, <2>4, <2>6, Moved
  <2>8. Behind(Plus(f, e - d), Plus(f, 0)) = (e - d) - 0
    BY <2>4, FramesBetween
  <2>9. Behind(shown', shown) <= 3
    BY <1>3, <1>6, <2>2, <2>4, <2>6, <2>8
  <2>10. QED
    BY <1>1, <2>7, <2>9 DEF PictureInv, Recent
<1>17. CASE PostFinished
  <2>1. /\ UNCHANGED <<shown, texture, reading, semNewFrame, callback, written>>
        /\ gl = "finished" /\ gl' = "wait"
    BY <1>17 DEF PostFinished, texVars, glVars
  <2>2. Pending' = Pending /\ e = d
    BY <1>4, <2>1 DEF Pending
  <2>3. Lag' /\ Behind(texture', shown') <= 2
    BY <1>1, <1>3, <1>4, <2>1, <2>2, Moved
  <2>4. QED
    BY <1>1, <1>3, <1>6, <2>1, <2>3 DEF PictureInv, Recent
<1>18. CASE UNCHANGED vars
  BY <1>8, <1>18 DEF vars, semVars, texVars, glVars
<1>19. QED
  BY <1>9, <1>10, <1>11, <1>12, <1>13, <1>14, <1>15, <1>16, <1>17, <1>18
     DEF Next, OpenMAX, Callback, redraw_scene

\* The picture never goes back and is never more than two frames behind what
\* has begun to be written, whatever the file, the number of input buffers and
\* the schedule of the threads (video.c:77-93, triangle.c:240-248).
THEOREM PictureNeverGoesBack == Spec => ShowsRecent
<1>1. PictureInv /\ [Next]_vars
        => [Behind(shown', shown) <= 3 /\ Behind(texture', shown') <= 2]_vars
  BY PictureStep DEF Recent
<1>2. PictureInv /\ [Next]_vars => PictureInv'
  BY PictureStep
<1>3. QED
  BY PictureInit, <1>1, <1>2, PTL DEF Spec, ShowsRecent

-----------------------------------------------------------------------------
(* Lists                                                                    *)

\* A set of natural numbers has a least element: of the intervals from 0 to
\* one of them, one has no other as a strict subset.
LEMMA LeastNumber ==
  ASSUME NEW S \in SUBSET Nat, S # {}
  PROVE  \E m \in S : \A i \in S : m <= i
PROOF
<1> DEFINE T == {0 .. x : x \in S}
<1>1. T \subseteq FiniteSubsetsOf(Nat)
  <2>1. SUFFICES ASSUME NEW x \in S PROVE 0 .. x \in FiniteSubsetsOf(Nat)
    OBVIOUS
  <2>2. x \in Nat /\ 0 .. x \subseteq Nat
    OBVIOUS
  <2>3. IsFiniteSet(0 .. x)
    BY <2>2, FS_Interval
  <2> QED BY <2>2, <2>3 DEF FiniteSubsetsOf
<1>2. T # {}
  OBVIOUS
<1> HIDE DEF T
<1>3. PICK t \in T : \A u \in T : ~ (<<u, t>> \in StrictSubsetOrdering(Nat))
  BY <1>1, <1>2, FS_StrictSubsetOrderingWellFounded, WFMin
<1> USE DEF T
<1>4. PICK m \in S : t = 0 .. m
  OBVIOUS
<1>5. ASSUME NEW i \in S, i < m PROVE FALSE
  <2>1. 0 .. i \in T
    OBVIOUS
  <2>2. 0 .. i \in SUBSET Nat /\ 0 .. m \in SUBSET Nat /\ 0 .. i \subseteq 0 .. m
    BY <1>5
  <2>3. m \in 0 .. m /\ m \notin 0 .. i
    BY <1>5
  <2>4. 0 .. i # 0 .. m
    BY <2>3
  <2>5. <<0 .. i, 0 .. m>> \in StrictSubsetOrdering(Nat)
    BY <2>2, <2>4 DEF StrictSubsetOrdering
  <2> QED BY <1>3, <1>4, <2>1, <2>5
<1> QED
  BY <1>5

\* Min and Max return the least and the greatest of a set of indices.
LEMMA MinOfIndices ==
  ASSUME NEW S \in SUBSET Nat, S # {}
  PROVE  Min(S) \in S /\ \A i \in S : Min(S) <= i
PROOF
<1>1. \E x \in S : \A y \in S : x =< y
  BY LeastNumber
<1> QED
  BY <1>1 DEF Min
LEMMA MaxOfIndices ==
  ASSUME NEW n \in Nat, NEW S \in SUBSET Nat, S # {}, \A i \in S : i <= n
  PROVE  Max(S) \in S /\ \A i \in S : i <= Max(S)
PROOF
<1> DEFINE T == {n - i : i \in S}
<1>1. T \in SUBSET Nat
  OBVIOUS
<1>2. PICK s \in S : TRUE
  OBVIOUS
<1>3. n - s \in T
  OBVIOUS
<1>4. PICK t \in T : \A u \in T : t <= u
  BY <1>1, <1>3, LeastNumber
<1>5. PICK m \in S : t = n - m
  OBVIOUS
<1>6. \A i \in S : t <= n - i
  BY <1>4
<1>7. \A i \in S : i <= m
  BY <1>5, <1>6
<1>8. \E x \in S : \A y \in S : x >= y
  BY <1>7
<1> QED
  BY <1>8 DEF Max

\* Induction up to a number, over a set.
LEMMA UpTo ==
  ASSUME NEW w \in Nat, NEW S, 0 \in S, \A k \in 0 .. w - 1 : k \in S => k + 1 \in S
  PROVE  \A k \in 0 .. w : k \in S
PROOF
<1> DEFINE Absent == {k \in 0 .. w : k \notin S}
<1>1. SUFFICES ASSUME Absent # {} PROVE FALSE
  OBVIOUS
<1>2. Absent \in SUBSET Nat
  OBVIOUS
<1>3. PICK m \in Absent : \A i \in Absent : m <= i
  BY <1>1, <1>2, LeastNumber
<1>4. m \in 1 .. w
  BY <1>3
<1>5. m - 1 \in 0 .. w - 1 /\ m - 1 \in 0 .. w /\ (m - 1) + 1 = m
  BY <1>4
<1>6. m - 1 \notin Absent
  BY <1>3, <1>4
<1> QED
  BY <1>3, <1>5, <1>6

\* The greatest of a set of turns, and of an interval.
LEMMA LastTurn ==
  ASSUME NEW n \in Nat, NEW t \in SUBSET (1 .. n), n \in t
  PROVE  Max(t) = n
PROOF
<1>1. t \in SUBSET Nat /\ t # {} /\ \A i \in t : i <= n
  OBVIOUS
<1>2. Max(t) \in t /\ \A i \in t : i <= Max(t)
  BY <1>1, MaxOfIndices
<1>3. Max(t) \in Nat /\ Max(t) <= n /\ n <= Max(t)
  BY <1>1, <1>2
<1> QED
  BY <1>3
LEMMA TopOfInterval ==
  ASSUME NEW k \in Nat \ {0}
  PROVE  1 .. k # {} /\ Max(1 .. k) = k /\ (1 .. k) \ {k} = 1 .. k - 1
PROOF
<1>1. k \in 1 .. k /\ 1 .. k \in SUBSET (1 .. k) /\ k \in Nat
  OBVIOUS
<1>2. Max(1 .. k) = k
  BY <1>1, LastTurn
<1> QED
  BY <1>1, <1>2

\* A list of events, whatever the events are.
IsList(s) == \E S : s \in Seq(S)

LEMMA ListLength ==
  ASSUME NEW s, IsList(s)
  PROVE  Len(s) \in Nat /\ DOMAIN s = 1 .. Len(s)
PROOF
<1>1. PICK S : s \in Seq(S)
  BY DEF IsList
<1> QED
  BY <1>1, LenProperties

LEMMA NoList == IsList(<<>>) /\ Len(<<>>) = 0
PROOF
<1>1. <<>> \in Seq({}) /\ Len(<<>>) = 0
  BY EmptySeq
<1> QED
  BY <1>1 DEF IsList

LEMMA ListGrows ==
  ASSUME NEW s, IsList(s), NEW e
  PROVE  /\ IsList(<<e>> \o s) /\ Len(<<e>> \o s) = Len(s) + 1
         /\ IsList(Append(s, e)) /\ Len(Append(s, e)) = Len(s) + 1
PROOF
<1>1. PICK S : s \in Seq(S)
  BY DEF IsList
<1> DEFINE T == S \union {e}
<1>2. s \in Seq(T) /\ <<e>> \in Seq(T) /\ Len(<<e>>) = 1 /\ e \in T
  BY <1>1
<1> HIDE DEF T
<1>3. Len(s) \in Nat
  BY ListLength
<1>4. <<e>> \o s \in Seq(T) /\ Len(<<e>> \o s) = 1 + Len(s)
  BY <1>2, ConcatProperties
<1>5. Append(s, e) \in Seq(T) /\ Len(Append(s, e)) = Len(s) + 1
  BY <1>2, AppendProperties
<1> QED
  BY <1>3, <1>4, <1>5 DEF IsList

LEMMA ListShrinks ==
  ASSUME NEW s, IsList(s), NEW i \in 1 .. Len(s)
  PROVE  IsList(RemoveAt(s, i)) /\ Len(RemoveAt(s, i)) = Len(s) - 1
PROOF
<1>1. PICK S : s \in Seq(S)
  BY DEF IsList
<1>2. Len(s) \in Nat /\ \A j \in 1 .. Len(s) : s[j] \in S
  BY <1>1, LenProperties, ElementOfSeq
<1> DEFINE a == SubSeq(s, 1, i - 1)
           b == SubSeq(s, i + 1, Len(s))
<1>3. i \in Int /\ Len(s) \in Int /\ 1 <= i /\ i <= Len(s)
  BY <1>2
<1>4. \A j \in 1 .. i - 1 : s[j] \in S
  BY <1>2, <1>3
<1>5. \A j \in i + 1 .. Len(s) : s[j] \in S
  BY <1>2, <1>3
<1>6. a \in Seq(S) /\ Len(a) = IF 1 <= i - 1 THEN (i - 1) - 1 + 1 ELSE 0
  BY <1>3, <1>4, SubSeqProperties
<1>7. b \in Seq(S) /\ Len(b) = IF i + 1 <= Len(s) THEN Len(s) - (i + 1) + 1 ELSE 0
  BY <1>3, <1>5, SubSeqProperties
<1>8. Len(a) = i - 1 /\ Len(b) = Len(s) - i
  BY <1>3, <1>6, <1>7
<1> HIDE DEF a, b
<1>9. a \o b \in Seq(S) /\ Len(a \o b) = Len(a) + Len(b)
  BY <1>6, <1>7, ConcatProperties
<1>10. RemoveAt(s, i) = a \o b
  BY DEF RemoveAt, a, b
<1> QED
  BY <1>3, <1>8, <1>9, <1>10 DEF IsList

\* Where an event is found, if it is, is in the list.
LEMMA FirstPlace ==
  ASSUME NEW s, IsList(s), NEW I \in SUBSET (1 .. Len(s))
  PROVE  (IF I # {} THEN Min(I) ELSE 0) \in 0 .. Len(s)
PROOF
<1>1. Len(s) \in Nat
  BY ListLength
<1>2. CASE I # {}
  <2>1. I \in SUBSET Nat
    OBVIOUS
  <2>2. Min(I) \in I
    BY <1>2, <2>1, MinOfIndices
  <2>3. Min(I) \in 1 .. Len(s)
    BY <2>2
  <2> DEFINE m == Min(I)
             n == Len(s)
  <2>4. m \in 1 .. n /\ n \in Nat
    BY <1>1, <2>3
  <2> HIDE DEF m, n
  <2>5. m \in 0 .. n
    BY <2>4
  <2> QED BY <1>2, <2>5, Zenon DEF m, n
<1>3. 0 \in 0 .. Len(s)
  BY <1>1
<1> QED
  BY <1>2, <1>3

-----------------------------------------------------------------------------
(* Duplicates                                                               *)

\* The equation of the fold in WithoutDuplicates, on the sets of places up to n.
OneKept(g, t, s) ==
  IF t = {} THEN <<>> ELSE KeepOne(g[t \ {Max(t)}], s[Max(t)])
Keeps(g, n, s) == g = [t \in SUBSET (1 .. n) |-> OneKept(g, t, s)]

LEMMA FoldOfKept ==
  ASSUME NEW s, IsList(s)
  PROVE  FoldLeft(KeepOne, <<>>, s) = (CHOOSE g : Keeps(g, Len(s), s))[1 .. Len(s)]
PROOF
<1>1. DOMAIN s = 1 .. Len(s)
  BY ListLength
<1> QED
  BY <1>1 DEF FoldLeft, MapThenFoldSet, Keeps, OneKept

\* A function that satisfies it exists.
LEMMA KeepsExist ==
  ASSUME NEW w \in Nat, NEW s
  PROVE  \E g : Keeps(g, w, s)
PROOF
<1> DEFINE S == {n \in Nat : \E g : Keeps(g, n, s)}
<1>1. 0 \in S
  <2> DEFINE g == [t \in SUBSET (1 .. 0) |-> <<>>]
  <2>1. \A t \in SUBSET (1 .. 0) : t = {}
    OBVIOUS
  <2>2. Keeps(g, 0, s)
    BY <2>1 DEF Keeps, OneKept
  <2> QED BY <2>2
<1>2. ASSUME NEW k \in 0 .. w - 1, k \in S PROVE k + 1 \in S
  <2>1. PICK g : Keeps(g, k, s)
    BY <1>2
  <2>2. k \in Nat
    OBVIOUS
  <2> DEFINE h == [t \in SUBSET (1 .. k + 1) |->
                     IF k + 1 \in t THEN KeepOne(g[t \ {k + 1}], s[k + 1]) ELSE g[t]]
  <2>3. ASSUME NEW t \in SUBSET (1 .. k + 1) PROVE h[t] = OneKept(h, t, s)
    <3>1. CASE k + 1 \in t
      <4>1. t # {} /\ k + 1 \in Nat
        BY <2>2, <3>1
      <4>2. Max(t) = k + 1
        BY <3>1, <4>1, LastTurn
      <4>3. t \ {k + 1} \in SUBSET (1 .. k + 1) /\ k + 1 \notin t \ {k + 1}
        OBVIOUS
      <4>4. h[t \ {k + 1}] = g[t \ {k + 1}]
        BY <4>3
      <4>5. h[t] = KeepOne(g[t \ {k + 1}], s[k + 1])
        BY <3>1
      <4> HIDE DEF h
      <4>6. OneKept(h, t, s) = KeepOne(h[t \ {Max(t)}], s[Max(t)])
        BY <4>1, Zenon DEF OneKept
      <4>7. OneKept(h, t, s) = KeepOne(h[t \ {k + 1}], s[k + 1])
        BY <4>2, <4>6, Zenon
      <4> QED BY <4>4, <4>5, <4>7, Zenon
    <3>2. CASE k + 1 \notin t
      <4>1. t \in SUBSET (1 .. k)
        BY <2>2, <3>2
      <4>2. h[t] = g[t] /\ g[t] = OneKept(g, t, s)
        BY <2>1, <3>2, <4>1 DEF Keeps
      <4>3. t # {} => h[t \ {Max(t)}] = g[t \ {Max(t)}]
        <5>1. t \ {Max(t)} \in SUBSET (1 .. k + 1) /\ k + 1 \notin t \ {Max(t)}
          BY <3>2
        <5> QED BY <5>1
      <4> HIDE DEF h
      <4> QED BY <4>2, <4>3 DEF OneKept
    <3> QED BY <3>1, <3>2
  <2>4. h = [t \in SUBSET (1 .. k + 1) |-> h[t]]
    OBVIOUS
  <2> HIDE DEF h
  <2>5. h = [t \in SUBSET (1 .. k + 1) |-> OneKept(h, t, s)]
    BY <2>3, <2>4
  <2>6. Keeps(h, k + 1, s)
    BY <2>5 DEF Keeps
  <2> QED BY <2>2, <2>6
<1> HIDE DEF S
<1>3. \A k \in 0 .. w : k \in S
  BY <1>1, <1>2, UpTo
<1>4. w \in S
  BY <1>3
<1> QED
  BY <1>4 DEF S

\* The list without duplicates is a list, and not a longer one.
LEMMA KeptIsShorter ==
  ASSUME NEW s, IsList(s)
  PROVE  IsList(WithoutDuplicates(s)) /\ Len(WithoutDuplicates(s)) <= Len(s)
PROOF
<1> DEFINE w == Len(s)
           g == CHOOSE f : Keeps(f, w, s)
           S == {k \in Nat : IsList(g[1 .. k]) /\ Len(g[1 .. k]) <= k}
<1>1. w \in Nat
  BY ListLength
<1>2. Keeps(g, w, s)
  BY <1>1, KeepsExist
<1>3. FoldLeft(KeepOne, <<>>, s) = g[1 .. w]
  BY FoldOfKept
<1> HIDE DEF g
<1>4. \A t \in SUBSET (1 .. w) : g[t] = OneKept(g, t, s)
  BY <1>2 DEF Keeps
<1>5. 0 \in S
  <2>1. 1 .. 0 = {} /\ {} \in SUBSET (1 .. w)
    OBVIOUS
  <2>2. g[1 .. 0] = <<>>
    BY <1>4, <2>1 DEF OneKept
  <2> QED BY <2>2, NoList
<1>6. ASSUME NEW k \in 0 .. w - 1, k \in S PROVE k + 1 \in S
  <2>1. k + 1 \in Nat \ {0} /\ (k + 1) - 1 = k /\ 1 .. k + 1 \in SUBSET (1 .. w)
    BY <1>1
  <2>2. 1 .. k + 1 # {} /\ Max(1 .. k + 1) = k + 1 /\ (1 .. k + 1) \ {k + 1} = 1 .. k
    BY <2>1, TopOfInterval
  <2>3. g[1 .. k + 1] = KeepOne(g[1 .. k], s[k + 1])
    BY <1>4, <2>1, <2>2 DEF OneKept
  <2>4. IsList(g[1 .. k]) /\ Len(g[1 .. k]) <= k
    BY <1>6
  <2> DEFINE a == g[1 .. k]
             b == g[1 .. k + 1]
  <2> HIDE DEF a, b
  <2>5. b = a \/ b = Append(a, s[k + 1])
    BY <2>3 DEF KeepOne, a, b
  <2>6. IsList(a) /\ Len(a) <= k
    BY <2>4 DEF a
  <2>7. IsList(b) /\ Len(b) <= k + 1
    <3>1. CASE b = a
      <4>1. Len(a) \in Nat
        BY <2>6, ListLength
      <4> QED BY <2>6, <3>1, <4>1
    <3>2. CASE b = Append(a, s[k + 1])
      <4>1. IsList(b) /\ Len(b) = Len(a) + 1 /\ Len(a) \in Nat
        BY <2>6, <3>2, ListGrows, ListLength
      <4> QED BY <2>6, <4>1
    <3> QED BY <2>5, <3>1, <3>2
  <2> QED BY <2>1, <2>7 DEF b
<1> HIDE DEF S
<1>7. \A k \in 0 .. w : k \in S
  BY <1>1, <1>5, <1>6, UpTo
<1>8. w \in S
  BY <1>1, <1>7
<1>9. IsList(g[1 .. w]) /\ Len(g[1 .. w]) <= w
  BY <1>8 DEF S
<1> QED
  BY <1>1, <1>3, <1>9 DEF WithoutDuplicates

-----------------------------------------------------------------------------
(* The event structures                                                     *)

EventInv ==
  /\ event_list \in Nat /\ DOMAIN list = Component
  /\ \A c \in Component : IsList(list[c])
  /\ EventsConserved

\* The components are four, all different.
LEMMA FourComponents ==
  /\ Component = {decode, render, clock, scheduler}
  /\ decode # render /\ decode # clock /\ decode # scheduler
  /\ render # clock /\ render # scheduler /\ clock # scheduler
PROOF
<1> DEFINE q == <<decode, render, clock, scheduler>>
<1>1. \A a, b \in DOMAIN q : q[a] = q[b] => a = b
  BY PipelineAssumption DEF IsInjective
<1>2. DOMAIN q = {1, 2, 3, 4} /\ q[1] = decode /\ q[2] = render /\ q[3] = clock
      /\ q[4] = scheduler
  OBVIOUS
<1> HIDE DEF q
<1> QED
  BY <1>1, <1>2, PipelineAssumption

\* What a list gains the spare ones lose.
LEMMA ListChanges ==
  ASSUME EventInv, NEW c \in Component, NEW s, IsList(s), NEW n \in Nat,
         n + Len(s) = event_list + Len(list[c]),
         event_list' = n, list' = [list EXCEPT ![c] = s]
  PROVE  EventInv'
PROOF
<1>1. DOMAIN list = Component /\ event_list \in Nat
      /\ \A d \in Component : IsList(list[d])
  BY DEF EventInv
<1>2. DOMAIN list' = Component /\ list'[c] = s
      /\ \A d \in Component : d # c => list'[d] = list[d]
  BY <1>1
<1>3. \A d \in Component : IsList(list'[d])
  BY <1>1, <1>2
<1>4. \A d \in Component : Len(list[d]) \in Nat
  BY <1>1, ListLength
<1>5. Len(s) \in Nat
  BY ListLength
<1>6. event_list + Len(list[decode]) + Len(list[render]) + Len(list[clock])
        + Len(list[scheduler]) = NUM_EVENTS
  BY DEF EventInv, EventsConserved
<1> DEFINE a == Len(list[decode])
           b == Len(list[render])
           p == Len(list[clock])
           q == Len(list[scheduler])
           m == Len(s)
<1>7. event_list' + Len(list'[decode]) + Len(list'[render]) + Len(list'[clock])
        + Len(list'[scheduler]) = NUM_EVENTS
  <2>1. a \in Nat /\ b \in Nat /\ p \in Nat /\ q \in Nat /\ m \in Nat
        /\ event_list + a + b + p + q = NUM_EVENTS
    BY <1>4, <1>5, <1>6, FourComponents
  <2>2. CASE c = decode
    <3>1. list'[decode] = s /\ list'[render] = list[render] /\ list'[clock] = list[clock]
          /\ list'[scheduler] = list[scheduler]
      BY <1>2, <2>2, FourComponents
    <3>2. n + m = event_list + a
      BY <2>2
    <3> HIDE DEF a, b, p, q, m
    <3>4. n + m + b + p + q = NUM_EVENTS
      BY <1>1, <2>1, <3>2
    <3> USE DEF a, b, p, q, m
    <3>3. Len(list'[decode]) = m /\ Len(list'[render]) = b /\ Len(list'[clock]) = p
          /\ Len(list'[scheduler]) = q
      BY <3>1
    <3> HIDE DEF a, b, p, q, m
    <3>5. event_list' = n
      OBVIOUS
    <3> QED BY <3>3, <3>4, <3>5
  <2>3. CASE c = render
    <3>1. list'[decode] = list[decode] /\ list'[render] = s /\ list'[clock] = list[clock]
          /\ list'[scheduler] = list[scheduler]
      BY <1>2, <2>3, FourComponents
    <3>2. n + m = event_list + b
      BY <2>3
    <3> HIDE DEF a, b, p, q, m
    <3>4. n + a + m + p + q = NUM_EVENTS
      BY <1>1, <2>1, <3>2
    <3> USE DEF a, b, p, q, m
    <3>3. Len(list'[decode]) = a /\ Len(list'[render]) = m /\ Len(list'[clock]) = p
          /\ Len(list'[scheduler]) = q
      BY <3>1
    <3> HIDE DEF a, b, p, q, m
    <3>5. event_list' = n
      OBVIOUS
    <3> QED BY <3>3, <3>4, <3>5
  <2>4. CASE c = clock
    <3>1. list'[decode] = list[decode] /\ list'[render] = list[render] /\ list'[clock] = s
          /\ list'[scheduler] = list[scheduler]
      BY <1>2, <2>4, FourComponents
    <3>2. n + m = event_list + p
      BY <2>4
    <3> HIDE DEF a, b, p, q, m
    <3>4. n + a + b + m + q = NUM_EVENTS
      BY <1>1, <2>1, <3>2
    <3> USE DEF a, b, p, q, m
    <3>3. Len(list'[decode]) = a /\ Len(list'[render]) = b /\ Len(list'[clock]) = m
          /\ Len(list'[scheduler]) = q
      BY <3>1
    <3> HIDE DEF a, b, p, q, m
    <3>5. event_list' = n
      OBVIOUS
    <3> QED BY <3>3, <3>4, <3>5
  <2>5. CASE c = scheduler
    <3>1. list'[decode] = list[decode] /\ list'[render] = list[render]
          /\ list'[clock] = list[clock] /\ list'[scheduler] = s
      BY <1>2, <2>5, FourComponents
    <3>2. n + m = event_list + q
      BY <2>5
    <3> HIDE DEF a, b, p, q, m
    <3>4. n + a + b + p + m = NUM_EVENTS
      BY <1>1, <2>1, <3>2
    <3> USE DEF a, b, p, q, m
    <3>3. Len(list'[decode]) = a /\ Len(list'[render]) = b /\ Len(list'[clock]) = p
          /\ Len(list'[scheduler]) = m
      BY <3>1
    <3> HIDE DEF a, b, p, q, m
    <3>5. event_list' = n
      OBVIOUS
    <3> QED BY <3>3, <3>4, <3>5
  <2> QED BY <2>2, <2>3, <2>4, <2>5, FourComponents
<1> QED
  BY <1>2, <1>3, <1>7 DEF EventInv, EventsConserved

LEMMA NothingChanges ==
  ASSUME EventInv, UNCHANGED <<event_list, list>>
  PROVE  EventInv'
PROOF
<1>1. event_list' = event_list /\ list' = list
  OBVIOUS
<1> QED
  BY <1>1 DEF EventInv, EventsConserved

\* The handler drops the later copies, takes a spare structure unless the event
\* is ignored, and trips an assertion when there is none (ilclient.c:1412-1616).
LEMMA HandlerConserves ==
  ASSUME EventInv, NEW c \in Component, NEW e, ilclient_event_handler(c, e)
  PROVE  EventInv'
PROOF
<1> DEFINE kept == WithoutDuplicates(list[c])
           spare == event_list + Len(list[c]) - Len(kept)
           queued == spare > 0 /\ ~Ignored(c, e)
<1>1. event_list \in Nat /\ IsList(list[c]) /\ Len(list[c]) \in Nat
  BY ListLength DEF EventInv
<1>2. IsList(kept) /\ Len(kept) <= Len(list[c])
  BY <1>1, KeptIsShorter
<1>3. Len(kept) \in Nat
  BY <1>2, ListLength
<1>4. list' = [list EXCEPT ![c] = IF queued THEN <<e>> \o kept ELSE kept]
      /\ event_list' = IF queued THEN spare - 1 ELSE spare
  BY DEF ilclient_event_handler
<1> HIDE DEF kept
<1>5. spare \in Nat
  BY <1>1, <1>2, <1>3
<1>6. spare + Len(kept) = event_list + Len(list[c])
  BY <1>1, <1>3
<1>7. CASE queued
  <2>1. IsList(<<e>> \o kept) /\ Len(<<e>> \o kept) = Len(kept) + 1
    BY <1>2, ListGrows
  <2>2. list' = [list EXCEPT ![c] = <<e>> \o kept] /\ event_list' = spare - 1
    BY <1>4, <1>7
  <2>3. spare > 0
    BY <1>7
  <2> DEFINE n == spare - 1
  <2> HIDE DEF spare
  <2>4. n \in Nat /\ n + Len(<<e>> \o kept) = event_list + Len(list[c])
    BY <1>3, <1>5, <1>6, <2>1, <2>3
  <2>5. event_list' = n
    BY <2>2
  <2> HIDE DEF n
  <2> QED BY <2>1, <2>2, <2>4, <2>5, ListChanges
<1>8. CASE ~queued
  <2>1. list' = [list EXCEPT ![c] = kept] /\ event_list' = spare
    BY <1>4, <1>8
  <2> HIDE DEF spare
  <2> QED BY <1>2, <1>5, <1>6, <2>1, ListChanges
<1> QED
  BY <1>7, <1>8

\* An event that is taken out becomes spare (ilclient.c:413-449).
LEMMA TakeConserves ==
  ASSUME EventInv, NEW c \in Component, NEW i \in 0 .. Len(list[c]), TakeEvent(c, i)
  PROVE  EventInv'
PROOF
<1>1. event_list \in Nat /\ IsList(list[c]) /\ Len(list[c]) \in Nat /\ DOMAIN list = Component
  BY ListLength DEF EventInv
<1>2. i # 0 /\ event_list' = event_list + 1
      /\ list' = [list EXCEPT ![c] = RemoveAt(list[c], i)]
  BY <1>1 DEF TakeEvent
<1>3. i \in 1 .. Len(list[c])
  BY <1>1, <1>2
<1>4. IsList(RemoveAt(list[c], i)) /\ Len(RemoveAt(list[c], i)) = Len(list[c]) - 1
  BY <1>1, <1>3, ListShrinks
<1>5. event_list + 1 \in Nat
      /\ (event_list + 1) + Len(RemoveAt(list[c], i)) = event_list + Len(list[c])
  BY <1>1, <1>4
<1> QED
  BY <1>2, <1>4, <1>5, ListChanges

\* Where the library finds an event is a place of the list.
LEMMA Places ==
  ASSUME EventInv, NEW c \in Component
  PROVE  /\ \A e : PlaceOf(c, e) \in 0 .. Len(list[c])
         /\ \A command, data : PlaceOfEnd(c, command, data) \in 0 .. Len(list[c])
         /\ SelectInSeq(list[c], IsError) \in 0 .. Len(list[c])
PROOF
<1>1. IsList(list[c])
  BY DEF EventInv
<1>2. ASSUME NEW e PROVE PlaceOf(c, e) \in 0 .. Len(list[c])
  <2> DEFINE I == {i \in 1 .. Len(list[c]) : list[c][i] = e}
  <2>1. PlaceOf(c, e) = IF I # {} THEN Min(I) ELSE 0
    BY DEF PlaceOf, SelectInSeq
  <2>2. I \in SUBSET (1 .. Len(list[c]))
    OBVIOUS
  <2> HIDE DEF I
  <2> QED BY <1>1, <2>1, <2>2, FirstPlace
<1>3. ASSUME NEW command, NEW data PROVE PlaceOfEnd(c, command, data) \in 0 .. Len(list[c])
  <2> DEFINE I == {i \in 1 .. Len(list[c]) : CompletesOrFails(list[c][i], command, data)}
  <2>1. PlaceOfEnd(c, command, data) = IF I # {} THEN Min(I) ELSE 0
    BY DEF PlaceOfEnd, SelectInSeq
  <2>2. I \in SUBSET (1 .. Len(list[c]))
    OBVIOUS
  <2> HIDE DEF I
  <2> QED BY <1>1, <2>1, <2>2, FirstPlace
<1>4. SelectInSeq(list[c], IsError) \in 0 .. Len(list[c])
  <2> DEFINE I == {i \in 1 .. Len(list[c]) : IsError(list[c][i])}
  <2>1. SelectInSeq(list[c], IsError) = IF I # {} THEN Min(I) ELSE 0
    BY DEF SelectInSeq
  <2>2. I \in SUBSET (1 .. Len(list[c]))
    OBVIOUS
  <2> HIDE DEF I
  <2> QED BY <1>1, <2>1, <2>2, FirstPlace
<1> QED
  BY <1>2, <1>3, <1>4

\* An error that is taken out, or none (ilclient.c:406-449).
LEMMA RemoveErrorConserves ==
  ASSUME EventInv, NEW c \in Component, RemoveError(c)
  PROVE  EventInv'
PROOF
<1>1. SelectInSeq(list[c], IsError) \in 0 .. Len(list[c])
  BY Places
<1>2. CASE TakeEvent(c, SelectInSeq(list[c], IsError))
  BY <1>1, <1>2, TakeConserves
<1>3. CASE UNCHANGED <<event_list, list, event>>
  BY <1>3, NothingChanges
<1> QED
  BY <1>2, <1>3 DEF RemoveError

\* A component that is cleaned up gives back its whole list.
LEMMA ReturnConserves ==
  ASSUME EventInv, NEW c \in Component, ilclient_return_events(c)
  PROVE  EventInv'
PROOF
<1>1. event_list \in Nat /\ Len(list[c]) \in Nat
  BY ListLength DEF EventInv
<1>2. event_list' = event_list + Len(list[c]) /\ list' = [list EXCEPT ![c] = <<>>]
  BY DEF ilclient_return_events
<1>3. event_list + Len(list[c]) \in Nat
      /\ (event_list + Len(list[c])) + Len(<<>>) = event_list + Len(list[c])
  BY <1>1, NoList
<1> QED
  BY <1>2, <1>3, NoList, ListChanges

-----------------------------------------------------------------------------
(* The statements of the client, and what their argument is                 *)

Joins(t) == t.source \in Component /\ t.sink \in Component
PlayerTunnels == {tunnel0, tunnel1, tunnel2}

ComponentAt == {"create", "ports", "ports_wait", "change", "change_wait", "change_clear"}
SetupAt ==
  {"setup", "source_idle", "idle_clear", "settings", "disable", "disable_source",
   "disable_sink", "disabled", "streams", "connect", "enable", "get_state",
   "loaded_enable", "loaded_idle", "relate", "idle_wait", "unrelate", "unrelate_failed",
   "unrelate_source", "source_clear", "sink_off", "sink_off_wait", "source_off",
   "source_off_wait", "sink_enable", "sink_failed", "sink_failed_wait", "source_event",
   "source_enable", "source_failed", "source_failed_wait", "undo", "undo_sink",
   "undo_source"}
OffAt == {"off", "off_source", "off_sink", "off_end"}
FlushAt == {"flush", "flush_source", "flush_sink", "flush_next"}
TransitionAt == {"transition", "transition_wait", "transition_next"}
CleanAt == {"cleanup", "free"}

\* The argument a is one the procedure with the statement l is called with; the
\* lists are not empty where their head is dropped.
OfComponent(a) == "comp" \in DOMAIN a /\ a.comp \in Component
OfSetup(a) == a.tunnel \in PlayerTunnels
OfTransition(a) == "list" \in DOMAIN a /\ a.list \in Seq(Component)
Fits(l, a) ==
  /\ l \in ComponentAt => OfComponent(a)
  /\ l \in SetupAt => OfSetup(a)
  /\ l \in OffAt => a \in PlayerTunnels
  /\ l \in FlushAt => a \in Seq(PlayerTunnels) /\ (l # "flush" => a # <<>>)
  /\ l \in TransitionAt =>
       OfTransition(a) /\ (l = "transition_next" => a.list # <<>>)
  /\ l \in CleanAt => a \in Seq(Component) /\ (l = "free" => a # <<>>)

\* Commands are sent to components, and tunnels join components.
Sent(ms) == \E S : ms \in Seq(S) /\ \A m \in S : m.comp \in Component
ControlInv ==
  /\ pipeline \in Pipelines /\ call \in Nat
  /\ Fits(at, args)
  /\ Sent(commands)
  /\ \A t \in tunnelled : Joins(t)
LibraryInv == EventInv /\ ControlInv

\* A step of the library that leaves what it keeps in order.
Orderly == EventInv' /\ Sent(commands)' /\ (\A t \in tunnelled : Joins(t))'

LEMMA PlayerTunnelsJoin == \A t \in PlayerTunnels : Joins(t)
BY FourComponents DEF PlayerTunnels, Joins, tunnel0, tunnel1, tunnel2

LEMMA SendsMore ==
  ASSUME NEW ms, NEW ns, Sent(ms), Sent(ns)
  PROVE  Sent(ms \o ns)
PROOF
<1>1. PICK S : ms \in Seq(S) /\ \A m \in S : m.comp \in Component
  BY DEF Sent
<1>2. PICK T : ns \in Seq(T) /\ \A m \in T : m.comp \in Component
  BY DEF Sent
<1> DEFINE U == S \union T
<1>3. ms \in Seq(U) /\ ns \in Seq(U) /\ \A m \in U : m.comp \in Component
  BY <1>1, <1>2
<1> HIDE DEF U
<1>4. ms \o ns \in Seq(U)
  BY <1>3, ConcatProperties
<1> QED
  BY <1>3, <1>4 DEF Sent

LEMMA SendsOneOrTwo ==
  ASSUME NEW c \in Component, NEW d \in Component, NEW x, NEW y, NEW p, NEW q
  PROVE  Sent(<<Command(c, x, p)>>) /\ Sent(<<Command(c, x, p), Command(d, y, q)>>)
PROOF
<1> DEFINE m == Command(c, x, p)
           n == Command(d, y, q)
           S == {m, n}
<1>1. m.comp \in Component /\ n.comp \in Component
  BY DEF Command
<1> HIDE DEF m, n
<1>2. <<m>> \in Seq(S) /\ <<m, n>> \in Seq(S) /\ \A k \in S : k.comp \in Component
  BY <1>1
<1> HIDE DEF S
<1>3. Sent(<<m>>) /\ Sent(<<m, n>>)
  BY <1>2 DEF Sent
<1> QED
  BY <1>3 DEF m, n

LEMMA AppendsOne ==
  ASSUME NEW ms, Sent(ms), NEW c \in Component, NEW x, NEW p
  PROVE  Sent(Append(ms, Command(c, x, p)))
PROOF
<1>1. PICK S : ms \in Seq(S) /\ \A m \in S : m.comp \in Component
  BY DEF Sent
<1> DEFINE k == Command(c, x, p)
           U == S \union {k}
<1>2. k.comp \in Component
  BY DEF Command
<1> HIDE DEF k
<1>3. ms \in Seq(U) /\ k \in U /\ \A m \in U : m.comp \in Component
  BY <1>1, <1>2
<1> HIDE DEF U
<1>4. Append(ms, k) \in Seq(U)
  BY <1>3, AppendProperties
<1> QED
  BY <1>3, <1>4 DEF Sent, k

LEMMA SendsFewer ==
  ASSUME NEW ms, Sent(ms), NEW i \in DOMAIN ms
  PROVE  Sent(RemoveAt(ms, i)) /\ ms[i].comp \in Component
PROOF
<1>1. PICK S : ms \in Seq(S) /\ \A m \in S : m.comp \in Component
  BY DEF Sent
<1>2. Len(ms) \in Nat /\ DOMAIN ms = 1 .. Len(ms) /\ \A j \in 1 .. Len(ms) : ms[j] \in S
  BY <1>1, LenProperties, ElementOfSeq
<1> DEFINE a == SubSeq(ms, 1, i - 1)
           b == SubSeq(ms, i + 1, Len(ms))
<1>3. i \in Int /\ Len(ms) \in Int /\ 1 <= i /\ i <= Len(ms)
  BY <1>2
<1>4. \A j \in 1 .. i - 1 : ms[j] \in S
  BY <1>2, <1>3
<1>5. \A j \in i + 1 .. Len(ms) : ms[j] \in S
  BY <1>2, <1>3
<1>6. a \in Seq(S)
  BY <1>3, <1>4, SubSeqProperties
<1>7. b \in Seq(S)
  BY <1>3, <1>5, SubSeqProperties
<1> HIDE DEF a, b
<1>8. a \o b \in Seq(S)
  BY <1>6, <1>7, ConcatProperties
<1>9. RemoveAt(ms, i) = a \o b
  BY DEF RemoveAt, a, b
<1> QED
  BY <1>1, <1>2, <1>8, <1>9 DEF Sent

-----------------------------------------------------------------------------
(* One statement                                                            *)

\* From the statement l to one of the statements S, with the same argument.
Passes(l, S) == at = l /\ at' \in S /\ args' = args

LEMMA WaitForOrderly ==
  ASSUME LibraryInv, NEW from, NEW c \in Component, NEW command, NEW data, NEW other,
         NEW ok, NEW failed, NEW otherFailed,
         WaitFor(from, c, command, data, other, ok, failed, otherFailed)
  PROVE  Orderly /\ Passes(from, {from} \union ({ok, failed, otherFailed} \ {"assert"}))
PROOF
<1>1. EventInv /\ Sent(commands) /\ \A t \in tunnelled : Joins(t)
  BY DEF LibraryInv, ControlInv
<1>2. at = from /\ commands' = commands /\ tunnelled' = tunnelled
  BY DEF WaitFor, ilVars
<1>3. Sent(commands)' /\ (\A t \in tunnelled : Joins(t))'
  BY <1>1, <1>2 DEF Joins, Sent
<1>4. CASE \E r \in {0, -1, -2} :
             /\ WaitReturns(c, command, data, other, r)
             /\ GotoOrAssert(IF r = 0 THEN ok ELSE IF r = -1 THEN failed ELSE otherFailed)
  <2>1. PICK r \in {0, -1, -2} :
             /\ WaitReturns(c, command, data, other, r)
             /\ GotoOrAssert(IF r = 0 THEN ok ELSE IF r = -1 THEN failed ELSE otherFailed)
    BY <1>4
  <2> DEFINE l == IF r = 0 THEN ok ELSE IF r = -1 THEN failed ELSE otherFailed
  <2>2. l \in {from, ok, failed, otherFailed}
    OBVIOUS
  <2> HIDE DEF l
  <2>3. GotoOrAssert(l)
    BY <2>1 DEF l
  <2>4. args' = args /\ (at' = at \/ (at' = l /\ l # "assert"))
    BY <2>3 DEF GotoOrAssert, Goto
  <2>5. Passes(from, {from} \union ({ok, failed, otherFailed} \ {"assert"}))
    BY <1>2, <2>2, <2>4 DEF Passes
  <2>6. \/ TakeEvent(c, PlaceOfEnd(c, command, data))
        \/ UNCHANGED <<event_list, list>>
    BY <2>1 DEF WaitReturns
  <2>7. PlaceOfEnd(c, command, data) \in 0 .. Len(list[c])
    BY <1>1, Places
  <2>8. EventInv'
    BY <1>1, <2>6, <2>7, TakeConserves, NothingChanges
  <2> QED BY <1>3, <2>5, <2>8 DEF Orderly
<1>5. CASE UNCHANGED <<at, args, eventVars>>
  <2>1. UNCHANGED <<event_list, list>> /\ at' = at /\ args' = args
    BY <1>5 DEF eventVars
  <2>2. EventInv'
    BY <1>1, <2>1, NothingChanges
  <2> QED BY <1>2, <1>3, <2>1, <2>2 DEF Orderly, Passes
<1>6. CASE FlagsGet(c, WaitMask(command)) /\ UNCHANGED <<at, args>>
  <2>1. UNCHANGED <<event_list, list>> /\ at' = at /\ args' = args
    BY <1>6 DEF FlagsGet
  <2>2. EventInv'
    BY <1>1, <2>1, NothingChanges
  <2> QED BY <1>2, <1>3, <2>1, <2>2 DEF Orderly, Passes
<1> QED
  BY <1>4, <1>5, <1>6 DEF WaitFor

LEMMA WaitOrderly ==
  ASSUME LibraryInv, NEW from, NEW c \in Component, NEW command, NEW data,
         NEW ok, NEW failed, Wait(from, c, command, data, ok, failed)
  PROVE  Orderly /\ Passes(from, {from} \union ({ok, failed} \ {"assert"}))
PROOF
<1>1. WaitFor(from, c, command, data, NoComponent, ok, failed, failed)
  BY DEF Wait
<1>2. Orderly /\ Passes(from, {from} \union ({ok, failed, failed} \ {"assert"}))
  BY <1>1, WaitForOrderly
<1> QED
  BY <1>2 DEF Passes

LEMMA WaitForEventOrderly ==
  ASSUME LibraryInv, NEW from, NEW c \in Component, NEW e, NEW errors, NEW timeout,
         NEW ok, NEW failed, WaitForEvent(from, c, e, errors, timeout, ok, failed)
  PROVE  Orderly /\ Passes(from, {from, ok, failed})
PROOF
<1>1. EventInv /\ Sent(commands) /\ \A t \in tunnelled : Joins(t)
  BY DEF LibraryInv, ControlInv
<1>2. at = from /\ commands' = commands /\ tunnelled' = tunnelled
  BY DEF WaitForEvent, ilVars
<1>3. Sent(commands)' /\ (\A t \in tunnelled : Joins(t))'
  BY <1>1, <1>2 DEF Joins, Sent
<1>4. args' = args /\ at' \in {at, ok, failed}
  BY DEF WaitForEvent, Goto
<1>5. \/ TakeEvent(c, PlaceOf(c, e))
      \/ UNCHANGED <<event_list, list>>
  BY DEF WaitForEvent, Silent, eventVars, FlagsGet
<1>6. PlaceOf(c, e) \in 0 .. Len(list[c])
  BY <1>1, Places
<1>7. EventInv'
  BY <1>1, <1>5, <1>6, TakeConserves, NothingChanges
<1> QED
  BY <1>2, <1>3, <1>4, <1>7 DEF Orderly, Passes

\* A statement that touches no event.
LEMMA QuietOrderly ==
  ASSUME LibraryInv, UNCHANGED <<event_list, list>>, Sent(commands'),
         \A t \in tunnelled' : Joins(t)
  PROVE  Orderly
PROOF
<1>1. EventInv'
  BY NothingChanges DEF LibraryInv
<1> QED
  BY <1>1 DEF Orderly, Joins, Sent
LEMMA SilentOrderly ==
  ASSUME LibraryInv, UNCHANGED <<event_list, list, commands, tunnelled>>
  PROVE  Orderly
BY QuietOrderly DEF LibraryInv, ControlInv

LEMMA SendOrderly ==
  ASSUME LibraryInv, UNCHANGED <<event_list, list>>, NEW from, NEW ms, NEW to, Sent(ms),
         Send(from, ms, to)
  PROVE  Orderly /\ Passes(from, {to})
PROOF
<1>1. at = from /\ at' = to /\ args' = args /\ commands' = commands \o ms
      /\ tunnelled' = tunnelled
  BY DEF Send, Goto
<1>2. Sent(commands')
  BY <1>1, SendsMore DEF LibraryInv, ControlInv
<1>3. Orderly
  BY <1>1, <1>2, QuietOrderly DEF LibraryInv, ControlInv
<1> QED
  BY <1>1, <1>3 DEF Passes

-----------------------------------------------------------------------------
(* The procedures                                                           *)

\* Inside a procedure with the statements G, or at its end.
Within(G) == at \in G /\ at' \in G \union {"ok", "failed"} /\ args' = args

LEMMA PassesWithin ==
  ASSUME NEW G, NEW l \in G, NEW S \in SUBSET (G \union {"ok", "failed"}), Passes(l, S)
  PROVE  Within(G)
BY DEF Passes, Within

LEMMA WaitWithin ==
  ASSUME LibraryInv, NEW G, NEW from \in G, NEW c \in Component, NEW command, NEW data,
         NEW ok \in G \union {"ok", "failed"},
         NEW failed \in G \union {"ok", "failed", "assert"},
         Wait(from, c, command, data, ok, failed)
  PROVE  Orderly /\ Within(G)
PROOF
<1>1. Orderly /\ Passes(from, {from} \union ({ok, failed} \ {"assert"}))
  BY WaitOrderly
<1>2. {from} \union ({ok, failed} \ {"assert"}) \in SUBSET (G \union {"ok", "failed"})
  OBVIOUS
<1> QED
  BY <1>1, <1>2, PassesWithin

LEMMA SendWithin ==
  ASSUME LibraryInv, UNCHANGED <<event_list, list>>, NEW G, NEW from \in G,
         NEW to \in G \union {"ok", "failed"},
         NEW c \in Component, NEW d \in Component, NEW x, NEW y, NEW p, NEW q,
         \/ Send(from, <<Command(c, x, p)>>, to)
         \/ Send(from, <<Command(c, x, p), Command(d, y, q)>>, to)
  PROVE  Orderly /\ Within(G)
PROOF
<1>1. Sent(<<Command(c, x, p)>>) /\ Sent(<<Command(c, x, p), Command(d, y, q)>>)
  BY SendsOneOrTwo
<1>2. Orderly /\ Passes(from, {to})
  BY <1>1, SendOrderly
<1>3. {to} \in SUBSET (G \union {"ok", "failed"})
  OBVIOUS
<1> QED
  BY <1>2, <1>3, PassesWithin

LEMMA StepWithin ==
  ASSUME LibraryInv, UNCHANGED <<event_list, list, commands, tunnelled>>,
         NEW G, NEW from \in G, NEW to \in G \union {"ok", "failed"}, at = from, Goto(to)
  PROVE  Orderly /\ Within(G)
PROOF
<1>1. Orderly
  BY SilentOrderly
<1> QED
  BY <1>1 DEF Within, Goto

\* ilclient_disable_tunnel (ilclient.c:540-564), wherever it is called.
LEMMA DisableTunnelWithin ==
  ASSUME LibraryInv, NEW t, Joins(t), NEW G,
         NEW from \in G, NEW source_wait \in G, NEW sink_wait \in G, NEW end \in G,
         NEW to \in G \union {"ok", "failed"},
         disable_tunnel(t, from, source_wait, sink_wait, end, to)
  PROVE  Orderly /\ Within(G)
PROOF
<1>1. t.source \in Component /\ t.sink \in Component
  BY DEF Joins
<1>2. CASE /\ Send(from, <<Command(t.source, "PortDisable", t.source_port),
                          Command(t.sink, "PortDisable", t.sink_port)>>, source_wait)
           /\ SetMask({t.source, t.sink}, {"Unpopulated"})
           /\ UNCHANGED <<event_list, list, event, related, asserted>>
  BY <1>1, <1>2, SendWithin
<1>3. CASE Wait(source_wait, t.source, "PortDisable", t.source_port, sink_wait, "assert")
  BY <1>1, <1>3, WaitWithin
<1>4. CASE Wait(sink_wait, t.sink, "PortDisable", t.sink_port, end, "assert")
  BY <1>1, <1>4, WaitWithin
<1>5. CASE /\ at = end /\ Goto(to)
           /\ SetMask({t.source, t.sink}, {})
           /\ UNCHANGED <<event_list, list, event, related, asserted, phase, ilVars>>
  BY <1>5, StepWithin DEF ilVars
<1> QED
  BY <1>2, <1>3, <1>4, <1>5 DEF disable_tunnel

LEMMA DisablePortWithin ==
  ASSUME LibraryInv, NEW c \in Component, NEW p, NEW G, NEW from \in G, NEW wait \in G,
         NEW to \in G \union {"ok", "failed"}, disable_port(c, p, from, wait, to)
  PROVE  Orderly /\ Within(G)
PROOF
<1>1. CASE Silent /\ Send(from, <<Command(c, "PortDisable", p)>>, wait)
  <2>1. UNCHANGED <<event_list, list>>
    BY <1>1 DEF Silent, eventVars
  <2> QED BY <1>1, <2>1, SendWithin
<1>2. CASE Wait(wait, c, "PortDisable", p, to, "assert")
  BY <1>2, WaitWithin
<1> QED
  BY <1>1, <1>2 DEF disable_port

LEMMA RelateWithin ==
  ASSUME LibraryInv, NEW other, NEW c, NEW G, NEW from \in G, NEW to \in G,
         Relate(from, other, c, to)
  PROVE  Orderly /\ Within(G)
PROOF
<1>1. UNCHANGED <<event_list, list, commands, tunnelled>> /\ at = from /\ Goto(to)
  BY DEF Relate, ilVars
<1> QED
  BY <1>1, StepWithin

\* ilclient_enable_tunnel, as ilclient_setup_tunnel calls it (ilclient.c:573-637).
LEMMA EnableTunnelWithin ==
  ASSUME LibraryInv, NEW t, Joins(t), enable_tunnel(t, "ok", "undo")
  PROVE  Orderly /\ Within(SetupAt)
PROOF
<1>1. t.source \in Component /\ t.sink \in Component
  BY DEF Joins
<1> DEFINE G == SetupAt
<1>2. /\ "enable" \in G /\ "get_state" \in G /\ "loaded_enable" \in G /\ "sink_enable" \in G
      /\ "loaded_idle" \in G /\ "source_off" \in G /\ "relate" \in G /\ "idle_wait" \in G
      /\ "unrelate" \in G /\ "unrelate_failed" \in G /\ "unrelate_source" \in G
      /\ "source_enable" \in G /\ "source_clear" \in G /\ "sink_off" \in G
      /\ "sink_off_wait" \in G /\ "source_off_wait" \in G /\ "sink_failed" \in G
      /\ "sink_failed_wait" \in G /\ "source_event" \in G /\ "source_failed" \in G
      /\ "source_failed_wait" \in G /\ "undo" \in G
  BY DEF SetupAt
<1> HIDE DEF G
<1>3. SUFFICES Orderly /\ Within(G)
  BY DEF G
<1>4. CASE /\ Silent
           /\ Send("enable", <<Command(t.source, "PortEnable", t.source_port),
                              Command(t.sink, "PortEnable", t.sink_port)>>, "get_state")
  <2>1. UNCHANGED <<event_list, list>>
    BY <1>4 DEF Silent, eventVars
  <2> QED BY <1>1, <1>2, <1>4, <2>1, SendWithin
<1>5. CASE /\ at = "get_state" /\ Silent /\ UNCHANGED <<phase, ilVars>>
           /\ Goto(IF state[t.sink] = "Loaded" THEN "loaded_enable" ELSE "sink_enable")
  <2> DEFINE l == IF state[t.sink] = "Loaded" THEN "loaded_enable" ELSE "sink_enable"
  <2>1. UNCHANGED <<event_list, list, commands, tunnelled>>
    BY <1>5 DEF Silent, eventVars, ilVars
  <2>2. l \in G
    BY <1>2
  <2>3. Goto(l) /\ at = "get_state"
    BY <1>5
  <2> HIDE DEF l
  <2> QED BY <1>2, <2>1, <2>2, <2>3, StepWithin
<1>6. CASE Wait("loaded_enable", t.sink, "PortEnable", t.sink_port, "loaded_idle", "source_off")
  BY <1>1, <1>2, <1>6, WaitWithin
<1>7. CASE Silent /\ Send("loaded_idle", <<Command(t.sink, "StateSet", "Idle")>>, "relate")
  <2>1. UNCHANGED <<event_list, list>>
    BY <1>7 DEF Silent, eventVars
  <2> QED BY <1>1, <1>2, <1>7, <2>1, SendWithin
<1>8. CASE Relate("relate", t.source, t.sink, "idle_wait")
  BY <1>2, <1>8, RelateWithin
<1>9. CASE WaitFor("idle_wait", t.sink, "StateSet", "Idle", t.source,
                   "unrelate", "unrelate_failed", "unrelate_source")
  <2> DEFINE S == {"idle_wait"}
                    \union ({"unrelate", "unrelate_failed", "unrelate_source"} \ {"assert"})
  <2>1. Orderly /\ Passes("idle_wait", S)
    BY <1>1, <1>9, WaitForOrderly
  <2>2. S \in SUBSET (G \union {"ok", "failed"})
    BY <1>2
  <2> QED BY <1>2, <2>1, <2>2, PassesWithin
<1>10. CASE Relate("unrelate", t.source, NoComponent, "source_enable")
  BY <1>2, <1>10, RelateWithin
<1>11. CASE Relate("unrelate_failed", t.source, NoComponent, "source_off")
  BY <1>2, <1>11, RelateWithin
<1>12. CASE Relate("unrelate_source", t.source, NoComponent, "source_clear")
  BY <1>2, <1>12, RelateWithin
<1>13. CASE Wait("source_clear", t.source, "PortEnable", t.source_port, "sink_off", "sink_off")
  BY <1>1, <1>2, <1>13, WaitWithin
<1>14. CASE disable_port(t.sink, t.sink_port, "sink_off", "sink_off_wait", "source_off")
  BY <1>1, <1>2, <1>14, DisablePortWithin
<1>15. CASE disable_port(t.source, t.source_port, "source_off", "source_off_wait", "undo")
  BY <1>1, <1>2, <1>15, DisablePortWithin
<1>16. CASE Wait("sink_enable", t.sink, "PortEnable", t.sink_port, "source_enable", "sink_failed")
  BY <1>1, <1>2, <1>16, WaitWithin
<1>17. CASE disable_port(t.source, t.source_port, "sink_failed", "sink_failed_wait", "source_event")
  BY <1>1, <1>2, <1>17, DisablePortWithin
<1>18. CASE WaitForEvent("source_event", t.source, CmdComplete("PortEnable", t.source_port),
                         TRUE, FALSE, "undo", "undo")
  <2>1. Orderly /\ Passes("source_event", {"source_event", "undo", "undo"})
    BY <1>1, <1>18, WaitForEventOrderly
  <2>2. {"source_event", "undo", "undo"} \in SUBSET (G \union {"ok", "failed"})
    BY <1>2
  <2> QED BY <1>2, <2>1, <2>2, PassesWithin
<1>19. CASE Wait("source_enable", t.source, "PortEnable", t.source_port, "ok", "source_failed")
  BY <1>1, <1>2, <1>19, WaitWithin
<1>20. CASE disable_port(t.sink, t.sink_port, "source_failed", "source_failed_wait", "undo")
  BY <1>1, <1>2, <1>20, DisablePortWithin
<1> QED
  BY <1>4, <1>5, <1>6, <1>7, <1>8, <1>9, <1>10, <1>11, <1>12, <1>13, <1>14, <1>15, <1>16,
     <1>17, <1>18, <1>19, <1>20, Zenon DEF enable_tunnel

\* Setting up a tunnel (ilclient.c:1013-1097).
LEMMA RemoveErrorWithin ==
  ASSUME LibraryInv, NEW c \in Component, RemoveError(c),
         UNCHANGED <<error_mask, related, asserted, phase, ilVars>>,
         NEW G, NEW from \in G, NEW to \in G \union {"ok", "failed"}, at = from, Goto(to)
  PROVE  Orderly /\ Within(G)
PROOF
<1>1. EventInv'
  BY RemoveErrorConserves DEF LibraryInv
<1>2. commands' = commands /\ tunnelled' = tunnelled
  BY DEF ilVars
<1>3. Sent(commands)' /\ (\A t \in tunnelled : Joins(t))'
  BY <1>2 DEF LibraryInv, ControlInv, Joins, Sent
<1> QED
  BY <1>1, <1>3 DEF Orderly, Within, Goto

LEMMA SetupWithin ==
  ASSUME LibraryInv, at \in SetupAt => OfSetup(args), setup_tunnel
  PROVE  Orderly /\ Within(SetupAt)
PROOF
<1> DEFINE t == args.tunnel
           G == SetupAt
<1>1. /\ "setup" \in G /\ "source_idle" \in G /\ "idle_clear" \in G /\ "settings" \in G
      /\ "disable" \in G /\ "disable_source" \in G /\ "disable_sink" \in G
      /\ "disabled" \in G /\ "streams" \in G /\ "connect" \in G /\ "enable" \in G
      /\ "undo" \in G /\ "undo_sink" \in G /\ "undo_source" \in G
  BY DEF SetupAt
<1>2. at \in SetupAt => Joins(t)
  BY PlayerTunnelsJoin DEF OfSetup
<1> DEFINE Goal == Orderly /\ Within(G)
<1>3. SUFFICES Goal
  OBVIOUS
<1> HIDE DEF G
<1>4. CASE /\ at = "setup" /\ Silent
           /\ IF state[t.source] # "Loaded"
              THEN Goto("settings") /\ UNCHANGED commands
              ELSE /\ Goto("source_idle")
                   /\ commands' = Append(commands, Command(t.source, "StateSet", "Idle"))
           /\ UNCHANGED <<phase, state, enabled, tunnelled, announcedPorts, failures>>
  <2>1. UNCHANGED <<event_list, list>> /\ tunnelled' = tunnelled
    BY <1>4 DEF Silent, eventVars
  <2>2. t.source \in Component
    BY <1>1, <1>2, <1>4 DEF Joins, G
  <2>3. Sent(commands) /\ \A u \in tunnelled' : Joins(u)
    BY <2>1 DEF LibraryInv, ControlInv
  <2>4. Sent(commands')
    <3>1. \/ commands' = commands
          \/ commands' = Append(commands, Command(t.source, "StateSet", "Idle"))
      BY <1>4
    <3>2. Sent(Append(commands, Command(t.source, "StateSet", "Idle")))
      BY <2>2, <2>3, AppendsOne
    <3> QED BY <2>3, <3>1, <3>2
  <2>5. Orderly
    BY <2>1, <2>3, <2>4, QuietOrderly
  <2>6. Within(G)
    BY <1>1, <1>4 DEF Within, Goto
  <2> QED BY <2>5, <2>6
<1>5. CASE Wait("source_idle", t.source, "StateSet", "Idle", "settings", "idle_clear")
  <2>1. at = "source_idle"
    BY <1>5 DEF Wait, WaitFor
  <2>2. t.source \in Component
    BY <1>1, <1>2, <2>1 DEF Joins, G
  <2> QED BY <1>1, <1>5, <2>2, WaitWithin
<1>6. CASE /\ at = "idle_clear" /\ Goto("failed") /\ RemoveError(t.source)
           /\ UNCHANGED <<error_mask, related, asserted, phase, ilVars>>
  <2>1. t.source \in Component
    BY <1>1, <1>2, <1>6 DEF Joins, G
  <2> QED BY <1>1, <1>6, <2>1, RemoveErrorWithin
<1>7. CASE /\ at = "settings" /\ ~args.timeout /\ Goto("disable")
           /\ Silent /\ UNCHANGED <<phase, ilVars>>
  <2>1. UNCHANGED <<event_list, list, commands, tunnelled>>
    BY <1>7 DEF Silent, eventVars, ilVars
  <2> QED BY <1>1, <1>7, <2>1, StepWithin
<1>8. CASE /\ at = "settings" /\ args.timeout
           /\ WaitForEvent("settings", t.source, PortSettingsChanged(t.source_port),
                           TRUE, TRUE, "disable", "failed")
  <2>1. t.source \in Component
    BY <1>1, <1>2, <1>8 DEF Joins, G
  <2>2. Orderly /\ Passes("settings", {"settings", "disable", "failed"})
    BY <1>8, <2>1, WaitForEventOrderly
  <2>3. {"settings", "disable", "failed"} \in SUBSET (G \union {"ok", "failed"})
    BY <1>1
  <2> QED BY <1>1, <2>2, <2>3, PassesWithin
<1>9. CASE disable_tunnel(t, "disable", "disable_source", "disable_sink", "disabled", "streams")
  <2>1. at \in G
    BY <1>1, <1>9 DEF disable_tunnel, Send, Wait, WaitFor
  <2>2. Joins(t)
    BY <1>2, <2>1 DEF G
  <2> HIDE DEF t
  <2> QED BY <1>1, <1>9, <2>2, DisableTunnelWithin
<1>10. CASE MayFail("streams", "connect", "failed")
  <2>1. UNCHANGED <<event_list, list, commands, tunnelled>>
    BY <1>10 DEF MayFail, Silent, eventVars
  <2>2. at = "streams" /\ (Goto("connect") \/ Goto("failed"))
    BY <1>10 DEF MayFail
  <2> QED BY <1>1, <2>1, <2>2, StepWithin
<1>11. CASE /\ at = "connect" /\ Silent
            /\ \/ Goto("enable") /\ tunnelled' = tunnelled \cup {t} /\ UNCHANGED failures
               \/ /\ failures < MaxFailures /\ failures' = failures + 1
                  /\ Goto("failed") /\ UNCHANGED tunnelled
            /\ UNCHANGED <<phase, state, enabled, commands, announcedPorts>>
  <2>1. UNCHANGED <<event_list, list, commands>>
    BY <1>11 DEF Silent, eventVars
  <2>2. Joins(t)
    BY <1>1, <1>2, <1>11 DEF G
  <2> HIDE DEF t
  <2>3. \A u \in tunnelled' : Joins(u)
    BY <1>11, <2>2 DEF LibraryInv, ControlInv
  <2>4. Sent(commands')
    BY <2>1 DEF LibraryInv, ControlInv
  <2>5. Orderly
    BY <2>1, <2>3, <2>4, QuietOrderly
  <2>6. Within(G)
    BY <1>1, <1>11 DEF Within, Goto
  <2> QED BY <2>5, <2>6
<1>12. CASE enable_tunnel(t, "ok", "undo")
  <2>1. at \in G
    BY <1>12 DEF enable_tunnel, Send, Wait, WaitFor, WaitForEvent, disable_port, Relate, G,
                 SetupAt
  <2>2. Joins(t)
    BY <1>2, <2>1 DEF G
  <2> HIDE DEF t
  <2> QED BY <1>12, <2>2, EnableTunnelWithin DEF G
<1>13. CASE /\ at = "undo" /\ Goto("undo_sink") /\ tunnelled' = tunnelled \ {t}
            /\ Silent
            /\ UNCHANGED <<phase, state, enabled, commands, announcedPorts, failures>>
  <2>1. UNCHANGED <<event_list, list, commands>>
    BY <1>13 DEF Silent, eventVars
  <2>2. \A u \in tunnelled' : Joins(u)
    BY <1>13 DEF LibraryInv, ControlInv
  <2>3. Sent(commands')
    BY <2>1 DEF LibraryInv, ControlInv
  <2>4. Orderly
    BY <2>1, <2>2, <2>3, QuietOrderly
  <2>5. Within(G)
    BY <1>1, <1>13 DEF Within, Goto
  <2> QED BY <2>4, <2>5
<1>14. CASE /\ at = "undo_sink" /\ Goto("undo_source") /\ RemoveError(t.sink)
            /\ UNCHANGED <<error_mask, related, asserted, phase, ilVars>>
  <2>1. t.sink \in Component
    BY <1>1, <1>2, <1>14 DEF Joins, G
  <2> QED BY <1>1, <1>14, <2>1, RemoveErrorWithin
<1>15. CASE /\ at = "undo_source" /\ Goto("failed") /\ RemoveError(t.source)
            /\ UNCHANGED <<error_mask, related, asserted, phase, ilVars>>
  <2>1. t.source \in Component
    BY <1>1, <1>2, <1>15 DEF Joins, G
  <2> QED BY <1>1, <1>15, <2>1, RemoveErrorWithin
<1> HIDE DEF Goal
<1> QED
  BY <1>4, <1>5, <1>6, <1>7, <1>8, <1>9, <1>10, <1>11, <1>12, <1>13, <1>14, <1>15, Zenon
     DEF setup_tunnel

\* Creating a component (ilclient.c:295-394) and changing its state
\* (ilclient.c:743-755).
LEMMA CreateOrderly ==
  ASSUME LibraryInv, at \in ComponentAt => OfComponent(args), create_component
  PROVE  Orderly /\ at \in ComponentAt /\ at' \in ComponentAt \union {"ok", "failed"}
         /\ OfComponent(args')
PROOF
<1> DEFINE c == args.comp
           port == CHOOSE p \in PortsOf(c) \cap enabled : TRUE
           G == ComponentAt
           Goal == Orderly /\ at \in G /\ at' \in G \union {"ok", "failed"}
                   /\ OfComponent(args')
<1>1. "create" \in G /\ "ports" \in G /\ "ports_wait" \in G
  BY DEF ComponentAt
<1>2. at \in G => c \in Component /\ "comp" \in DOMAIN args
  BY DEF OfComponent
<1> SUFFICES Goal
  OBVIOUS
<1> HIDE DEF G
<1>3. ASSUME Orderly, Within(G) PROVE Goal
  BY <1>2, <1>3 DEF Within, OfComponent
<1>4. CASE /\ at = "create" /\ Silent
           /\ \/ /\ state' = [state EXCEPT ![c] = "Loaded"]
                 /\ enabled' = enabled \cup PortsOf(c)
                 /\ Goto("ports") /\ UNCHANGED failures
              \/ /\ failures < MaxFailures /\ failures' = failures + 1
                 /\ Goto("failed") /\ UNCHANGED <<state, enabled>>
           /\ UNCHANGED <<phase, tunnelled, commands, announcedPorts>>
  <2>1. UNCHANGED <<event_list, list, commands, tunnelled>>
    BY <1>4 DEF Silent, eventVars
  <2>2. at = "create" /\ (Goto("ports") \/ Goto("failed"))
    BY <1>4
  <2>3. Orderly /\ Within(G)
    BY <1>1, <2>1, <2>2, StepWithin
  <2> QED BY <1>3, <2>3
<1>5. CASE /\ at = "ports" /\ PortsOf(c) \cap enabled = {}
           /\ Goto("ok") /\ Silent /\ UNCHANGED <<phase, ilVars>>
  <2>1. UNCHANGED <<event_list, list, commands, tunnelled>>
    BY <1>5 DEF Silent, eventVars, ilVars
  <2>2. Orderly /\ Within(G)
    BY <1>1, <1>5, <2>1, StepWithin
  <2> QED BY <1>3, <2>2
<1>6. CASE /\ at = "ports" /\ PortsOf(c) \cap enabled # {}
           /\ at' = "ports_wait" /\ args' = [args EXCEPT !.port = port]
           /\ commands' = Append(commands, Command(c, "PortDisable", port))
           /\ UNCHANGED <<eventVars, phase, state, enabled, tunnelled, announcedPorts, failures>>
  <2> HIDE DEF port
  <2>1. UNCHANGED <<event_list, list>> /\ tunnelled' = tunnelled
    BY <1>6 DEF eventVars
  <2>2. c \in Component /\ "comp" \in DOMAIN args
    BY <1>1, <1>2, <1>6
  <2>3. Sent(commands) /\ \A u \in tunnelled' : Joins(u)
    BY <2>1 DEF LibraryInv, ControlInv
  <2>4. Sent(commands')
    <3>1. Sent(Append(commands, Command(c, "PortDisable", port)))
      BY <2>2, <2>3, AppendsOne
    <3> QED BY <1>6, <3>1
  <2>5. Orderly
    BY <2>1, <2>3, <2>4, QuietOrderly
  <2>6. OfComponent(args')
    BY <1>6, <2>2 DEF OfComponent
  <2> QED BY <1>1, <1>6, <2>5, <2>6
<1>7. CASE Wait("ports_wait", c, "PortDisable", args.port, "ports", "assert")
  <2>1. at = "ports_wait"
    BY <1>7 DEF Wait, WaitFor
  <2>2. c \in Component
    BY <1>1, <1>2, <2>1
  <2>3. Orderly /\ Within(G)
    BY <1>1, <1>7, <2>2, WaitWithin
  <2> QED BY <1>3, <2>3
<1> HIDE DEF Goal
<1> QED
  BY <1>4, <1>5, <1>6, <1>7, Zenon DEF create_component

LEMMA ChangeOrderly ==
  ASSUME LibraryInv, at \in ComponentAt => OfComponent(args), change_component_state
  PROVE  Orderly /\ Within(ComponentAt)
PROOF
<1> DEFINE c == args.comp
           s == args.state
           G == ComponentAt
           Goal == Orderly /\ Within(G)
<1>1. "change" \in G /\ "change_wait" \in G /\ "change_clear" \in G
  BY DEF ComponentAt
<1>2. at \in G => c \in Component
  BY DEF OfComponent
<1> SUFFICES Goal
  OBVIOUS
<1> HIDE DEF G
<1>3. CASE Silent /\ Send("change", <<Command(c, "StateSet", s)>>, "change_wait")
  <2>1. UNCHANGED <<event_list, list>> /\ at = "change"
    BY <1>3 DEF Silent, eventVars, Send
  <2>2. c \in Component
    BY <1>1, <1>2, <2>1
  <2> QED BY <1>1, <1>3, <2>1, <2>2, SendWithin
<1>4. CASE Wait("change_wait", c, "StateSet", s, "ok", "change_clear")
  <2>1. at = "change_wait"
    BY <1>4 DEF Wait, WaitFor
  <2>2. c \in Component
    BY <1>1, <1>2, <2>1
  <2> QED BY <1>1, <1>4, <2>2, WaitWithin
<1>5. CASE /\ at = "change_clear" /\ Goto("failed")
           /\ RemoveError(c)
           /\ UNCHANGED <<error_mask, related, asserted, phase, ilVars>>
  <2>1. c \in Component
    BY <1>1, <1>2, <1>5
  <2> QED BY <1>1, <1>5, <2>1, RemoveErrorWithin
<1> HIDE DEF Goal
<1> QED
  BY <1>3, <1>4, <1>5, Zenon DEF change_component_state

\* Disabling a tunnel from the player.
LEMMA OffOrderly ==
  ASSUME LibraryInv, at \in OffAt => args \in PlayerTunnels,
         disable_tunnel(args, "off", "off_source", "off_sink", "off_end", "ok")
  PROVE  Orderly /\ Within(OffAt)
PROOF
<1> DEFINE G == OffAt
<1>1. "off" \in G /\ "off_source" \in G /\ "off_sink" \in G /\ "off_end" \in G
  BY DEF OffAt
<1>2. at \in G
  BY <1>1 DEF disable_tunnel, Send, Wait, WaitFor
<1>3. Joins(args)
  BY <1>2, PlayerTunnelsJoin
<1> HIDE DEF G
<1>4. Orderly /\ Within(G)
  BY <1>1, <1>3, DisableTunnelWithin
<1> QED
  BY <1>4 DEF G

-----------------------------------------------------------------------------
(* The procedures that go through a list                                    *)

\* No statement is of two procedures.
LEMMA Apart ==
  /\ \A l \in ComponentAt : l \notin SetupAt /\ l \notin OffAt /\ l \notin FlushAt
                            /\ l \notin TransitionAt /\ l \notin CleanAt
  /\ \A l \in SetupAt : l \notin OffAt /\ l \notin FlushAt
                        /\ l \notin TransitionAt /\ l \notin CleanAt
  /\ \A l \in OffAt : l \notin FlushAt /\ l \notin TransitionAt /\ l \notin CleanAt
  /\ \A l \in FlushAt : l \notin TransitionAt /\ l \notin CleanAt
  /\ \A l \in TransitionAt : l \notin CleanAt
BY DEF ComponentAt, SetupAt, OffAt, FlushAt, TransitionAt, CleanAt

\* Between the procedures nothing is asked of the argument.
Between == {"ok", "failed", "done", "crash", "buffers", "feed", "enable_render", "teardown"}
LEMMA FitsBetween ==
  ASSUME NEW l \in Between, NEW a
  PROVE  Fits(l, a)
BY DEF Between, Fits, ComponentAt, SetupAt, OffAt, FlushAt, TransitionAt, CleanAt

LEMMA FitsComponent ==
  ASSUME NEW l \in ComponentAt, NEW a, OfComponent(a)
  PROVE  Fits(l, a)
BY Apart DEF Fits
LEMMA FitsSetup ==
  ASSUME NEW l \in SetupAt, NEW a, OfSetup(a)
  PROVE  Fits(l, a)
BY Apart DEF Fits
LEMMA FitsOff ==
  ASSUME NEW l \in OffAt, NEW a \in PlayerTunnels
  PROVE  Fits(l, a)
BY Apart DEF Fits
LEMMA FitsFlush ==
  ASSUME NEW l \in FlushAt, NEW a \in Seq(PlayerTunnels), l # "flush" => a # <<>>
  PROVE  Fits(l, a)
BY Apart DEF Fits
LEMMA FitsTransition ==
  ASSUME NEW l \in TransitionAt, NEW a, OfTransition(a),
         l = "transition_next" => a.list # <<>>
  PROVE  Fits(l, a)
BY Apart DEF Fits
LEMMA FitsClean ==
  ASSUME NEW l \in CleanAt, NEW a \in Seq(Component), l = "free" => a # <<>>
  PROVE  Fits(l, a)
BY Apart DEF Fits

\* Flushing the tunnels (ilclient.c:649-671).
LEMMA FlushOrderly ==
  ASSUME LibraryInv, flush_tunnels
  PROVE  Orderly /\ Fits(at', args')
PROOF
<1> DEFINE t == Head(args)
           Goal == Orderly /\ Fits(at', args')
<1>1. "flush" \in FlushAt /\ "flush_source" \in FlushAt /\ "flush_sink" \in FlushAt
      /\ "flush_next" \in FlushAt /\ "ok" \in Between
  BY DEF FlushAt, Between
<1>2. at \in FlushAt => args \in Seq(PlayerTunnels) /\ (at # "flush" => args # <<>>)
  BY DEF LibraryInv, ControlInv, Fits
<1>3. ASSUME args \in Seq(PlayerTunnels), args # <<>>
      PROVE  t.source \in Component /\ t.sink \in Component
  BY <1>3, HeadTailProperties, PlayerTunnelsJoin DEF Joins
<1> SUFFICES Goal
  OBVIOUS
<1> HIDE DEF t
<1>4. CASE at = "flush" /\ args = <<>> /\ Goto("ok") /\ Silent /\ UNCHANGED <<phase, ilVars>>
  <2>1. UNCHANGED <<event_list, list, commands, tunnelled>>
    BY <1>4 DEF Silent, eventVars, ilVars
  <2>2. Orderly
    BY <2>1, SilentOrderly
  <2> QED BY <1>1, <1>4, <2>2, FitsBetween DEF Goto
<1>5. CASE /\ at = "flush" /\ args # <<>> /\ Silent
           /\ Send("flush", <<Command(t.source, "Flush", t.source_port),
                             Command(t.sink, "Flush", t.sink_port)>>, "flush_source")
  <2>1. UNCHANGED <<event_list, list>>
    BY <1>5 DEF Silent, eventVars
  <2>2. args \in Seq(PlayerTunnels) /\ args # <<>>
    BY <1>1, <1>2, <1>5
  <2>3. t.source \in Component /\ t.sink \in Component
    BY <1>3, <2>2
  <2>4. Sent(<<Command(t.source, "Flush", t.source_port),
               Command(t.sink, "Flush", t.sink_port)>>)
    BY <2>3, SendsOneOrTwo
  <2>5. Orderly /\ Passes("flush", {"flush_source"})
    BY <1>5, <2>1, <2>4, SendOrderly
  <2> QED BY <1>1, <2>2, <2>5, FitsFlush DEF Passes
<1>6. CASE /\ at = "flush_source"
           /\ WaitForEvent("flush_source", t.source, CmdComplete("Flush", t.source_port),
                           FALSE, FALSE, "flush_sink", "flush_sink")
  <2>1. args \in Seq(PlayerTunnels) /\ args # <<>>
    BY <1>1, <1>2, <1>6
  <2>2. t.source \in Component
    BY <1>3, <2>1
  <2>3. Orderly /\ Passes("flush_source", {"flush_source", "flush_sink", "flush_sink"})
    BY <1>6, <2>2, WaitForEventOrderly
  <2>4. at' \in FlushAt /\ args' = args
    BY <1>1, <2>3 DEF Passes
  <2> QED BY <2>1, <2>3, <2>4, FitsFlush
<1>7. CASE /\ at = "flush_sink"
           /\ WaitForEvent("flush_sink", t.sink, CmdComplete("Flush", t.sink_port),
                           FALSE, FALSE, "flush_next", "flush_next")
  <2>1. args \in Seq(PlayerTunnels) /\ args # <<>>
    BY <1>1, <1>2, <1>7
  <2>2. t.sink \in Component
    BY <1>3, <2>1
  <2>3. Orderly /\ Passes("flush_sink", {"flush_sink", "flush_next", "flush_next"})
    BY <1>7, <2>2, WaitForEventOrderly
  <2>4. at' \in FlushAt /\ args' = args
    BY <1>1, <2>3 DEF Passes
  <2> QED BY <2>1, <2>3, <2>4, FitsFlush
<1>8. CASE /\ at = "flush_next" /\ at' = "flush" /\ args' = Tail(args) /\ Silent
           /\ UNCHANGED <<phase, ilVars>>
  <2>1. UNCHANGED <<event_list, list, commands, tunnelled>>
    BY <1>8 DEF Silent, eventVars, ilVars
  <2>2. Orderly
    BY <2>1, SilentOrderly
  <2>3. args \in Seq(PlayerTunnels) /\ args # <<>>
    BY <1>1, <1>2, <1>8
  <2>4. args' \in Seq(PlayerTunnels)
    BY <1>8, <2>3, HeadTailProperties
  <2> QED BY <1>1, <1>8, <2>2, <2>4, FitsFlush
<1> HIDE DEF Goal
<1> QED
  BY <1>4, <1>5, <1>6, <1>7, <1>8, Zenon DEF flush_tunnels, t

\* All components of a list to one state (ilclient.c:460-506).
LEMMA SendsToAll ==
  ASSUME NEW cs \in Seq(Component), NEW x, NEW p
  PROVE  Sent([i \in DOMAIN cs |-> Command(cs[i], x, p)])
PROOF
<1> DEFINE S == {Command(c, x, p) : c \in Component}
           ms == [i \in DOMAIN cs |-> Command(cs[i], x, p)]
<1>1. Len(cs) \in Nat /\ DOMAIN cs = 1 .. Len(cs) /\ \A i \in 1 .. Len(cs) : cs[i] \in Component
  BY LenProperties, ElementOfSeq
<1>2. \A i \in 1 .. Len(cs) : Command(cs[i], x, p) \in S
  BY <1>1
<1>3. \A m \in S : m.comp \in Component
  BY DEF Command
<1> HIDE DEF S
<1>4. ms \in [1 .. Len(cs) -> S]
  BY <1>1, <1>2
<1> HIDE DEF ms
<1>5. ms \in Seq(S)
  BY <1>1, <1>4, SeqDef
<1> QED
  BY <1>3, <1>5 DEF Sent, ms

LEMMA TransitionOrderly ==
  ASSUME LibraryInv, state_transition
  PROVE  Orderly /\ Fits(at', args')
PROOF
<1> DEFINE cs == ToSet(args.list)
           c == Head(args.list)
           Goal == Orderly /\ Fits(at', args')
<1>1. "transition" \in TransitionAt /\ "transition_wait" \in TransitionAt
      /\ "transition_next" \in TransitionAt /\ "ok" \in Between
  BY DEF TransitionAt, Between
<1>2. at \in TransitionAt =>
        OfTransition(args) /\ (at = "transition_next" => args.list # <<>>)
  BY DEF LibraryInv, ControlInv, Fits
<1> SUFFICES Goal
  OBVIOUS
<1> HIDE DEF c, cs
<1>3. CASE /\ Send("transition",
                   [i \in DOMAIN args.list |->
                      Command(args.list[i], "StateSet", args.state)], "transition_wait")
           /\ UNCHANGED <<event_list, list>>
  <2>1. at = "transition"
    BY <1>3 DEF Send
  <2>2. OfTransition(args)
    BY <1>1, <1>2, <2>1
  <2>3. Sent([i \in DOMAIN args.list |-> Command(args.list[i], "StateSet", args.state)])
    BY <2>2, SendsToAll DEF OfTransition
  <2>4. Orderly /\ Passes("transition", {"transition_wait"})
    BY <1>3, <2>3, SendOrderly
  <2>5. at' = "transition_wait" /\ args' = args
    BY <2>4 DEF Passes
  <2> QED BY <1>1, <2>2, <2>4, <2>5, FitsTransition
<1>4. CASE /\ at = "transition_wait" /\ args.list # <<>>
           /\ Wait("transition_wait", c, "StateSet", args.state, "transition_next", "assert")
  <2>1. OfTransition(args)
    BY <1>1, <1>2, <1>4
  <2>2. c \in Component
    BY <1>4, <2>1, HeadTailProperties DEF OfTransition, c
  <2>3. Orderly /\ Passes("transition_wait",
                          {"transition_wait"} \union ({"transition_next", "assert"} \ {"assert"}))
    BY <1>4, <2>2, WaitOrderly
  <2>4. at' \in TransitionAt /\ args' = args
    BY <1>1, <2>3 DEF Passes
  <2> QED BY <1>4, <2>1, <2>3, <2>4, FitsTransition
<1>5. CASE /\ at = "transition_next" /\ at' = "transition_wait"
           /\ args' = [args EXCEPT !.list = Tail(@)]
           /\ Silent /\ UNCHANGED <<phase, ilVars>>
  <2>1. UNCHANGED <<event_list, list, commands, tunnelled>>
    BY <1>5 DEF Silent, eventVars, ilVars
  <2>2. Orderly
    BY <2>1, SilentOrderly
  <2>3. OfTransition(args) /\ args.list # <<>>
    BY <1>1, <1>2, <1>5
  <2>4. Tail(args.list) \in Seq(Component)
    BY <2>3, HeadTailProperties DEF OfTransition
  <2>5. OfTransition(args')
    BY <1>5, <2>3, <2>4 DEF OfTransition
  <2> QED BY <1>1, <1>5, <2>2, <2>5, FitsTransition
<1>6. CASE at = "transition_wait" /\ Goto("ok")
           /\ UNCHANGED <<event_list, list, event, related, asserted, phase, ilVars>>
  <2>1. UNCHANGED <<event_list, list, commands, tunnelled>>
    BY <1>6 DEF ilVars
  <2>2. Orderly
    BY <2>1, SilentOrderly
  <2> QED BY <1>1, <1>6, <2>2, FitsBetween DEF Goto
<1> HIDE DEF Goal
<1> QED
  BY <1>3, <1>4, <1>5, <1>6 DEF state_transition, c

\* Cleaning the components up (ilclient.c:703-730).
LEMMA CleanupOrderly ==
  ASSUME LibraryInv, cleanup_components
  PROVE  Orderly /\ Fits(at', args')
PROOF
<1> DEFINE Goal == Orderly /\ Fits(at', args')
<1>1. "cleanup" \in CleanAt /\ "free" \in CleanAt /\ "ok" \in Between
  BY DEF CleanAt, Between
<1>2. at \in CleanAt => args \in Seq(Component) /\ (at = "free" => args # <<>>)
  BY DEF LibraryInv, ControlInv, Fits
<1> SUFFICES Goal
  OBVIOUS
<1>3. CASE /\ at = "cleanup" /\ args # <<>>
           /\ ilclient_return_events(Head(args))
           /\ at' = "free" /\ UNCHANGED <<args, phase, ilVars>>
  <2>1. args \in Seq(Component) /\ args # <<>>
    BY <1>1, <1>2, <1>3
  <2>2. Head(args) \in Component
    BY <2>1, HeadTailProperties
  <2>3. EventInv'
    BY <1>3, <2>2, ReturnConserves DEF LibraryInv
  <2>4. commands' = commands /\ tunnelled' = tunnelled
    BY <1>3 DEF ilVars
  <2>5. Sent(commands)' /\ (\A u \in tunnelled : Joins(u))'
    BY <2>4 DEF LibraryInv, ControlInv, Joins, Sent
  <2>6. Orderly
    BY <2>3, <2>5 DEF Orderly
  <2>7. at' = "free" /\ args' = args
    BY <1>3
  <2> QED BY <1>1, <2>1, <2>6, <2>7, FitsClean
<1>4. CASE /\ at = "free" /\ at' = "cleanup" /\ args' = Tail(args)
           /\ state' = [state EXCEPT ![Head(args)] = "none"]
           /\ Silent
           /\ UNCHANGED <<phase, enabled, tunnelled, commands, announcedPorts, failures>>
  <2>1. UNCHANGED <<event_list, list, commands, tunnelled>>
    BY <1>4 DEF Silent, eventVars
  <2>2. Orderly
    BY <2>1, SilentOrderly
  <2>3. args \in Seq(Component) /\ args # <<>>
    BY <1>1, <1>2, <1>4
  <2>4. args' \in Seq(Component)
    BY <1>4, <2>3, HeadTailProperties
  <2> QED BY <1>1, <1>4, <2>2, <2>4, FitsClean
<1>5. CASE at = "cleanup" /\ args = <<>> /\ Goto("ok") /\ Silent /\ UNCHANGED <<phase, ilVars>>
  <2>1. UNCHANGED <<event_list, list, commands, tunnelled>>
    BY <1>5 DEF Silent, eventVars, ilVars
  <2>2. Orderly
    BY <2>1, SilentOrderly
  <2> QED BY <1>1, <1>5, <2>2, FitsBetween DEF Goto
<1> HIDE DEF Goal
<1> QED
  BY <1>3, <1>4, <1>5, Zenon DEF cleanup_components

-----------------------------------------------------------------------------
(* The player's program                                                     *)

LEMMA PipelineLists ==
  ASSUME NEW cs
  PROVE  Tunnels(cs) \in Seq(PlayerTunnels) /\ Comps(cs) \in Seq(Component)
PROOF
<1>1. \A b, t : b \in BOOLEAN /\ t \in PlayerTunnels => If(b, t) \in Seq(PlayerTunnels)
  BY DEF If
<1>2. \A b, c : b \in BOOLEAN /\ c \in Component => If(b, c) \in Seq(Component)
  BY DEF If
<1>3. tunnel0 \in PlayerTunnels /\ tunnel1 \in PlayerTunnels /\ tunnel2 \in PlayerTunnels
  BY DEF PlayerTunnels
<1> DEFINE a0 == If(Ends(tunnel0) \subseteq cs, tunnel0)
           a1 == If(Ends(tunnel1) \subseteq cs, tunnel1)
           a2 == If(Ends(tunnel2) \subseteq cs, tunnel2)
           b0 == If(decode \in cs, decode)
           b1 == If(render \in cs, render)
           b2 == If(clock \in cs, clock)
           b3 == If(scheduler \in cs, scheduler)
<1>4. a0 \in Seq(PlayerTunnels) /\ a1 \in Seq(PlayerTunnels) /\ a2 \in Seq(PlayerTunnels)
  BY <1>1, <1>3
<1>5. b0 \in Seq(Component) /\ b1 \in Seq(Component) /\ b2 \in Seq(Component)
      /\ b3 \in Seq(Component)
  <2>1. decode \in Component /\ render \in Component /\ clock \in Component
        /\ scheduler \in Component
    BY FourComponents
  <2>2. \A c : (c \in cs) \in BOOLEAN
    OBVIOUS
  <2> QED BY <1>2, <2>1, <2>2
<1>6. Tunnels(cs) = a0 \o a1 \o a2 /\ Comps(cs) = b0 \o b1 \o b2 \o b3
  BY DEF Tunnels, Comps
<1> HIDE DEF a0, a1, a2, b0, b1, b2, b3
<1> QED
  BY <1>4, <1>5, <1>6, ConcatProperties

\* A call whose argument is one for the procedure it begins.
FitsCall(p) == Fits(p.begin, p.args)

LEMMA CallFits ==
  /\ \A c \in Component : FitsCall(Create(c))
  /\ \A c \in Component : \A when, s : FitsCall(SetState(when, c, s))
  /\ \A t \in PlayerTunnels : \A timeout, fails : FitsCall(Setup(t, timeout, fails))
  /\ \A t \in PlayerTunnels : FitsCall(Disable(t))
  /\ \A cs, s : FitsCall(BringDown(Comps(cs), s))
PROOF
<1>1. "create" \in ComponentAt /\ "change" \in ComponentAt /\ "setup" \in SetupAt
      /\ "off" \in OffAt /\ "transition" \in TransitionAt
  BY DEF ComponentAt, SetupAt, OffAt, TransitionAt
<1>2. ASSUME NEW c \in Component PROVE FitsCall(Create(c))
  <2>1. OfComponent(Create(c).args) /\ Create(c).begin = "create"
    BY DEF Create, Call, OfComponent
  <2> QED BY <1>1, <2>1, FitsComponent DEF FitsCall
<1>3. ASSUME NEW c \in Component, NEW when, NEW s PROVE FitsCall(SetState(when, c, s))
  <2>1. OfComponent(SetState(when, c, s).args) /\ SetState(when, c, s).begin = "change"
    BY DEF SetState, Call, OfComponent
  <2> QED BY <1>1, <2>1, FitsComponent DEF FitsCall
<1>4. ASSUME NEW t \in PlayerTunnels, NEW timeout, NEW fails
      PROVE  FitsCall(Setup(t, timeout, fails))
  <2>1. OfSetup(Setup(t, timeout, fails).args) /\ Setup(t, timeout, fails).begin = "setup"
    BY DEF Setup, Call, OfSetup
  <2> QED BY <1>1, <2>1, FitsSetup DEF FitsCall
<1>5. ASSUME NEW t \in PlayerTunnels PROVE FitsCall(Disable(t))
  <2>1. Disable(t).args = t /\ Disable(t).begin = "off"
    BY DEF Disable, Call
  <2> QED BY <1>1, <2>1, FitsOff DEF FitsCall
<1>6. ASSUME NEW cs, NEW s PROVE FitsCall(BringDown(Comps(cs), s))
  <2> DEFINE p == BringDown(Comps(cs), s)
             q == Comps(cs)
  <2>1. q \in Seq(Component)
    BY PipelineLists
  <2>2. p.args = [list |-> q, state |-> s] /\ p.begin = "transition"
    BY DEF BringDown, Call
  <2> HIDE DEF p, q
  <2>3. OfTransition(p.args)
    BY <2>1, <2>2 DEF OfTransition
  <2>4. Fits("transition", p.args)
    BY <1>1, <2>3, FitsTransition
  <2>5. FitsCall(p)
    BY <2>2, <2>4 DEF FitsCall
  <2> QED BY <2>5 DEF p
<1> QED
  BY <1>2, <1>3, <1>4, <1>5, <1>6

\* The other calls: flush and cleanup with the lists, and those without.
LEMMA ListCallFits ==
  ASSUME NEW cs, NEW when, NEW fails, NEW about
  PROVE  /\ FitsCall(Call(when, "flush", Tunnels(cs), fails, about))
         /\ FitsCall(Call(when, "cleanup", Comps(cs), fails, about))
         /\ FitsCall(Call(when, "teardown", Tunnels(cs), fails, about))
         /\ \A l \in {"buffers", "feed", "enable_render"} :
              FitsCall(Call(when, l, <<>>, fails, about))
PROOF
<1>1. "flush" \in FlushAt /\ "cleanup" \in CleanAt /\ "teardown" \in Between
      /\ "buffers" \in Between /\ "feed" \in Between /\ "enable_render" \in Between
  BY DEF FlushAt, CleanAt, Between
<1>2. Fits("flush", Tunnels(cs))
  BY <1>1, PipelineLists, FitsFlush
<1>3. Fits("cleanup", Comps(cs))
  BY <1>1, PipelineLists, FitsClean
<1>4. Fits("teardown", Tunnels(cs))
  BY <1>1, FitsBetween
<1>5. \A l \in {"buffers", "feed", "enable_render"} : Fits(l, <<>>)
  BY <1>1, FitsBetween
<1>6. \A l, a : Call(when, l, a, fails, about).begin = l /\ Call(when, l, a, fails, about).args = a
  BY DEF Call
<1> QED
  BY <1>2, <1>3, <1>4, <1>5, <1>6 DEF FitsCall

LEMMA ProgramLength ==
  ASSUME NEW cs
  PROVE  Len(video_decode_test(cs)) = 24
BY DEF video_decode_test
LEMMA ProgramFits ==
  ASSUME NEW cs, NEW k \in 1 .. Len(video_decode_test(cs))
  PROVE  FitsCall(video_decode_test(cs)[k])
PROOF
<1>1. /\ tunnel0 \in PlayerTunnels /\ tunnel1 \in PlayerTunnels /\ tunnel2 \in PlayerTunnels
      /\ decode \in Component /\ render \in Component /\ clock \in Component
      /\ scheduler \in Component
  BY FourComponents DEF PlayerTunnels
<1> DEFINE p1 == Create(decode)
           p2 == Create(render)
           p3 == Create(clock)
           p4 == Create(scheduler)
           p5 == Setup(tunnel2, FALSE, "clock")
           p6 == SetState("unless clock", clock, "Executing")
           p7 == SetState("ok", decode, "Idle")
           p8 == Call("ok", "buffers", <<>>, "buffers", {})
           p9 == SetState("fed", decode, "Executing")
           p10 == Call("fed", "feed", <<>>, "ended", {decode})
           p11 == Setup(tunnel0, FALSE, "tunnel")
           p12 == SetState("ok", scheduler, "Executing")
           p13 == Setup(tunnel1, TRUE, "tunnel")
           p14 == SetState("ok", render, "Idle")
           p15 == Call("ok", "enable_render", <<>>, "ok", {render})
           p16 == SetState("ok", render, "Executing")
           p17 == Call("fed", "flush", Tunnels(cs), "ok", {})
           p18 == Disable(tunnel0)
           p19 == Disable(tunnel1)
           p20 == Disable(tunnel2)
           p21 == Call("always", "teardown", Tunnels(cs), "ok", {})
           p22 == BringDown(Comps(cs), "Idle")
           p23 == BringDown(Comps(cs), "Loaded")
           p24 == Call("always", "cleanup", Comps(cs), "ok", {})
           S == {p1, p2, p3, p4, p5, p6, p7, p8, p9, p10, p11, p12, p13, p14, p15, p16, p17,
                 p18, p19, p20, p21, p22, p23, p24}
           q == <<p1, p2, p3, p4, p5, p6, p7, p8, p9, p10, p11, p12, p13, p14, p15, p16, p17,
                  p18, p19, p20, p21, p22, p23, p24>>
<1>2. /\ FitsCall(p1) /\ FitsCall(p2) /\ FitsCall(p3) /\ FitsCall(p4) /\ FitsCall(p5)
      /\ FitsCall(p6) /\ FitsCall(p7) /\ FitsCall(p9) /\ FitsCall(p11) /\ FitsCall(p12)
      /\ FitsCall(p13) /\ FitsCall(p14) /\ FitsCall(p16) /\ FitsCall(p18) /\ FitsCall(p19)
      /\ FitsCall(p20) /\ FitsCall(p22) /\ FitsCall(p23)
  BY <1>1, CallFits
<1>3. FitsCall(p8) /\ FitsCall(p10) /\ FitsCall(p15) /\ FitsCall(p17) /\ FitsCall(p21)
      /\ FitsCall(p24)
  BY ListCallFits
<1>4. video_decode_test(cs) = q
  BY DEF video_decode_test
<1> HIDE DEF p1, p2, p3, p4, p5, p6, p7, p8, p9, p10, p11, p12, p13, p14, p15, p16, p17,
             p18, p19, p20, p21, p22, p23, p24
<1>5. q \in Seq(S)
  OBVIOUS
<1>6. \A p \in S : FitsCall(p)
  BY <1>2, <1>3
<1> HIDE DEF S, q
<1>7. q[k] \in S
  BY <1>4, <1>5, ElementOfSeq
<1> QED
  BY <1>4, <1>6, <1>7

\* The call the player goes on with.
Takes(k) ==
  /\ call' = k /\ args' = Program[k].args
  /\ at' = IF ThroughNull(k) THEN "crash" ELSE Program[k].begin

LEMMA NextCallKeeps ==
  ASSUME LibraryInv, NextCall
  PROVE  LibraryInv'
PROOF
<1>1. pipeline \in Pipelines /\ pipeline' = pipeline
  BY DEF LibraryInv, ControlInv, NextCall
<1>2. Program = video_decode_test(pipeline)
  BY <1>1 DEF Program, Programs
<1>3. UNCHANGED <<event_list, list, commands, tunnelled>>
  BY DEF NextCall, eventVars, ilVars
<1>6. call \in Nat
  BY DEF LibraryInv, ControlInv
<1>4. Orderly
  BY <1>3, SilentOrderly
<1>5. Fits(at', args')
  <2>1. CASE at' = "done"
    BY <2>1, FitsBetween DEF Between
  <2>2. CASE \E k \in call + 1 .. Len(Program) : Takes(k)
    <3>1. PICK k \in call + 1 .. Len(Program) : Takes(k)
      BY <2>2
    <3>2. Len(Program) \in Nat
      BY <1>2, ProgramLength
    <3>3. k \in 1 .. Len(video_decode_test(pipeline))
      BY <1>2, <1>6, <3>2
    <3>4. Fits(Program[k].begin, Program[k].args)
      BY <1>2, <3>3, ProgramFits DEF FitsCall
    <3>5. Fits("crash", args')
      BY FitsBetween DEF Between
    <3> QED BY <3>1, <3>4, <3>5 DEF Takes
  <2> QED BY <2>1, <2>2 DEF NextCall, Takes
<1>7. call' \in Nat
  <2>1. CASE call' = call
    BY <1>6, <2>1
  <2>2. CASE \E k \in call + 1 .. Len(Program) : Takes(k)
    <3>1. PICK k \in call + 1 .. Len(Program) : Takes(k)
      BY <2>2
    <3>2. Len(Program) \in Nat
      BY <1>2, ProgramLength
    <3> QED BY <1>6, <3>1, <3>2 DEF Takes
  <2> QED BY <2>1, <2>2 DEF NextCall, Takes
<1> QED
  BY <1>1, <1>4, <1>5, <1>7 DEF LibraryInv, ControlInv, Orderly

-----------------------------------------------------------------------------
(* Every step                                                               *)

\* One argument for a procedure whose statements all ask for the same.
LEMMA WithinKeeps ==
  ASSUME LibraryInv, Orderly, UNCHANGED <<pipeline, call>>,
         \/ Within(ComponentAt)
         \/ Within(SetupAt)
         \/ Within(OffAt)
  PROVE  LibraryInv'
PROOF
<1>1. "ok" \in Between /\ "failed" \in Between
  BY DEF Between
<1>2. at \in ComponentAt => OfComponent(args)
  BY DEF LibraryInv, ControlInv, Fits
<1>3. at \in SetupAt => OfSetup(args)
  BY DEF LibraryInv, ControlInv, Fits
<1>4. at \in OffAt => args \in PlayerTunnels
  BY DEF LibraryInv, ControlInv, Fits
<1>5. Fits(at', args')
  <2>1. CASE at' \in {"ok", "failed"}
    BY <1>1, <2>1, FitsBetween
  <2>2. CASE at' \notin {"ok", "failed"}
    <3>1. CASE Within(ComponentAt)
      BY <1>2, <2>2, <3>1, FitsComponent DEF Within
    <3>2. CASE Within(SetupAt)
      BY <1>3, <2>2, <3>2, FitsSetup DEF Within
    <3>3. CASE Within(OffAt)
      BY <1>4, <2>2, <3>3, FitsOff DEF Within
    <3> QED BY <3>1, <3>2, <3>3
  <2> QED BY <2>1, <2>2
<1> QED
  BY <1>5 DEF LibraryInv, ControlInv, Orderly

LEMMA FitsKeeps ==
  ASSUME LibraryInv, Orderly, UNCHANGED <<pipeline, call>>, Fits(at', args')
  PROVE  LibraryInv'
BY DEF LibraryInv, ControlInv, Orderly

LEMMA ProcedureKeeps ==
  ASSUME LibraryInv, Procedure, UNCHANGED <<pipeline, call>>
  PROVE  LibraryInv'
PROOF
<1>1. at \in ComponentAt => OfComponent(args)
  BY DEF LibraryInv, ControlInv, Fits
<1>2. at \in SetupAt => OfSetup(args)
  BY DEF LibraryInv, ControlInv, Fits
<1>3. at \in OffAt => args \in PlayerTunnels
  BY DEF LibraryInv, ControlInv, Fits
<1>4. CASE create_component
  <2>1. Orderly /\ at' \in ComponentAt \union {"ok", "failed"} /\ OfComponent(args')
    BY <1>1, <1>4, CreateOrderly
  <2>2. Fits(at', args')
    <3>1. CASE at' \in ComponentAt
      BY <2>1, <3>1, FitsComponent
    <3>2. CASE at' \in {"ok", "failed"}
      BY <3>2, FitsBetween DEF Between
    <3> QED BY <2>1, <3>1, <3>2
  <2> QED BY <2>1, <2>2, FitsKeeps
<1>5. CASE change_component_state
  BY <1>1, <1>5, ChangeOrderly, WithinKeeps
<1>6. CASE setup_tunnel
  BY <1>2, <1>6, SetupWithin, WithinKeeps
<1>7. CASE MayFail("buffers", "ok", "failed")
  <2>1. UNCHANGED <<event_list, list, commands, tunnelled>> /\ at' \in {"ok", "failed"}
    BY <1>7 DEF MayFail, Silent, eventVars, Goto
  <2>2. Fits(at', args')
    BY <2>1, FitsBetween DEF Between
  <2> QED BY <2>1, <2>2, SilentOrderly, FitsKeeps
<1>8. CASE Feed
  <2>1. commands' = commands /\ tunnelled' = tunnelled /\ at' \in {"ok", "failed"}
    BY <1>8 DEF Feed, Goto, ilVars
  <2>2. \/ TakeEvent(decode, PlaceOf(decode, PortSettingsChanged("131")))
        \/ UNCHANGED <<event_list, list>>
    BY <1>8 DEF Feed, Silent, eventVars
  <2>3. EventInv /\ decode \in Component
    BY FourComponents DEF LibraryInv
  <2>4. PlaceOf(decode, PortSettingsChanged("131")) \in 0 .. Len(list[decode])
    BY <2>3, Places
  <2>5. EventInv'
    BY <2>2, <2>3, <2>4, TakeConserves, NothingChanges
  <2>6. Sent(commands)' /\ (\A u \in tunnelled : Joins(u))'
    BY <2>1 DEF LibraryInv, ControlInv, Joins, Sent
  <2>7. Fits(at', args')
    BY <2>1, FitsBetween DEF Between
  <2>8. Orderly
    BY <2>5, <2>6 DEF Orderly
  <2> QED BY <2>7, <2>8, FitsKeeps
<1>9. CASE EnableRender
  <2>1. UNCHANGED <<event_list, list>>
    BY <1>9 DEF EnableRender, Silent, eventVars
  <2>2. Sent(<<Command(render, "PortEnable", "221")>>)
    BY FourComponents, SendsOneOrTwo
  <2>3. Send("enable_render", <<Command(render, "PortEnable", "221")>>, "ok")
    BY <1>9 DEF EnableRender
  <2>4. Orderly /\ at' = "ok"
    BY <2>1, <2>2, <2>3, SendOrderly DEF Passes
  <2>5. Fits(at', args')
    BY <2>4, FitsBetween DEF Between
  <2> QED BY <2>4, <2>5, FitsKeeps
<1>10. CASE flush_tunnels
  BY <1>10, FlushOrderly, FitsKeeps
<1>11. CASE disable_tunnel(args, "off", "off_source", "off_sink", "off_end", "ok")
  BY <1>3, <1>11, OffOrderly, WithinKeeps
<1>12. CASE teardown_tunnels
  <2>1. UNCHANGED <<event_list, list, commands>> /\ at' = "ok"
        /\ \A u \in tunnelled' : u \in tunnelled
    BY <1>12 DEF teardown_tunnels, Silent, eventVars, Goto
  <2>2. Sent(commands') /\ \A u \in tunnelled' : Joins(u)
    BY <2>1 DEF LibraryInv, ControlInv
  <2>3. Orderly
    BY <2>1, <2>2, QuietOrderly
  <2>4. Fits(at', args')
    BY <2>1, FitsBetween DEF Between
  <2> QED BY <2>3, <2>4, FitsKeeps
<1>13. CASE state_transition
  BY <1>13, TransitionOrderly, FitsKeeps
<1>14. CASE cleanup_components
  BY <1>14, CleanupOrderly, FitsKeeps
<1> QED
  BY <1>4, <1>5, <1>6, <1>7, <1>8, <1>9, <1>10, <1>11, <1>12, <1>13, <1>14, Zenon DEF Procedure

\* What OpenMAX reports goes through the handler.
LEMMA OpenMAXKeeps ==
  ASSUME LibraryInv, OpenMAXAnswers
  PROVE  LibraryInv'
PROOF
<1>1. UNCHANGED <<pipeline, call>>
  BY DEF OpenMAXAnswers
<1>2. EventInv /\ Sent(commands) /\ Fits(at, args) /\ \A t \in tunnelled : Joins(t)
  BY DEF LibraryInv, ControlInv
<1>3. UNCHANGED <<at, args, tunnelled>>
  BY DEF OpenMAXAnswers, Answer, Unpopulated, Announce, clientVars, ilVars
<1>4. Fits(at', args') /\ (\A t \in tunnelled : Joins(t))'
  BY <1>2, <1>3 DEF Joins
<1>5. CASE Answer
  <2>1. PICK i \in DOMAIN commands :
          /\ commands' = RemoveAt(commands, i)
          /\ \E e : ilclient_event_handler(commands[i].comp, e)
    BY <1>5 DEF Answer, Complete
  <2>2. Sent(RemoveAt(commands, i)) /\ commands[i].comp \in Component
    BY <1>2, SendsFewer
  <2>3. EventInv'
    BY <1>2, <2>1, <2>2, HandlerConserves
  <2>4. Orderly
    BY <1>4, <2>1, <2>2, <2>3 DEF Orderly, Sent
  <2> QED BY <1>1, <1>4, <2>4, FitsKeeps
<1>6. CASE Unpopulated
  <2>1. PICK t \in tunnelled : \E e : \/ ilclient_event_handler(t.source, e)
                                      \/ ilclient_event_handler(t.sink, e)
    BY <1>6 DEF Unpopulated, Reports
  <2>2. t.source \in Component /\ t.sink \in Component
    BY <1>2 DEF Joins
  <2>3. EventInv'
    BY <1>2, <2>1, <2>2, HandlerConserves
  <2>4. commands' = commands
    BY <1>6 DEF Unpopulated, ilVars
  <2>5. Orderly
    BY <1>2, <1>4, <2>3, <2>4 DEF Orderly, Sent
  <2> QED BY <1>1, <1>4, <2>5, FitsKeeps
<1>7. CASE Announce
  <2>1. PICK t \in Tunnel : \E e : ilclient_event_handler(t.source, e)
    BY <1>7 DEF Announce
  <2>2. t.source \in Component
    BY ILTunnelAssumption
  <2>3. EventInv'
    BY <1>2, <2>1, <2>2, HandlerConserves
  <2>4. commands' = commands
    BY <1>7 DEF Announce
  <2>5. Orderly
    BY <1>2, <1>4, <2>3, <2>4 DEF Orderly, Sent
  <2> QED BY <1>1, <1>4, <2>5, FitsKeeps
<1> QED
  BY <1>5, <1>6, <1>7 DEF OpenMAXAnswers

LEMMA LibraryInit == PipelineInit => LibraryInv
PROOF
<1> SUFFICES ASSUME PipelineInit PROVE LibraryInv
  OBVIOUS
<1>1. event_list = NUM_EVENTS /\ list = [c \in Component |-> <<>>]
      /\ tunnelled = {} /\ commands = <<>> /\ at = "ok" /\ call = 0 /\ pipeline \in Pipelines
  BY DEF PipelineInit, TunnelInit, EventsInit
<1>2. NUM_EVENTS \in Nat
  BY ILEventsAssumption
<1>3. \A c \in Component : list[c] = <<>> /\ IsList(list[c]) /\ Len(list[c]) = 0
  BY <1>1, NoList
<1>4. EventsConserved
  <2>1. Len(list[decode]) = 0 /\ Len(list[render]) = 0 /\ Len(list[clock]) = 0
        /\ Len(list[scheduler]) = 0
    BY <1>3, FourComponents
  <2>2. event_list + 0 + 0 + 0 + 0 = NUM_EVENTS
    BY <1>1, <1>2
  <2> QED BY <2>1, <2>2 DEF EventsConserved
<1>5. EventInv
  BY <1>1, <1>2, <1>3, <1>4 DEF EventInv
<1>6. Sent(commands)
  <2>1. <<>> \in Seq({})
    BY EmptySeq
  <2> QED BY <1>1, <2>1 DEF Sent
<1>7. Fits(at, args)
  BY <1>1, FitsBetween DEF Between
<1> QED
  BY <1>1, <1>5, <1>6, <1>7 DEF LibraryInv, ControlInv

LEMMA LibraryStep == LibraryInv /\ [PipelineNext]_pipelineVars => LibraryInv'
PROOF
<1> SUFFICES ASSUME LibraryInv, [PipelineNext]_pipelineVars PROVE LibraryInv'
  OBVIOUS
<1>1. CASE Client
  <2>1. CASE NextCall
    BY <2>1, NextCallKeeps
  <2>2. CASE Procedure /\ UNCHANGED <<pipeline, call, status, fed>>
    BY <2>2, ProcedureKeeps
  <2> QED BY <1>1, <2>1, <2>2 DEF Client
<1>2. CASE OpenMAXAnswers
  BY <1>2, OpenMAXKeeps
<1>3. CASE UNCHANGED pipelineVars
  <2>1. UNCHANGED <<event_list, list, commands, tunnelled, at, args, pipeline, call>>
    BY <1>3 DEF pipelineVars, eventVars, clientVars, ilVars
  <2>2. Orderly
    BY <2>1, SilentOrderly
  <2>3. Fits(at', args')
    BY <2>1 DEF LibraryInv, ControlInv
  <2> QED BY <2>1, <2>2, <2>3, FitsKeeps
<1> QED
  BY <1>1, <1>2, <1>3 DEF PipelineNext

\* In every run of the player's pipeline, for any number of event structures and
\* of refusals, no event structure is lost or counted twice: the handler, the
\* waits, the removal of errors and the clean-up each move them between the
\* spare ones and the list of one component (ilclient.c:406-449, 682-693, 1191-1259, 1412-1616).
THEOREM EventsNeverLost == PipelineSpec => []EventsConserved
PROOF
<1>1. LibraryInv => EventsConserved
  BY DEF LibraryInv, EventInv
<1> QED
  BY LibraryInit, LibraryStep, <1>1, PTL DEF PipelineSpec
=============================================================================
