---------------------------- MODULE TextureProofs ----------------------------
(***************************************************************************)
(* A picture is not overwritten while somebody reads it: the one of the    *)
(* preview, which lies in a buffer of the camera (PreviewWorker.tla), and  *)
(* those of the tracker, which the GPU renders (TexturePipeline.tla).  The *)
(* two modules share no variable, and each has its own specification.      *)
(*                                                                         *)
(* The preview, for any pool of two or more buffers and any number of      *)
(* refused or empty ones.  A buffer in two places would be filled while it *)
(* is drawn.  That the five places stay apart needs where the worker is:   *)
(* it holds a buffer exactly from preview_process_returned_bufs to the end *)
(* of raspitex_draw, and the texture refers to the one it holds back, but  *)
(* for the moment between the update of the texture and the return of the  *)
(* previous buffer.                                                        *)
(*                                                                         *)
(* The tracker, for every update interval of the field, any number of      *)
(* frames and a GPU that is at most three frames late.  What a texture     *)
(* will show is settled when the passes are submitted: FieldInv and        *)
(* BallInv say, of every texture and every pass that is still queued,      *)
(* which frames are there and which are to come.                           *)
(***************************************************************************)
EXTENDS PreviewWorker, TexturePipeline, SequenceTheorems, TLAPS

-----------------------------------------------------------------------------
(* Queues of buffers: what Range and IsInjective are after each operation.  *)

\* Both in terms of the indexes.
LEMMA RangeOf ==
  ASSUME NEW S, NEW s \in Seq(S)
  PROVE  /\ Range(s) = {s[i] : i \in 1 .. Len(s)}
         /\ Range(s) \subseteq S
         /\ IsInjective(s) <=> \A i, j \in 1 .. Len(s) : s[i] = s[j] => i = j
BY DEF Range, IsInjective

LEMMA RangeOfEmpty == Range(<<>>) = {} /\ IsInjective(<<>>)
BY DEF Range, IsInjective

LEMMA RangeOfAppend ==
  ASSUME NEW S, NEW s \in Seq(S), NEW x \in S
  PROVE  /\ Append(s, x) \in Seq(S)
         /\ Range(Append(s, x)) = Range(s) \cup {x}
         /\ IsInjective(s) /\ x \notin Range(s) => IsInjective(Append(s, x))
<1> DEFINE t == Append(s, x)
<1>1. t \in Seq(S) /\ Len(t) = Len(s) + 1 /\ t[Len(t)] = x
      /\ \A i \in 1 .. Len(s) : t[i] = s[i]
  BY AppendProperties
<1> HIDE DEF t
<1>2. Len(s) \in Nat
  OBVIOUS
<1>3. \A i \in 1 .. Len(t) : i \in 1 .. Len(s) \/ i = Len(t)
  BY <1>1, <1>2
<1>4. Range(t) = Range(s) \cup {x}
  BY <1>1, <1>2, <1>3, RangeOf
<1>5. ASSUME IsInjective(s), x \notin Range(s) PROVE IsInjective(t)
  BY <1>1, <1>2, <1>3, <1>5, RangeOf
<1>6. QED
  BY <1>1, <1>4, <1>5 DEF t

\* The head leaves the queue, and was in it once.
LEMMA RangeOfTail ==
  ASSUME NEW S, NEW s \in Seq(S), s # <<>>
  PROVE  /\ Head(s) \in Range(s) /\ Tail(s) \in Seq(S)
         /\ Range(Tail(s)) \subseteq Range(s)
         /\ IsInjective(s) => IsInjective(Tail(s)) /\ Head(s) \notin Range(Tail(s))
<1> DEFINE t == Tail(s)
<1>1. /\ t \in Seq(S) /\ Len(t) = Len(s) - 1 /\ Head(s) = s[1]
      /\ \A i \in 1 .. Len(t) : t[i] = s[i + 1]
  BY HeadTailProperties
<1>2. Len(s) \in Nat /\ 1 \in 1 .. Len(s)
  BY EmptySeq, LenProperties
<1> HIDE DEF t
<1>3. \A i \in 1 .. Len(t) : i + 1 \in 1 .. Len(s) /\ i + 1 # 1 /\ t[i] = s[i + 1]
  BY <1>1, <1>2
<1>4. Head(s) \in Range(s) /\ Range(t) \subseteq Range(s)
  BY <1>1, <1>2, <1>3, RangeOf
<1>5. ASSUME IsInjective(s) PROVE IsInjective(t) /\ Head(s) \notin Range(t)
  <2>1. \A i, j \in 1 .. Len(s) : s[i] = s[j] => i = j
    BY <1>5, RangeOf
  <2>2. \A i, j \in 1 .. Len(t) : t[i] = t[j] => i + 1 = j + 1
    BY <2>1, <1>3
  <2>3. \A i, j \in 1 .. Len(t) : t[i] = t[j] => i = j
    BY <2>2
  <2>4. \A i \in 1 .. Len(t) : t[i] # Head(s)
    BY <2>1, <1>1, <1>2, <1>3
  <2>5. QED
    BY <2>3, <2>4, <1>1, RangeOf
<1>6. QED
  BY <1>1, <1>4, <1>5 DEF t

-----------------------------------------------------------------------------
(* The invariant                                                            *)

TypeOK ==
  /\ pool \subseteq Buffer /\ camera \in Seq(Buffer) /\ preview_queue \in Seq(Buffer)
  /\ hand \in Buffer \cup {None} /\ preview_buf \in Buffer \cup {None}

\* The worker holds a buffer between taking it and keeping it; it is started
\* once.
HandInUse ==
  /\ hand \in Buffer <=> worker \in {"taken", "update", "return"}
  /\ main = "start" => worker = "none"

\* The texture refers to the buffer it is drawn from.
TextureHeld ==
  \/ texture = None
  \/ texture = IF worker = "return" THEN hand ELSE preview_buf

PlacesApart ==
  /\ pool \cap (Range(camera) \cup Range(preview_queue) \cup {hand, preview_buf}) = {}
  /\ Range(camera) \cap (Range(preview_queue) \cup {hand, preview_buf}) = {}
  /\ Range(preview_queue) \cap {hand, preview_buf} = {}
  /\ hand = None \/ hand # preview_buf
  /\ IsInjective(camera) /\ IsInjective(preview_queue)

PreviewInv == TypeOK /\ HandInUse /\ TextureHeld /\ PlacesApart

LEMMA PreviewInit == Init => PreviewInv
BY RangeOfEmpty, PreviewAssumption
   DEF Init, PreviewInv, TypeOK, HandInUse, TextureHeld, PlacesApart

\* Where the places are within the buffers.
LEMMA InBuffer ==
  ASSUME TypeOK
  PROVE  Range(camera) \subseteq Buffer /\ Range(preview_queue) \subseteq Buffer
         /\ None \notin Buffer
BY RangeOf, PreviewAssumption DEF TypeOK

\* Steps that leave all buffers where they are.
LEMMA StandStill ==
  ASSUME PreviewInv, UNCHANGED bufferVars, HandInUse', TextureHeld'
  PROVE  PreviewInv'
BY DEF PreviewInv, TypeOK, PlacesApart, bufferVars

\* The worker's own steps.
LEMMA WorkerKeeps == PreviewInv /\ Worker => PreviewInv'
<1> SUFFICES ASSUME PreviewInv, Worker PROVE PreviewInv'
  OBVIOUS
<1>0. /\ TypeOK /\ HandInUse /\ TextureHeld /\ PlacesApart
      /\ Range(camera) \subseteq Buffer /\ Range(preview_queue) \subseteq Buffer
      /\ None \notin Buffer
  BY InBuffer DEF PreviewInv
<1>1. CASE WorkerInit \/ LoopTest \/ PoolEmpty \/ Redraw
  <2>1. HandInUse'
    BY <1>0, <1>1 DEF HandInUse, WorkerInit, LoopTest, PoolEmpty, Redraw, bufferVars
  <2>2. TextureHeld'
    BY <1>0, <1>1 DEF TextureHeld, WorkerInit, LoopTest, PoolEmpty, Redraw, bufferVars
  <2>3. UNCHANGED bufferVars
    BY <1>1 DEF WorkerInit, LoopTest, PoolEmpty, Redraw
  <2>4. QED
    BY <2>1, <2>2, <2>3, StandStill
<1>2. ASSUME NEW b \in Buffer, SendEmpty(b) PROVE PreviewInv'
  <2>1. /\ b \in pool /\ pool' = pool \ {b}
        /\ camera' = Append(camera, b) \/ UNCHANGED camera
        /\ UNCHANGED <<preview_queue, hand, preview_buf, texture, worker, main>>
    BY <1>2 DEF SendEmpty
  <2>2. b \notin Range(camera)
    BY <1>0, <2>1 DEF PlacesApart
  <2>3. camera' \in Seq(Buffer) /\ Range(camera') \subseteq Range(camera) \cup {b}
        /\ IsInjective(camera')
    <3>1. camera \in Seq(Buffer) /\ IsInjective(camera)
      BY <1>0 DEF TypeOK, PlacesApart
    <3>2. CASE camera' = Append(camera, b)
      BY <2>2, <3>1, <3>2, RangeOfAppend
    <3>3. CASE UNCHANGED camera
      BY <3>1, <3>3
    <3>4. QED
      BY <2>1, <3>2, <3>3
  <2>4. TypeOK' /\ HandInUse' /\ TextureHeld'
    BY <1>0, <2>1, <2>3 DEF TypeOK, HandInUse, TextureHeld
  <2>5. PlacesApart'
    BY <1>0, <2>1, <2>3 DEF PlacesApart
  <2>6. QED
    BY <2>4, <2>5 DEF PreviewInv
<1>3. CASE ProcessReturned
  <2>1. CASE preview_queue = <<>>
    <3>1. worker = "process" /\ worker' = "loop" /\ UNCHANGED <<bufferVars, texture, main>>
      BY <1>3, <2>1 DEF ProcessReturned
    <3>2. HandInUse' /\ TextureHeld'
      BY <1>0, <3>1 DEF HandInUse, TextureHeld, bufferVars
    <3>3. QED
      BY <3>1, <3>2, StandStill
  <2>2. CASE preview_queue # <<>>
    <3>1. /\ worker = "process" /\ worker' = "taken"
          /\ hand' = Head(preview_queue) /\ preview_queue' = Tail(preview_queue)
          /\ UNCHANGED <<pool, camera, preview_buf, texture, main>>
      BY <1>3, <2>2 DEF ProcessReturned, TakeFrame
    <3>2. /\ hand' \in Range(preview_queue) /\ preview_queue' \in Seq(Buffer)
          /\ Range(preview_queue') \subseteq Range(preview_queue)
          /\ IsInjective(preview_queue') /\ hand' \notin Range(preview_queue')
      BY <1>0, <2>2, <3>1, RangeOfTail DEF TypeOK, PlacesApart
    <3>3. TypeOK' /\ HandInUse' /\ TextureHeld'
      BY <1>0, <3>1, <3>2 DEF TypeOK, HandInUse, TextureHeld
    <3>4. PlacesApart'
      BY <1>0, <3>1, <3>2 DEF PlacesApart
    <3>5. QED
      BY <3>3, <3>4 DEF PreviewInv
  <2>3. QED
    BY <2>1, <2>2
<1>4. CASE StopTest
  <2>1. /\ worker = "taken"
        /\ \/ worker' = "process" /\ hand' = None
           \/ worker' = "update" /\ UNCHANGED hand
        /\ UNCHANGED <<pool, camera, preview_queue, preview_buf, texture, main>>
    BY <1>4 DEF StopTest
  <2>2. TypeOK' /\ HandInUse' /\ TextureHeld'
    BY <1>0, <2>1 DEF TypeOK, HandInUse, TextureHeld
  <2>3. PlacesApart'
    BY <1>0, <2>1 DEF PlacesApart, TypeOK
  <2>4. QED
    BY <2>2, <2>3 DEF PreviewInv
<1>5. CASE UpdateTexture
  <2>1. HandInUse' /\ TextureHeld' /\ UNCHANGED bufferVars
    BY <1>0, <1>5 DEF UpdateTexture, HandInUse, TextureHeld, bufferVars
  <2>2. QED
    BY <2>1, StandStill
<1>6. CASE ReturnPrevious
  <2>1. /\ worker = "return" /\ worker' = "redraw" /\ pool' = pool \cup ({preview_buf} \ {None})
        /\ preview_buf' = hand /\ hand' = None
        /\ UNCHANGED <<camera, preview_queue, texture, main>>
    BY <1>6 DEF ReturnPrevious, Returned
  <2>2. TypeOK' /\ HandInUse' /\ TextureHeld'
    BY <1>0, <2>1 DEF TypeOK, HandInUse, TextureHeld
  <2>3. PlacesApart'
    BY <1>0, <2>1 DEF PlacesApart, TypeOK
  <2>4. QED
    BY <2>2, <2>3 DEF PreviewInv
<1>7. CASE DrainOne
  <2>1. /\ preview_queue # <<>> /\ pool' = pool \cup {Head(preview_queue)}
        /\ preview_queue' = Tail(preview_queue)
        /\ UNCHANGED <<camera, hand, preview_buf, texture, worker, main>>
    BY <1>7 DEF DrainOne
  <2>2. PICK b : b = Head(preview_queue)
    OBVIOUS
  <2>3. /\ b \in Range(preview_queue) /\ preview_queue' \in Seq(Buffer)
        /\ Range(preview_queue') \subseteq Range(preview_queue)
        /\ IsInjective(preview_queue') /\ b \notin Range(preview_queue')
    BY <1>0, <2>1, <2>2, RangeOfTail DEF TypeOK, PlacesApart
  <2>4. TypeOK' /\ HandInUse' /\ TextureHeld'
    BY <1>0, <2>1, <2>2, <2>3 DEF TypeOK, HandInUse, TextureHeld
  <2>5. PlacesApart'
    BY <1>0, <2>1, <2>2, <2>3 DEF PlacesApart
  <2>6. QED
    BY <2>4, <2>5 DEF PreviewInv
<1>8. CASE GlTerm
  <2>1. HandInUse' /\ TextureHeld' /\ UNCHANGED bufferVars
    BY <1>0, <1>8 DEF GlTerm, HandInUse, TextureHeld, bufferVars
  <2>2. QED
    BY <2>1, StandStill
<1>9. QED
  BY <1>1, <1>2, <1>3, <1>4, <1>5, <1>6, <1>7, <1>8 DEF Worker

\* The callback: the first buffer of the camera goes to the queue or the pool.
LEMMA CallbackKeeps ==
  PreviewInv /\ (CameraFrame \/ CameraNoData \/ CameraEOS) => PreviewInv'
<1> SUFFICES ASSUME PreviewInv, CameraFrame \/ CameraNoData \/ CameraEOS PROVE PreviewInv'
  OBVIOUS
<1>0. /\ TypeOK /\ HandInUse /\ TextureHeld /\ PlacesApart
      /\ Range(camera) \subseteq Buffer /\ Range(preview_queue) \subseteq Buffer
      /\ None \notin Buffer
  BY InBuffer DEF PreviewInv
<1>1. PICK b : b = Head(camera)
  OBVIOUS
<1>2. /\ camera # <<>> /\ camera' = Tail(camera)
      /\ UNCHANGED <<hand, preview_buf, texture, worker, main>>
      /\ \/ pool' = pool \cup {b} /\ UNCHANGED preview_queue
         \/ preview_queue' = Append(preview_queue, b) /\ UNCHANGED pool
  BY <1>1 DEF CameraFrame, CameraNoData, CameraEOS
<1>3. /\ b \in Range(camera) /\ camera' \in Seq(Buffer)
      /\ Range(camera') \subseteq Range(camera)
      /\ IsInjective(camera') /\ b \notin Range(camera')
  BY <1>0, <1>1, <1>2, RangeOfTail DEF TypeOK, PlacesApart
<1>4. CASE pool' = pool \cup {b} /\ UNCHANGED preview_queue
  <2>1. TypeOK' /\ HandInUse' /\ TextureHeld'
    BY <1>0, <1>2, <1>3, <1>4 DEF TypeOK, HandInUse, TextureHeld
  <2>2. PlacesApart'
    BY <1>0, <1>2, <1>3, <1>4 DEF PlacesApart
  <2>3. QED
    BY <2>1, <2>2 DEF PreviewInv
<1>5. CASE preview_queue' = Append(preview_queue, b) /\ UNCHANGED pool
  <2>1. b \notin Range(preview_queue)
    BY <1>0, <1>3 DEF PlacesApart
  <2>2. preview_queue' \in Seq(Buffer) /\ Range(preview_queue') = Range(preview_queue) \cup {b}
        /\ IsInjective(preview_queue')
    BY <1>0, <1>3, <1>5, <2>1, RangeOfAppend DEF TypeOK, PlacesApart
  <2>3. TypeOK' /\ HandInUse' /\ TextureHeld'
    BY <1>0, <1>2, <1>3, <1>5, <2>2 DEF TypeOK, HandInUse, TextureHeld
  <2>4. PlacesApart'
    BY <1>0, <1>2, <1>3, <1>5, <2>2 DEF PlacesApart
  <2>5. QED
    BY <2>3, <2>4 DEF PreviewInv
<1>6. QED
  BY <1>2, <1>4, <1>5

LEMMA PreviewNext == PreviewInv /\ [Next]_vars => PreviewInv'
<1> SUFFICES ASSUME PreviewInv, [Next]_vars PROVE PreviewInv'
  OBVIOUS
<1>0. HandInUse /\ TextureHeld
  BY DEF PreviewInv
<1>1. CASE raspitex_start \/ StartFails \/ Stop \/ Join \/ JoinNothing \/ raspitex_destroy
  <2>1. UNCHANGED <<bufferVars, texture>> /\ main' # "start"
        /\ (UNCHANGED worker \/ (main = "start" /\ worker' = "init"))
    BY <1>1 DEF raspitex_start, StartFails, Stop, raspitex_stop, Join, JoinNothing,
                raspitex_destroy
  <2>2. HandInUse' /\ TextureHeld'
    BY <1>0, <2>1 DEF HandInUse, TextureHeld, bufferVars
  <2>3. QED
    BY <2>1, <2>2, StandStill
<1>2. CASE UNCHANGED vars
  BY <1>0, <1>2, StandStill DEF HandInUse, TextureHeld, vars, bufferVars
<1>3. QED
  BY <1>1, <1>2, WorkerKeeps, CallbackKeeps DEF Next

-----------------------------------------------------------------------------
(* The theorem                                                              *)

\* Every buffer of the preview is in one place at most and the one the texture
\* shows is still held, whatever the camera does with the buffers, whatever is
\* dropped or drained, and whenever the worker is stopped
\* (RaspiTexBalls.c:279-328, 366-385, 422-442).
THEOREM NeverRefilledWhileShown == Spec => []TextureNotRefilled
<1>1. PreviewInv => TextureNotRefilled
  <2> SUFFICES ASSUME PreviewInv PROVE TextureNotRefilled
    OBVIOUS
  <2> DEFINE places == <<pool, Range(camera), Range(preview_queue),
                         {hand} \ {None}, {preview_buf} \ {None}>>
  <2>1. /\ TypeOK /\ HandInUse /\ TextureHeld /\ PlacesApart
        /\ Range(camera) \subseteq Buffer /\ Range(preview_queue) \subseteq Buffer
        /\ None \notin Buffer
    BY InBuffer DEF PreviewInv
  <2>2. texture \notin pool \cup Range(camera)
    BY <2>1 DEF TypeOK, TextureHeld, PlacesApart
  <2>3. \A i, j \in 1 .. 5 : i < j => places[i] \cap places[j] = {}
    <3>1. places[1] = pool /\ places[2] = Range(camera) /\ places[3] = Range(preview_queue)
          /\ places[4] = {hand} \ {None} /\ places[5] = {preview_buf} \ {None}
      OBVIOUS
    <3> HIDE DEF places
    <3>2. \A i, j \in 1 .. 5 : i < j =>
            \/ (i = 1 /\ j \in {2, 3, 4, 5})
            \/ (i = 2 /\ j \in {3, 4, 5})
            \/ (i = 3 /\ j \in {4, 5})
            \/ (i = 4 /\ j = 5)
      OBVIOUS
    <3>3. \A j \in {2, 3, 4, 5} : places[1] \cap places[j] = {}
      BY <2>1, <3>1 DEF PlacesApart
    <3>4. \A j \in {3, 4, 5} : places[2] \cap places[j] = {}
      BY <2>1, <3>1 DEF PlacesApart
    <3>5. (\A j \in {4, 5} : places[3] \cap places[j] = {}) /\ places[4] \cap places[5] = {}
      BY <2>1, <3>1 DEF PlacesApart
    <3>6. QED
      BY <3>2, <3>3, <3>4, <3>5
  <2>4. \A i, j \in 1 .. 5 : i # j => places[i] \cap places[j] = {}
    <3> HIDE DEF places
    <3>1. \A i, j \in 1 .. 5 : i # j => i < j \/ j < i
      OBVIOUS
    <3>2. QED
      BY <2>3, <3>1
  <2>5. QED
    BY <2>1, <2>2, <2>4 DEF TextureNotRefilled, PlacesApart
<1>2. QED
  BY <1>1, PreviewInit, PreviewNext, PTL DEF Spec

-----------------------------------------------------------------------------
(* The textures of the tracker: the inductive invariant                     *)

\* How late the GPU may be at most for the properties to hold: the gap between
\* the field passes and their read-out, and the frames before the first buffer.
GpuKeepsUp == MaxBehind <= 3

Pass == [source : Texture \union {INPUT}, target : Texture, frame : Int]

PipelineType ==
  /\ coreFrame \in Int /\ coreFrame >= FirstFrame /\ fieldUpdateSteps \in Nat
  /\ color.read = 0 /\ down.read = 0
  /\ pc \in {"outside", "readField", "ball", "readBall"}
  /\ gpuQueue \in Seq(Pass)
  /\ rendering \in BOOLEAN /\ (rendering => gpuQueue # <<>>)
  /\ contents \in [Texture -> SUBSET Int]
  /\ seen \in SUBSET Int

\* The field textures.  The camera frame they are rendered from, once the
\* countdown is at 4 or less; it is passed on one frame later.
FieldFrame == coreFrame - (IF pc = "readField" THEN 5 ELSE 4 - fieldUpdateSteps)
Rendered(q, target) == \A i \in 1 .. Len(q) : q[i].target # target

FieldPassesInOrder ==
  \A i \in 1 .. Len(gpuQueue) :
    /\ gpuQueue[i].target = ColorField =>
         /\ fieldUpdateSteps <= 4 /\ pc # "readField"
         /\ gpuQueue[i].source = INPUT /\ gpuQueue[i].frame = FieldFrame
    /\ gpuQueue[i].target = DownField =>
         /\ fieldUpdateSteps <= 3 /\ pc # "readField"
         /\ gpuQueue[i].source = ColorField /\ gpuQueue[i].frame = FieldFrame + 1
         /\ \A j \in i .. Len(gpuQueue) : gpuQueue[j].target # ColorField

FieldComplete ==
  /\ fieldUpdateSteps <= 4 /\ Rendered(gpuQueue, ColorField) => contents[ColorField] = {FieldFrame}
  /\ fieldUpdateSteps <= 3 /\ Rendered(gpuQueue, DownField) => contents[DownField] = {FieldFrame}
  /\ pc = "readField" => fieldUpdateSteps = 0 /\ seen = {FieldFrame}

FieldInv == FieldPassesInOrder /\ FieldComplete

\* The ball textures.  The last frame whose ball passes were submitted.
LastBall == IF pc \in {"readField", "ball"} THEN coreFrame - 1 ELSE coreFrame
BallPass(p, last) ==
  /\ p.target \in {Color(0), Down(0)}
  /\ p.source = IF p.target = Color(0) THEN INPUT ELSE Color(0)
  /\ p.frame > FirstFrame /\ p.frame <= last

BallPassesInOrder ==
  \A i \in 1 .. Len(gpuQueue) :
    gpuQueue[i].target \in {ColorField, DownField} \/
      /\ BallPass(gpuQueue[i], LastBall)
      /\ gpuQueue[i].frame < LastBall =>
           \E j \in 1 .. Len(gpuQueue) : j > i /\ gpuQueue[j].target = gpuQueue[i].target
                                           /\ gpuQueue[j].frame = gpuQueue[i].frame + 1
      /\ gpuQueue[i].target = Down(0) =>
           \A j \in i .. Len(gpuQueue) :
             gpuQueue[j].target = Color(0) => gpuQueue[j].frame > gpuQueue[i].frame

\* Whatever a ball texture shows, its next frame is still to be rendered.
UpToDate(target) ==
  \A e \in contents[target] :
    /\ e <= LastBall
    /\ \/ e = LastBall \/ LastBall = FirstFrame
       \/ \E i \in 1 .. Len(gpuQueue) :
            /\ gpuQueue[i].target = target
            /\ gpuQueue[i].frame = FirstFrame + 1 \/ gpuQueue[i].frame <= e + 1

Recent(frames, n) == \A e \in frames : n - MaxBehind - 1 <= e /\ e <= n

BallFramesRecent ==
  pc # "outside" =>
    /\ \A i \in 1 .. Len(gpuQueue) : gpuQueue[i].frame >= coreFrame - MaxBehind
    /\ coreFrame >= 0 => /\ Recent(contents[Color(0)], coreFrame)
                           /\ Recent(contents[Down(0)], coreFrame)
    /\ pc = "readBall" => coreFrame >= 0 /\ Recent(seen, coreFrame)

BallInv == /\ BallPassesInOrder /\ UpToDate(Color(0)) /\ UpToDate(Down(0)) /\ BallFramesRecent
           /\ pc \in {"readField", "ball"} => coreFrame > FirstFrame

Readouts == FieldReadoutIntact /\ BallReadoutRecent /\ ReadoutDefined

PipelineInv == PipelineType /\ FieldInv /\ BallInv /\ Readouts

-----------------------------------------------------------------------------
(* Textures and passes                                                      *)

LEMMA TexturesDiffer ==
  /\ Color(0) \in Texture /\ Down(0) \in Texture /\ ColorField \in Texture /\ DownField \in Texture
  /\ Color(0) # Down(0) /\ Color(0) # ColorField /\ Color(0) # DownField
  /\ Down(0) # ColorField /\ Down(0) # DownField /\ ColorField # DownField
  /\ INPUT # Color(0) /\ INPUT # ColorField
BY DEF Texture, Color, Down, ColorField, DownField, INPUT

LEMMA RenderedContents ==
  ASSUME contents \in [Texture -> SUBSET Int], NEW p \in Pass
  PROVE  PassContents(p) \in SUBSET Int
BY DEF PassContents, Pass, Texture

\* What is left of the queue when its oldest pass is done.
LEMMA QueueTail ==
  ASSUME NEW q \in Seq(Pass), q # <<>>
  PROVE  /\ Head(q) = q[1] /\ q[1] \in Pass /\ Len(q) \in Nat /\ Len(q) >= 1
         /\ Tail(q) \in Seq(Pass) /\ Len(Tail(q)) = Len(q) - 1
         /\ \A i \in 1 .. Len(Tail(q)) : Tail(q)[i] = q[i + 1] /\ i + 1 \in 1 .. Len(q)
         /\ \A i \in 1 .. Len(q) : i > 1 => i - 1 \in 1 .. Len(Tail(q)) /\ Tail(q)[i - 1] = q[i]
OBVIOUS

\* The queue with a pass added.
LEMMA QueueAppend ==
  ASSUME NEW q \in Seq(Pass), NEW p \in Pass
  PROVE  /\ q \o <<p>> \in Seq(Pass) /\ Len(q \o <<p>>) = Len(q) + 1 /\ Len(q) \in Nat
         /\ \A i \in 1 .. Len(q) : (q \o <<p>>)[i] = q[i]
         /\ (q \o <<p>>)[Len(q) + 1] = p
OBVIOUS

LEMMA QueueAppendTwo ==
  ASSUME NEW q \in Seq(Pass), NEW p \in Pass, NEW r \in Pass
  PROVE  /\ q \o <<p, r>> \in Seq(Pass) /\ Len(q \o <<p, r>>) = Len(q) + 2 /\ Len(q) \in Nat
         /\ \A i \in 1 .. Len(q) : (q \o <<p, r>>)[i] = q[i]
         /\ (q \o <<p, r>>)[Len(q) + 1] = p /\ (q \o <<p, r>>)[Len(q) + 2] = r
OBVIOUS

-----------------------------------------------------------------------------
(* Types                                                                    *)

LEMMA PipelineTypeInit ==
  ASSUME PipelineInit
  PROVE  PipelineType
PROOF
<1>1. coreFrame \in Int /\ coreFrame >= FirstFrame /\ fieldUpdateSteps \in Nat
  BY PipelineAssumption DEF PipelineInit, FirstFrame
<1>2. color.read = 0 /\ down.read = 0 /\ pc = "outside" /\ rendering = FALSE
  BY DEF PipelineInit
<1>3. gpuQueue \in Seq(Pass) /\ seen \in SUBSET Int
  BY DEF PipelineInit
<1>4. contents \in [Texture -> SUBSET Int]
  BY DEF PipelineInit, UNDEFINED
<1> QED
  BY <1>1, <1>2, <1>3, <1>4 DEF PipelineType

LEMMA GpuType ==
  ASSUME PipelineType, GPU
  PROVE  PipelineType'
PROOF
<1>1. /\ gpuQueue \in Seq(Pass) /\ contents \in [Texture -> SUBSET Int] /\ seen \in SUBSET Int
  BY DEF PipelineType
<1>2. gpuQueue # <<>>
  BY DEF GPU, GpuStart, GpuFinish, PipelineType
<1> DEFINE h == gpuQueue[1]
<1>3. Head(gpuQueue) = h /\ h \in Pass /\ h.target \in Texture /\ Tail(gpuQueue) \in Seq(Pass)
  BY <1>1, <1>2, QueueTail DEF Pass
<1>4. PassContents(h) \in SUBSET Int
  BY <1>1, <1>3, RenderedContents
<1> HIDE DEF h
<1>5. contents' \in [Texture -> SUBSET Int]
  <2>1. \E s \in SUBSET Int : contents' = [contents EXCEPT ![h.target] = s]
    <3>1. contents[h.target] \union PassContents(h) \in SUBSET Int
      BY <1>1, <1>3, <1>4
    <3> QED BY <1>3, <1>4, <3>1 DEF GPU, GpuStart, GpuFinish
  <2> QED BY <1>1, <1>3, <2>1
<1>6. seen' \in SUBSET Int
  <2>1. seen' = seen \/ seen' = seen \union contents'[h.target]
    BY <1>3 DEF GPU, GpuStart, GpuFinish, Watch
  <2> QED BY <1>1, <1>3, <1>5, <2>1
<1>7. rendering' \in BOOLEAN /\ (rendering' => gpuQueue' # <<>>) /\ gpuQueue' \in Seq(Pass)
  BY <1>1, <1>2, <1>3 DEF GPU, GpuStart, GpuFinish, PipelineType
<1>8. UNCHANGED glVars
  BY DEF GPU, GpuStart, GpuFinish
<1> QED
  BY <1>5, <1>6, <1>7, <1>8 DEF PipelineType, glVars

LEMMA FieldPassesAre ==
  ASSUME PipelineType, coreFrame' = coreFrame + 1
  PROVE  /\ fieldUpdateSteps = 5 =>
            /\ FieldPasses = <<[source |-> INPUT, target |-> ColorField, frame |-> coreFrame + 1]>>
            /\ [source |-> INPUT, target |-> ColorField, frame |-> coreFrame + 1] \in Pass
         /\ fieldUpdateSteps = 4 =>
            /\ FieldPasses = <<[source |-> ColorField, target |-> DownField, frame |-> coreFrame + 1]>>
            /\ [source |-> ColorField, target |-> DownField, frame |-> coreFrame + 1] \in Pass
         /\ fieldUpdateSteps \notin {4, 5} => FieldPasses = <<>>
BY TexturesDiffer DEF FieldPasses, RenderPass, FilterFieldStep, DownsampleFieldStep, PipelineType, Pass

LEMMA BallPassesAre ==
  ASSUME PipelineType, BallPasses
  PROVE  LET p == [source |-> INPUT, target |-> Color(0), frame |-> coreFrame]
             r == [source |-> Color(0), target |-> Down(0), frame |-> coreFrame]
         IN  /\ p \in Pass /\ r \in Pass /\ gpuQueue' = gpuQueue \o <<p, r>>
             /\ color'.read = 0 /\ down'.read = 0
PROOF
<1>1. color'.read = 0 /\ color'.write = 0 /\ down'.read = 0 /\ down'.write = 0
  BY DEF BallPasses, Swap, PipelineType
<1> QED
  BY <1>1, TexturesDiffer DEF BallPasses, PipelineType, Pass

LEMMA GLType ==
  ASSUME PipelineType, GLThread
  PROVE  PipelineType'
PROOF
<1>1. /\ gpuQueue \in Seq(Pass) /\ contents \in [Texture -> SUBSET Int] /\ seen \in SUBSET Int
      /\ coreFrame \in Int /\ fieldUpdateSteps \in Nat
  BY DEF PipelineType
<1>2. CASE BeginFrame
  <2>1. gpuQueue' \in Seq(Pass) /\ Len(gpuQueue') >= Len(gpuQueue)
    <3>1. CASE gpuQueue' = gpuQueue
      BY <1>1, <3>1
    <3>2. CASE gpuQueue' = gpuQueue \o FieldPasses
      <4>1. \/ \E p \in Pass : gpuQueue' = gpuQueue \o <<p>>
            \/ gpuQueue' = gpuQueue \o <<>>
        <5>1. coreFrame' = coreFrame + 1
          BY <1>2 DEF BeginFrame
        <5> QED BY <3>2, <5>1, FieldPassesAre
      <4>2. CASE gpuQueue' = gpuQueue \o <<>>
        <5>1. gpuQueue' = gpuQueue
          BY <1>1, <4>2
        <5> QED BY <1>1, <5>1
      <4>3. CASE \E p \in Pass : gpuQueue' = gpuQueue \o <<p>>
        BY <1>1, <4>3, QueueAppend
      <4> QED BY <4>1, <4>2, <4>3
    <3> QED BY <1>2, <3>1, <3>2 DEF BeginFrame
  <2>2. fieldUpdateSteps' \in Nat
    BY <1>1, <1>2 DEF BeginFrame, CountdownOver
  <2>3. seen' \in SUBSET Int
    BY <1>1, <1>2, TexturesDiffer DEF BeginFrame
  <2>4. gpuQueue # <<>> => gpuQueue' # <<>>
    BY <1>1, <2>1
  <2>5. coreFrame' \in Int /\ coreFrame' >= FirstFrame
    BY <1>2 DEF BeginFrame, PipelineType, FirstFrame
  <2>6. /\ color' = color /\ down' = down /\ rendering' = rendering /\ contents' = contents
        /\ pc' \in {"readField", "ball"}
    BY <1>2 DEF BeginFrame
  <2>7. rendering' \in BOOLEAN /\ (rendering' => gpuQueue' # <<>>)
    BY <2>4, <2>6 DEF PipelineType
  <2>8. color'.read = 0 /\ down'.read = 0 /\ contents' \in [Texture -> SUBSET Int]
    BY <2>6 DEF PipelineType
  <2> QED BY <2>1, <2>2, <2>3, <2>5, <2>6, <2>7, <2>8 DEF PipelineType, FirstFrame
<1>3. CASE FieldSent
  BY <1>3, PipelineAssumption DEF FieldSent, PipelineType, Restart, gpuVars
<1>4. CASE BallPasses
  <2>1. gpuQueue' \in Seq(Pass) /\ gpuQueue' # <<>>
    <3>1. PICK p \in Pass, r \in Pass : gpuQueue' = gpuQueue \o <<p, r>>
      BY <1>4, BallPassesAre
    <3>2. Len(gpuQueue') = Len(gpuQueue) + 2 /\ Len(gpuQueue) \in Nat /\ gpuQueue' \in Seq(Pass)
      BY <1>1, <3>1, QueueAppendTwo
    <3> QED BY <3>2
  <2>2. seen' \in SUBSET Int
    <3>1. down'.read = 0
      BY <1>4, BallPassesAre
    <3> QED BY <1>1, <1>4, <3>1, TexturesDiffer DEF BallPasses
  <2> QED BY <1>4, <2>1, <2>2, BallPassesAre DEF BallPasses, PipelineType
<1>5. CASE BallSent
  BY <1>5 DEF BallSent, PipelineType, gpuVars
<1> QED
  BY <1>2, <1>3, <1>4, <1>5 DEF GLThread

-----------------------------------------------------------------------------
(* The field textures                                                       *)

\* The GPU keeps to the order of the passes, so that the second field pass
\* finds the first one's picture.
LEMMA FieldGpu ==
  ASSUME PipelineType, FieldInv, GPU
  PROVE  FieldInv'
PROOF
<1>1. gpuQueue \in Seq(Pass) /\ contents \in [Texture -> SUBSET Int] /\ gpuQueue # <<>>
  BY DEF GPU, GpuStart, GpuFinish, PipelineType
<1> DEFINE h == gpuQueue[1]
<1>2. Head(gpuQueue) = h /\ h \in Pass /\ h.target \in Texture /\ 1 \in 1 .. Len(gpuQueue)
  <2>1. Head(gpuQueue) = h /\ h \in Pass /\ Len(gpuQueue) \in Nat /\ Len(gpuQueue) >= 1
    BY <1>1, QueueTail
  <2> QED BY <2>1 DEF Pass
<1>3. FieldFrame' = FieldFrame /\ pc' = pc /\ fieldUpdateSteps' = fieldUpdateSteps
  BY DEF GPU, GpuStart, GpuFinish, glVars, FieldFrame
<1>4. \A t \in Texture : t # h.target => contents'[t] = contents[t]
  <2>1. \E s : contents' = [contents EXCEPT ![h.target] = s]
    BY <1>2 DEF GPU, GpuStart, GpuFinish
  <2> QED BY <1>1, <2>1
<1>5. h.target = ColorField =>
        fieldUpdateSteps <= 4 /\ pc # "readField" /\ h.source = INPUT /\ h.frame = FieldFrame
  BY <1>2 DEF FieldInv, FieldPassesInOrder
<1>6. h.target = DownField =>
        /\ fieldUpdateSteps <= 3 /\ pc # "readField" /\ h.source = ColorField
        /\ Rendered(gpuQueue, ColorField)
  BY <1>2 DEF FieldInv, FieldPassesInOrder, Rendered
<1> HIDE DEF h
<1>7. pc = "readField" => seen' = seen
  <2> SUFFICES ASSUME pc = "readField" PROVE seen' = seen
    OBVIOUS
  <2>1. h.target # DownField /\ ReadTexture = {DownField}
    BY <1>6 DEF ReadTexture
  <2> QED BY <1>2, <2>1 DEF GPU, GpuStart, GpuFinish, Watch
<1>8. CASE GpuStart
  <2>1. gpuQueue' = gpuQueue
    BY <1>8 DEF GpuStart
  <2>2. FieldPassesInOrder'
    BY <1>3, <2>1 DEF FieldInv, FieldPassesInOrder
  <2>3. \A t \in {ColorField, DownField} : Rendered(gpuQueue, t) => contents'[t] = contents[t]
    BY <1>2, <1>4, TexturesDiffer DEF Rendered, h
  <2>4. FieldComplete'
    BY <1>3, <1>7, <2>1, <2>3 DEF FieldInv, FieldComplete, Rendered
  <2> QED BY <2>2, <2>4 DEF FieldInv
<1>9. CASE GpuFinish
  <2>1. gpuQueue' = Tail(gpuQueue)
    BY <1>9 DEF GpuFinish
  <2>2. /\ Len(gpuQueue') = Len(gpuQueue) - 1 /\ Len(gpuQueue) \in Nat
        /\ \A i \in 1 .. Len(gpuQueue') : gpuQueue'[i] = gpuQueue[i + 1] /\ i + 1 \in 1 .. Len(gpuQueue)
        /\ \A i \in 1 .. Len(gpuQueue) : i > 1 => i - 1 \in 1 .. Len(gpuQueue')
                                                   /\ gpuQueue'[i - 1] = gpuQueue[i]
    BY <1>1, <2>1, QueueTail
  <2>3. FieldPassesInOrder'
    <3> SUFFICES ASSUME NEW i \in 1 .. Len(gpuQueue')
                 PROVE  /\ gpuQueue'[i].target = ColorField =>
                             /\ fieldUpdateSteps <= 4 /\ pc # "readField"
                             /\ gpuQueue'[i].source = INPUT /\ gpuQueue'[i].frame = FieldFrame
                        /\ gpuQueue'[i].target = DownField =>
                             /\ fieldUpdateSteps <= 3 /\ pc # "readField"
                             /\ gpuQueue'[i].source = ColorField
                             /\ gpuQueue'[i].frame = FieldFrame + 1
                             /\ \A j \in i .. Len(gpuQueue') : gpuQueue'[j].target # ColorField
      BY <1>3 DEF FieldPassesInOrder
    <3>1. gpuQueue'[i] = gpuQueue[i + 1] /\ i + 1 \in 1 .. Len(gpuQueue)
      BY <2>2
    <3>2. \A j \in i .. Len(gpuQueue') : j \in 1 .. Len(gpuQueue') /\ j + 1 \in i + 1 .. Len(gpuQueue)
      BY <2>2
    <3>3. /\ gpuQueue[i + 1].target = ColorField =>
               /\ fieldUpdateSteps <= 4 /\ pc # "readField"
               /\ gpuQueue[i + 1].source = INPUT /\ gpuQueue[i + 1].frame = FieldFrame
          /\ gpuQueue[i + 1].target = DownField =>
               /\ fieldUpdateSteps <= 3 /\ pc # "readField"
               /\ gpuQueue[i + 1].source = ColorField /\ gpuQueue[i + 1].frame = FieldFrame + 1
               /\ \A j \in i + 1 .. Len(gpuQueue) : gpuQueue[j].target # ColorField
      BY <3>1 DEF FieldInv, FieldPassesInOrder
    <3>4. gpuQueue[i + 1].target = DownField =>
            \A j \in i .. Len(gpuQueue') : gpuQueue'[j].target # ColorField
      BY <2>2, <3>2, <3>3
    <3> QED BY <3>1, <3>3, <3>4
  <2>4. \A t \in Texture : Rendered(gpuQueue', t) /\ t # h.target => Rendered(gpuQueue, t)
    <3> SUFFICES ASSUME NEW t \in Texture, Rendered(gpuQueue', t), t # h.target,
                        NEW i \in 1 .. Len(gpuQueue)
                 PROVE  gpuQueue[i].target # t
      BY DEF Rendered
    <3>1. CASE i = 1
      BY <3>1 DEF h
    <3>2. CASE i > 1
      BY <2>2, <3>2 DEF Rendered
    <3> QED BY <2>2, <3>1, <3>2
  <2>5. contents'[h.target] = PassContents(h)
    BY <1>1, <1>2, <1>9 DEF GpuFinish
  <2>6. fieldUpdateSteps <= 4 /\ Rendered(gpuQueue', ColorField) => contents'[ColorField] = {FieldFrame}
    <3>1. CASE h.target = ColorField
      BY <1>5, <2>5, <3>1 DEF PassContents
    <3>2. CASE h.target # ColorField
      BY <1>4, <2>4, <3>2, TexturesDiffer DEF FieldInv, FieldComplete
    <3> QED BY <3>1, <3>2
  <2>7. fieldUpdateSteps <= 3 /\ Rendered(gpuQueue', DownField) => contents'[DownField] = {FieldFrame}
    <3>1. CASE h.target = DownField
      <4>1. contents[ColorField] = {FieldFrame}
        <5>1. fieldUpdateSteps \in Nat
          BY DEF PipelineType
        <5> QED BY <1>6, <3>1, <5>1 DEF FieldInv, FieldComplete
      <4> QED BY <1>6, <2>5, <3>1, <4>1, TexturesDiffer DEF PassContents
    <3>2. CASE h.target # DownField
      BY <1>4, <2>4, <3>2, TexturesDiffer DEF FieldInv, FieldComplete
    <3> QED BY <3>1, <3>2
  <2>8. FieldComplete'
    BY <1>3, <1>7, <2>6, <2>7 DEF FieldInv, FieldComplete
  <2> QED BY <2>3, <2>8 DEF FieldInv
<1> QED
  BY <1>8, <1>9 DEF GPU

\* The gap of the countdown, of four frames, is wider than the GPU is late:
\* when the read-out begins, both field passes are done.
LEMMA FieldBegin ==
  ASSUME PipelineType, FieldInv, BeginFrame, GpuKeepsUp
  PROVE  FieldInv'
PROOF
<1>1. /\ gpuQueue \in Seq(Pass) /\ coreFrame \in Int /\ fieldUpdateSteps \in Nat
      /\ pc = "outside" /\ coreFrame' = coreFrame + 1 /\ contents' = contents
  BY DEF PipelineType, BeginFrame
<1>2. MaxBehind \in Nat /\ MaxBehind <= 3 /\ Len(gpuQueue) \in Nat
  BY <1>1, PipelineAssumption DEF GpuKeepsUp
<1>3. FieldFrame = coreFrame - 4 + fieldUpdateSteps
  BY <1>1 DEF FieldFrame
<1>4. CASE fieldUpdateSteps = 0
  <2>1. /\ pc' = "readField" /\ seen' = contents[DownField]
        /\ fieldUpdateSteps' = fieldUpdateSteps /\ gpuQueue' = gpuQueue
    BY <1>4 DEF BeginFrame, CountdownOver
  <2>2. FieldFrame' = FieldFrame
    BY <1>1, <1>3, <1>4, <2>1 DEF FieldFrame
  <2>3. ASSUME NEW i \in 1 .. Len(gpuQueue)
        PROVE  gpuQueue[i].target \notin {ColorField, DownField}
    <3>1. gpuQueue[i].frame >= coreFrame + 1 - MaxBehind
      BY DEF BeginFrame
    <3>2. gpuQueue[i].frame \in Int
      <4>1. gpuQueue[i] \in Pass
        BY <1>1
      <4> QED BY <4>1 DEF Pass
    <3>3. gpuQueue[i].target = ColorField => gpuQueue[i].frame = coreFrame - 4
      BY <1>1, <1>3, <1>4 DEF FieldInv, FieldPassesInOrder
    <3>4. gpuQueue[i].target = DownField => gpuQueue[i].frame = coreFrame - 3
      BY <1>1, <1>3, <1>4 DEF FieldInv, FieldPassesInOrder
    <3> QED BY <1>1, <1>2, <3>1, <3>2, <3>3, <3>4
  <2>4. FieldPassesInOrder'
    BY <2>1, <2>3 DEF FieldPassesInOrder
  <2>5. contents[ColorField] = {FieldFrame} /\ contents[DownField] = {FieldFrame}
    BY <1>4, <2>3 DEF FieldInv, FieldComplete, Rendered
  <2>6. FieldComplete'
    BY <1>1, <1>4, <2>1, <2>2, <2>5 DEF FieldComplete
  <2> QED BY <2>4, <2>6 DEF FieldInv
<1>5. CASE fieldUpdateSteps # 0
  <2>1. /\ pc' = "ball" /\ fieldUpdateSteps' = fieldUpdateSteps - 1
        /\ gpuQueue' = gpuQueue \o FieldPasses
    BY <1>5 DEF BeginFrame, CountdownOver
  <2>2. FieldFrame' = FieldFrame
    BY <1>1, <1>3, <2>1 DEF FieldFrame
  <2>3. CASE fieldUpdateSteps = 5
    <3> DEFINE p == [source |-> INPUT, target |-> ColorField, frame |-> coreFrame + 1]
    <3>1. p \in Pass /\ gpuQueue' = gpuQueue \o <<p>>
      <4>1. p \in Pass /\ FieldPasses = <<p>>
        BY <1>1, <2>3, FieldPassesAre
      <4> HIDE DEF p
      <4> QED BY <2>1, <4>1
    <3>2. /\ Len(gpuQueue') = Len(gpuQueue) + 1 /\ gpuQueue'[Len(gpuQueue) + 1] = p
          /\ \A i \in 1 .. Len(gpuQueue) : gpuQueue'[i] = gpuQueue[i]
      BY <1>1, <3>1, QueueAppend
    <3>3. \A i \in 1 .. Len(gpuQueue) : gpuQueue[i].target \notin {ColorField, DownField}
      BY <2>3 DEF FieldInv, FieldPassesInOrder
    <3>4. FieldPassesInOrder'
      <4> SUFFICES ASSUME NEW i \in 1 .. Len(gpuQueue')
                   PROVE  /\ gpuQueue'[i].target # DownField
                          /\ gpuQueue'[i].target = ColorField =>
                               gpuQueue'[i].source = INPUT /\ gpuQueue'[i].frame = FieldFrame
        BY <2>1, <2>2, <2>3 DEF FieldPassesInOrder
      <4>1. CASE i \in 1 .. Len(gpuQueue)
        BY <3>2, <3>3, <4>1
      <4>2. CASE i = Len(gpuQueue) + 1
        BY <1>1, <1>3, <2>3, <3>2, <4>2, TexturesDiffer
      <4> QED BY <1>2, <3>2, <4>1, <4>2
    <3>5. ~Rendered(gpuQueue', ColorField)
      <4>1. Len(gpuQueue) + 1 \in 1 .. Len(gpuQueue')
        BY <1>2, <3>2
      <4> QED BY <3>2, <4>1 DEF Rendered
    <3>6. FieldComplete'
      BY <2>1, <2>3, <3>5 DEF FieldComplete
    <3> QED BY <3>4, <3>6 DEF FieldInv
  <2>4. CASE fieldUpdateSteps = 4
    <3> DEFINE p == [source |-> ColorField, target |-> DownField, frame |-> coreFrame + 1]
    <3>1. p \in Pass /\ gpuQueue' = gpuQueue \o <<p>>
      <4>1. p \in Pass /\ FieldPasses = <<p>>
        BY <1>1, <2>4, FieldPassesAre
      <4> HIDE DEF p
      <4> QED BY <2>1, <4>1
    <3>2. /\ Len(gpuQueue') = Len(gpuQueue) + 1 /\ gpuQueue'[Len(gpuQueue) + 1] = p
          /\ \A i \in 1 .. Len(gpuQueue) : gpuQueue'[i] = gpuQueue[i]
      BY <1>1, <3>1, QueueAppend
    <3>3. \A i \in 1 .. Len(gpuQueue) : gpuQueue[i].target # DownField
      BY <2>4 DEF FieldInv, FieldPassesInOrder
    <3>4. FieldPassesInOrder'
      <4> SUFFICES ASSUME NEW i \in 1 .. Len(gpuQueue')
                   PROVE  /\ gpuQueue'[i].target = ColorField =>
                               gpuQueue'[i].source = INPUT /\ gpuQueue'[i].frame = FieldFrame
                          /\ gpuQueue'[i].target = DownField =>
                               /\ gpuQueue'[i].source = ColorField
                               /\ gpuQueue'[i].frame = FieldFrame + 1
                               /\ \A j \in i .. Len(gpuQueue') : gpuQueue'[j].target # ColorField
        BY <2>1, <2>2, <2>4 DEF FieldPassesInOrder
      <4>1. CASE i \in 1 .. Len(gpuQueue)
        BY <3>2, <3>3, <4>1 DEF FieldInv, FieldPassesInOrder
      <4>2. CASE i = Len(gpuQueue) + 1
        <5>1. gpuQueue'[i] = p /\ \A j \in i .. Len(gpuQueue') : j = i
          BY <1>2, <3>2, <4>2
        <5> QED BY <1>1, <1>3, <2>4, <5>1, TexturesDiffer
      <4> QED BY <1>2, <3>2, <4>1, <4>2
    <3>5. ~Rendered(gpuQueue', DownField)
      <4>1. Len(gpuQueue) + 1 \in 1 .. Len(gpuQueue')
        BY <1>2, <3>2
      <4> QED BY <3>2, <4>1 DEF Rendered
    <3>6. Rendered(gpuQueue', ColorField) => Rendered(gpuQueue, ColorField)
      <4>1. \A i \in 1 .. Len(gpuQueue) : i \in 1 .. Len(gpuQueue')
        BY <1>2, <3>2
      <4> QED BY <3>2, <4>1 DEF Rendered
    <3>7. FieldComplete'
      BY <1>1, <2>1, <2>2, <2>4, <3>5, <3>6 DEF FieldInv, FieldComplete
    <3> QED BY <3>4, <3>7 DEF FieldInv
  <2>5. CASE fieldUpdateSteps \notin {4, 5}
    <3>1. gpuQueue' = gpuQueue
      <4>1. FieldPasses = <<>>
        BY <1>1, <2>5, FieldPassesAre
      <4> QED BY <1>1, <2>1, <4>1
    <3>2. FieldPassesInOrder'
      BY <1>1, <2>1, <2>2, <3>1 DEF FieldInv, FieldPassesInOrder
    <3>3. FieldComplete'
      BY <1>1, <2>1, <2>2, <2>5, <3>1 DEF FieldInv, FieldComplete
    <3> QED BY <3>2, <3>3 DEF FieldInv
  <2> QED BY <2>3, <2>4, <2>5
<1> QED
  BY <1>4, <1>5

\* The ball passes and the restart of the countdown leave the field alone.
LEMMA FieldSentOrBall ==
  ASSUME PipelineType, FieldInv, FieldSent \/ BallPasses \/ BallSent
  PROVE  FieldInv'
PROOF
<1>1. gpuQueue \in Seq(Pass) /\ Len(gpuQueue) \in Nat /\ fieldUpdateSteps \in Nat
  BY DEF PipelineType
<1>2. CASE FieldSent
  <2>1. fieldUpdateSteps' >= 5 /\ fieldUpdateSteps' \in Nat
    BY <1>2, PipelineAssumption DEF FieldSent, Restart
  <2>2. gpuQueue' = gpuQueue /\ pc' = "ball" /\ pc = "readField"
    BY <1>2 DEF FieldSent, gpuVars
  <2>3. FieldPassesInOrder'
    BY <2>2 DEF FieldInv, FieldPassesInOrder
  <2>4. FieldComplete'
    BY <2>1, <2>2 DEF FieldComplete
  <2> QED BY <2>3, <2>4 DEF FieldInv
<1>3. CASE BallPasses
  <2>1. /\ pc = "ball" /\ pc' \in {"readBall", "outside"} /\ contents' = contents
        /\ fieldUpdateSteps' = fieldUpdateSteps /\ coreFrame' = coreFrame
    BY <1>3 DEF BallPasses
  <2>2. FieldFrame' = FieldFrame
    BY <2>1 DEF FieldFrame
  <2>3. PICK p \in Pass, r \in Pass : p.target = Color(0) /\ r.target = Down(0)
                                      /\ gpuQueue' = gpuQueue \o <<p, r>>
    BY <1>3, BallPassesAre
  <2>4. /\ Len(gpuQueue') = Len(gpuQueue) + 2
        /\ gpuQueue'[Len(gpuQueue) + 1] = p /\ gpuQueue'[Len(gpuQueue) + 2] = r
        /\ \A i \in 1 .. Len(gpuQueue) : gpuQueue'[i] = gpuQueue[i]
    BY <1>1, <2>3, QueueAppendTwo
  <2>5. \A i \in 1 .. Len(gpuQueue') :
          \/ i \in 1 .. Len(gpuQueue) /\ gpuQueue'[i] = gpuQueue[i]
          \/ gpuQueue'[i].target \notin {ColorField, DownField}
    <3> SUFFICES ASSUME NEW i \in 1 .. Len(gpuQueue')
                 PROVE  \/ i \in 1 .. Len(gpuQueue) /\ gpuQueue'[i] = gpuQueue[i]
                        \/ gpuQueue'[i].target \notin {ColorField, DownField}
      OBVIOUS
    <3>1. i \in 1 .. Len(gpuQueue) \/ i = Len(gpuQueue) + 1 \/ i = Len(gpuQueue) + 2
      BY <1>1, <2>4
    <3> QED BY <2>3, <2>4, <3>1, TexturesDiffer
  <2>6. FieldPassesInOrder'
    <3> SUFFICES ASSUME NEW i \in 1 .. Len(gpuQueue')
                 PROVE  /\ gpuQueue'[i].target = ColorField =>
                             /\ fieldUpdateSteps <= 4
                             /\ gpuQueue'[i].source = INPUT /\ gpuQueue'[i].frame = FieldFrame
                        /\ gpuQueue'[i].target = DownField =>
                             /\ fieldUpdateSteps <= 3
                             /\ gpuQueue'[i].source = ColorField
                             /\ gpuQueue'[i].frame = FieldFrame + 1
                             /\ \A j \in i .. Len(gpuQueue') : gpuQueue'[j].target # ColorField
      BY <2>1, <2>2 DEF FieldPassesInOrder
    <3>1. \A j \in i .. Len(gpuQueue') : j \in 1 .. Len(gpuQueue')
      BY <1>1, <2>4
    <3>2. CASE gpuQueue'[i].target \notin {ColorField, DownField}
      BY <3>2
    <3>3. CASE i \in 1 .. Len(gpuQueue) /\ gpuQueue'[i] = gpuQueue[i]
      <4>1. ASSUME gpuQueue[i].target = DownField, NEW j \in i .. Len(gpuQueue')
            PROVE  gpuQueue'[j].target # ColorField
        <5>1. \A k \in i .. Len(gpuQueue) : gpuQueue[k].target # ColorField
          BY <3>3, <4>1 DEF FieldInv, FieldPassesInOrder
        <5>2. \/ j \in 1 .. Len(gpuQueue) /\ gpuQueue'[j] = gpuQueue[j]
              \/ gpuQueue'[j].target \notin {ColorField, DownField}
          BY <2>5, <3>1
        <5>3. j \in 1 .. Len(gpuQueue) => j \in i .. Len(gpuQueue)
          BY <1>1, <3>3
        <5> QED BY <5>1, <5>2, <5>3
      <4> QED BY <3>3, <4>1 DEF FieldInv, FieldPassesInOrder
    <3> QED BY <2>5, <3>2, <3>3
  <2>7. \A t : Rendered(gpuQueue', t) => Rendered(gpuQueue, t)
    <3>1. \A i \in 1 .. Len(gpuQueue) : i \in 1 .. Len(gpuQueue')
      BY <1>1, <2>4
    <3> QED BY <2>4, <3>1 DEF Rendered
  <2>8. FieldComplete'
    BY <2>1, <2>2, <2>7 DEF FieldInv, FieldComplete
  <2> QED BY <2>6, <2>8 DEF FieldInv
<1>4. CASE BallSent
  <2>1. /\ pc = "readBall" /\ pc' = "outside" /\ contents' = contents /\ gpuQueue' = gpuQueue
        /\ fieldUpdateSteps' = fieldUpdateSteps /\ coreFrame' = coreFrame
    BY <1>4 DEF BallSent, gpuVars
  <2>2. FieldFrame' = FieldFrame
    BY <2>1 DEF FieldFrame
  <2> QED BY <2>1, <2>2 DEF FieldInv, FieldPassesInOrder, FieldComplete, Rendered
<1> QED
  BY <1>2, <1>3, <1>4

-----------------------------------------------------------------------------
(* The ball textures                                                        *)

LEMMA BallPassSource ==
  ASSUME NEW p, NEW n, BallPass(p, n)
  PROVE  /\ p.target = Color(0) => PassContents(p) = {p.frame}
         /\ p.target = Down(0) => PassContents(p) = contents[Color(0)]
         /\ p.target \in {Color(0), Down(0)}
BY TexturesDiffer DEF BallPass, PassContents

\* A pass changes a texture to what it shows of its source, at first in part.
LEMMA BallGpu ==
  ASSUME PipelineType, BallInv, GPU
  PROVE  BallInv'
PROOF
<1>1. /\ gpuQueue \in Seq(Pass) /\ contents \in [Texture -> SUBSET Int] /\ gpuQueue # <<>>
      /\ coreFrame \in Int
  BY DEF GPU, GpuStart, GpuFinish, PipelineType
<1> DEFINE h == gpuQueue[1]
<1>2. /\ Head(gpuQueue) = h /\ h \in Pass /\ h.target \in Texture /\ h.frame \in Int
      /\ Len(gpuQueue) \in Nat /\ 1 \in 1 .. Len(gpuQueue)
  <2>1. Head(gpuQueue) = h /\ h \in Pass /\ Len(gpuQueue) \in Nat /\ Len(gpuQueue) >= 1
    BY <1>1, QueueTail
  <2> QED BY <2>1 DEF Pass
<1>3. LastBall' = LastBall /\ pc' = pc /\ coreFrame' = coreFrame /\ LastBall \in Int
      /\ LastBall <= coreFrame /\ down.read = 0
  BY <1>1 DEF GPU, GpuStart, GpuFinish, glVars, LastBall, PipelineType
<1>4. \A t \in Texture : t # h.target => contents'[t] = contents[t]
  <2>1. \E s : contents' = [contents EXCEPT ![h.target] = s]
    BY <1>2 DEF GPU, GpuStart, GpuFinish
  <2> QED BY <1>1, <2>1
<1>5. \A i \in 1 .. Len(gpuQueue) : gpuQueue[i].frame \in Int
  <2> SUFFICES ASSUME NEW i \in 1 .. Len(gpuQueue) PROVE gpuQueue[i].frame \in Int
    OBVIOUS
  <2>1. gpuQueue[i] \in Pass
    BY <1>1
  <2> QED BY <2>1 DEF Pass
<1>6. \A t \in {Color(0), Down(0)} : contents[t] \in SUBSET Int
  BY <1>1, TexturesDiffer
\* What the pass shows is in the past and leaves nothing out.
<1>7. h.target \in {Color(0), Down(0)} =>
        /\ BallPass(h, LastBall) /\ h.frame <= LastBall
        /\ \A e \in PassContents(h) : e \in Int /\ h.frame <= e /\ e <= LastBall
        /\ h.frame < LastBall =>
             \E j \in 1 .. Len(gpuQueue) : j > 1 /\ gpuQueue[j].target = h.target
                                             /\ gpuQueue[j].frame = h.frame + 1
  <2> SUFFICES ASSUME h.target \in {Color(0), Down(0)}
               PROVE  /\ BallPass(h, LastBall) /\ h.frame <= LastBall
                      /\ \A e \in PassContents(h) : e \in Int /\ h.frame <= e /\ e <= LastBall
                      /\ h.frame < LastBall =>
                           \E j \in 1 .. Len(gpuQueue) : j > 1 /\ gpuQueue[j].target = h.target
                                                           /\ gpuQueue[j].frame = h.frame + 1
    OBVIOUS
  <2>1. /\ BallPass(h, LastBall)
        /\ h.frame < LastBall =>
             \E j \in 1 .. Len(gpuQueue) : j > 1 /\ gpuQueue[j].target = h.target
                                             /\ gpuQueue[j].frame = h.frame + 1
        /\ h.target = Down(0) =>
             \A j \in 1 .. Len(gpuQueue) :
               gpuQueue[j].target = Color(0) => gpuQueue[j].frame > h.frame
    BY <1>2, TexturesDiffer DEF BallInv, BallPassesInOrder
  <2>2. h.frame <= LastBall /\ h.frame > FirstFrame
    BY <2>1 DEF BallPass
  <2>3. CASE h.target = Color(0)
    BY <1>2, <1>3, <2>1, <2>2, <2>3, BallPassSource
  <2>4. CASE h.target = Down(0)
    <3> SUFFICES ASSUME NEW e \in contents[Color(0)]
                 PROVE  e \in Int /\ h.frame <= e /\ e <= LastBall
      BY <2>1, <2>2, <2>4, BallPassSource
    <3>1. e \in Int /\ e <= LastBall
      BY <1>6 DEF BallInv, UpToDate
    <3>2. CASE e = LastBall
      BY <2>2, <3>1, <3>2
    <3>3. CASE LastBall = FirstFrame
      BY <1>2, <1>3, <2>2, <3>3 DEF FirstFrame
    <3>4. CASE \E i \in 1 .. Len(gpuQueue) :
                 /\ gpuQueue[i].target = Color(0)
                 /\ gpuQueue[i].frame = FirstFrame + 1 \/ gpuQueue[i].frame <= e + 1
      <4>1. PICK i \in 1 .. Len(gpuQueue) :
              /\ gpuQueue[i].target = Color(0)
              /\ gpuQueue[i].frame = FirstFrame + 1 \/ gpuQueue[i].frame <= e + 1
        BY <3>4
      <4>2. gpuQueue[i].frame > h.frame /\ gpuQueue[i].frame \in Int
        BY <1>5, <2>1, <2>4, <4>1
      <4> QED BY <1>2, <2>2, <3>1, <4>1, <4>2 DEF FirstFrame
    <3> QED BY <3>2, <3>3, <3>4 DEF BallInv, UpToDate
  <2> QED BY <2>1, <2>2, <2>3, <2>4
<1> HIDE DEF h
<1>8. ASSUME GpuStart
      PROVE  BallPassesInOrder' /\ UpToDate(Color(0))' /\ UpToDate(Down(0))'
  <2>1. gpuQueue' = gpuQueue /\ contents'[h.target] = contents[h.target] \union PassContents(h)
    BY <1>1, <1>2, <1>8 DEF GpuStart
  <2>2. BallPassesInOrder'
    BY <1>3, <2>1 DEF BallInv, BallPassesInOrder, BallPass
  <2>3. ASSUME NEW t \in {Color(0), Down(0)} PROVE UpToDate(t)'
    <3>1. UpToDate(t) /\ t \in Texture
      BY TexturesDiffer DEF BallInv
    <3>2. CASE t # h.target
      BY <1>3, <1>4, <2>1, <3>1, <3>2 DEF UpToDate
    <3>3. CASE t = h.target
      <4> SUFFICES ASSUME NEW e \in contents'[t]
                   PROVE  /\ e <= LastBall
                          /\ \/ e = LastBall \/ LastBall = FirstFrame
                             \/ \E i \in 1 .. Len(gpuQueue) :
                                  /\ gpuQueue[i].target = t
                                  /\ \/ gpuQueue[i].frame = FirstFrame + 1
                                     \/ gpuQueue[i].frame <= e + 1
        BY <1>3, <2>1 DEF UpToDate
      <4>1. CASE e \in contents[t]
        BY <3>1, <4>1 DEF UpToDate
      <4>2. CASE e \in PassContents(h)
        <5>1. h.frame <= e + 1 /\ e <= LastBall
          BY <1>2, <1>7, <3>3, <4>2
        <5> QED BY <1>2, <3>3, <5>1 DEF h
      <4> QED BY <2>1, <3>3, <4>1, <4>2
    <3> QED BY <3>2, <3>3
  <2> QED BY <2>1, <2>2, <2>3
<1>9. ASSUME GpuFinish
      PROVE  /\ BallPassesInOrder' /\ UpToDate(Color(0))' /\ UpToDate(Down(0))'
             /\ \A i \in 1 .. Len(gpuQueue') :
                  gpuQueue'[i] = gpuQueue[i + 1] /\ i + 1 \in 1 .. Len(gpuQueue)
             /\ contents'[h.target] = PassContents(h)
  <2>1. gpuQueue' = Tail(gpuQueue) /\ contents'[h.target] = PassContents(h)
    BY <1>1, <1>2, <1>9 DEF GpuFinish
  <2>2. /\ Len(gpuQueue') = Len(gpuQueue) - 1
        /\ \A i \in 1 .. Len(gpuQueue') : gpuQueue'[i] = gpuQueue[i + 1] /\ i + 1 \in 1 .. Len(gpuQueue)
        /\ \A i \in 1 .. Len(gpuQueue) : i > 1 => i - 1 \in 1 .. Len(gpuQueue')
                                                   /\ gpuQueue'[i - 1] = gpuQueue[i]
    BY <1>1, <2>1, QueueTail
  <2>3. BallPassesInOrder'
    <3> SUFFICES ASSUME NEW i \in 1 .. Len(gpuQueue'),
                        gpuQueue'[i].target \notin {ColorField, DownField}
                 PROVE  /\ BallPass(gpuQueue'[i], LastBall)
                        /\ gpuQueue'[i].frame < LastBall =>
                             \E j \in 1 .. Len(gpuQueue') :
                               /\ j > i /\ gpuQueue'[j].target = gpuQueue'[i].target
                               /\ gpuQueue'[j].frame = gpuQueue'[i].frame + 1
                        /\ gpuQueue'[i].target = Down(0) =>
                             \A j \in i .. Len(gpuQueue') :
                               gpuQueue'[j].target = Color(0) => gpuQueue'[j].frame > gpuQueue'[i].frame
      BY <1>3 DEF BallPassesInOrder, BallPass
    <3>1. gpuQueue'[i] = gpuQueue[i + 1] /\ i + 1 \in 1 .. Len(gpuQueue)
      BY <2>2
    <3>2. /\ BallPass(gpuQueue[i + 1], LastBall)
          /\ gpuQueue[i + 1].frame < LastBall =>
               \E j \in 1 .. Len(gpuQueue) : j > i + 1 /\ gpuQueue[j].target = gpuQueue[i + 1].target
                                               /\ gpuQueue[j].frame = gpuQueue[i + 1].frame + 1
          /\ gpuQueue[i + 1].target = Down(0) =>
               \A j \in i + 1 .. Len(gpuQueue) :
                 gpuQueue[j].target = Color(0) => gpuQueue[j].frame > gpuQueue[i + 1].frame
      BY <3>1 DEF BallInv, BallPassesInOrder
    <3>3. ASSUME gpuQueue'[i].frame < LastBall
          PROVE  \E j \in 1 .. Len(gpuQueue') :
                   /\ j > i /\ gpuQueue'[j].target = gpuQueue'[i].target
                   /\ gpuQueue'[j].frame = gpuQueue'[i].frame + 1
      <4>1. PICK j \in 1 .. Len(gpuQueue) : j > i + 1 /\ gpuQueue[j].target = gpuQueue[i + 1].target
                                              /\ gpuQueue[j].frame = gpuQueue[i + 1].frame + 1
        BY <3>1, <3>2, <3>3
      <4>2. j - 1 \in 1 .. Len(gpuQueue') /\ gpuQueue'[j - 1] = gpuQueue[j] /\ j - 1 > i
        BY <2>2, <4>1
      <4> QED BY <3>1, <4>1, <4>2
    <3>4. \A j \in i .. Len(gpuQueue') : /\ j \in 1 .. Len(gpuQueue')
                                         /\ j + 1 \in i + 1 .. Len(gpuQueue)
      BY <1>2, <2>2
    <3>5. gpuQueue'[i].target = Down(0) =>
            \A j \in i .. Len(gpuQueue') :
              gpuQueue'[j].target = Color(0) => gpuQueue'[j].frame > gpuQueue'[i].frame
      BY <2>2, <3>1, <3>2, <3>4
    <3> QED BY <3>1, <3>2, <3>3, <3>5
  <2>4. ASSUME NEW t \in {Color(0), Down(0)} PROVE UpToDate(t)'
    <3> SUFFICES ASSUME NEW e \in contents'[t]
                 PROVE  /\ e <= LastBall
                        /\ \/ e = LastBall \/ LastBall = FirstFrame
                           \/ \E i \in 1 .. Len(gpuQueue') :
                                /\ gpuQueue'[i].target = t
                                /\ \/ gpuQueue'[i].frame = FirstFrame + 1
                                   \/ gpuQueue'[i].frame <= e + 1
      BY <1>3 DEF UpToDate
    <3>1. CASE t # h.target
      <4>1. UpToDate(t) /\ e \in contents[t]
        BY <1>4, <3>1, TexturesDiffer DEF BallInv
      <4>2. ASSUME NEW i \in 1 .. Len(gpuQueue), gpuQueue[i].target = t
            PROVE  i - 1 \in 1 .. Len(gpuQueue') /\ gpuQueue'[i - 1] = gpuQueue[i]
        <5>1. i # 1
          BY <3>1, <4>2 DEF h
        <5> QED BY <2>2, <5>1
      <4> QED BY <4>1, <4>2 DEF UpToDate
    <3>2. CASE t = h.target
      <4>1. e \in Int /\ h.frame <= e /\ e <= LastBall
        BY <1>7, <2>1, <3>2
      <4>2. CASE h.frame < LastBall
        <5>1. PICK j \in 1 .. Len(gpuQueue) : j > 1 /\ gpuQueue[j].target = h.target
                                                /\ gpuQueue[j].frame = h.frame + 1
          BY <1>7, <3>2, <4>2
        <5>2. j - 1 \in 1 .. Len(gpuQueue') /\ gpuQueue'[j - 1] = gpuQueue[j]
          BY <2>2, <5>1
        <5>3. gpuQueue'[j - 1].frame <= e + 1
          BY <1>2, <4>1, <5>1, <5>2
        <5> QED BY <3>2, <4>1, <5>1, <5>2, <5>3
      <4>3. CASE ~(h.frame < LastBall)
        BY <1>2, <1>3, <4>1, <4>3
      <4> QED BY <4>2, <4>3
    <3> QED BY <3>1, <3>2
  <2> QED BY <2>1, <2>2, <2>3, <2>4
<1>10. BallPassesInOrder' /\ UpToDate(Color(0))' /\ UpToDate(Down(0))'
  BY <1>8, <1>9 DEF GPU
<1>11. BallFramesRecent'
  <2> SUFFICES ASSUME pc # "outside"
               PROVE  /\ \A i \in 1 .. Len(gpuQueue') : gpuQueue'[i].frame >= coreFrame - MaxBehind
                      /\ coreFrame >= 0 => /\ Recent(contents'[Color(0)], coreFrame)
                                             /\ Recent(contents'[Down(0)], coreFrame)
                      /\ pc = "readBall" => coreFrame >= 0 /\ Recent(seen', coreFrame)
    BY <1>3 DEF BallFramesRecent, Recent
  <2>1. /\ \A i \in 1 .. Len(gpuQueue) : gpuQueue[i].frame >= coreFrame - MaxBehind
        /\ coreFrame >= 0 => /\ Recent(contents[Color(0)], coreFrame)
                               /\ Recent(contents[Down(0)], coreFrame)
        /\ pc = "readBall" => coreFrame >= 0 /\ Recent(seen, coreFrame)
    BY DEF BallInv, BallFramesRecent
  <2>2. \A i \in 1 .. Len(gpuQueue') : gpuQueue'[i].frame >= coreFrame - MaxBehind
    <3>1. CASE GpuStart
      BY <2>1, <3>1 DEF GpuStart
    <3>2. CASE GpuFinish
      BY <1>9, <2>1, <3>2
    <3> QED BY <3>1, <3>2 DEF GPU
  <2>3. ASSUME coreFrame >= 0, NEW t \in {Color(0), Down(0)}
        PROVE  Recent(contents'[t], coreFrame)
    <3>1. Recent(contents[t], coreFrame)
      BY <2>1, <2>3
    <3>2. CASE t # h.target
      BY <1>4, <3>1, <3>2, TexturesDiffer
    <3>3. CASE t = h.target
      <4>1. contents'[t] \subseteq contents[t] \union PassContents(h)
        <5>1. CASE GpuStart
          BY <1>1, <1>2, <3>3, <5>1 DEF GpuStart
        <5>2. CASE GpuFinish
          BY <1>9, <3>3, <5>2
        <5> QED BY <5>1, <5>2 DEF GPU
      <4>2. h.frame >= coreFrame - MaxBehind
        BY <1>2, <2>1 DEF h
      <4>3. Recent(PassContents(h), coreFrame)
        BY <1>1, <1>2, <1>3, <1>7, <3>3, <4>2, PipelineAssumption DEF Recent
      <4> QED BY <3>1, <4>1, <4>3 DEF Recent
    <3> QED BY <3>2, <3>3
  <2>4. ASSUME pc = "readBall" PROVE coreFrame >= 0 /\ Recent(seen', coreFrame)
    <3>1. coreFrame >= 0 /\ Recent(seen, coreFrame) /\ ReadTexture = {Down(0)}
      BY <1>3, <2>1, <2>4 DEF ReadTexture
    <3>2. seen' = seen \/ (h.target = Down(0) /\ seen' = seen \union contents'[h.target])
      BY <1>2, <3>1 DEF GPU, GpuStart, GpuFinish, Watch
    <3>3. Recent(contents'[Down(0)], coreFrame)
      BY <2>3, <3>1
    <3> QED BY <3>1, <3>2, <3>3 DEF Recent
  <2> QED BY <2>2, <2>3, <2>4
<1> QED
  BY <1>3, <1>10, <1>11 DEF BallInv, FirstFrame

\* The passes of the field neither hold up nor disturb those of the ball.
LEMMA BallBegin ==
  ASSUME PipelineType, BallInv, BeginFrame, GpuKeepsUp
  PROVE  BallInv'
PROOF
<1>1. /\ gpuQueue \in Seq(Pass) /\ Len(gpuQueue) \in Nat /\ contents \in [Texture -> SUBSET Int]
      /\ coreFrame \in Int /\ coreFrame >= FirstFrame /\ pc = "outside"
      /\ coreFrame' = coreFrame + 1 /\ contents' = contents /\ pc' \in {"ball", "readField"}
  BY DEF BeginFrame, PipelineType
<1>2. LastBall = coreFrame /\ LastBall' = coreFrame
  BY <1>1 DEF LastBall
<1>3. /\ Len(gpuQueue') \in Nat /\ Len(gpuQueue) <= Len(gpuQueue')
      /\ \A i \in 1 .. Len(gpuQueue) : gpuQueue'[i] = gpuQueue[i]
      /\ \A i \in 1 .. Len(gpuQueue') : i > Len(gpuQueue) =>
           gpuQueue'[i].target \in {ColorField, DownField} /\ gpuQueue'[i].frame = coreFrame + 1
  <2>1. CASE gpuQueue' = gpuQueue
    BY <1>1, <2>1
  <2>2. CASE \E p \in Pass : /\ gpuQueue' = gpuQueue \o <<p>>
                             /\ p.target \in {ColorField, DownField} /\ p.frame = coreFrame + 1
    <3>1. PICK p \in Pass : /\ gpuQueue' = gpuQueue \o <<p>>
                            /\ p.target \in {ColorField, DownField} /\ p.frame = coreFrame + 1
      BY <2>2
    <3>2. /\ Len(gpuQueue') = Len(gpuQueue) + 1 /\ gpuQueue'[Len(gpuQueue) + 1] = p
          /\ \A i \in 1 .. Len(gpuQueue) : gpuQueue'[i] = gpuQueue[i]
      BY <1>1, <3>1, QueueAppend
    <3>3. \A i \in 1 .. Len(gpuQueue') : i > Len(gpuQueue) => i = Len(gpuQueue) + 1
      BY <1>1, <3>2
    <3> QED BY <1>1, <3>1, <3>2, <3>3
  <2>3. CASE gpuQueue' = gpuQueue \o FieldPasses
    <3>1. CASE fieldUpdateSteps = 5
      <4> DEFINE p == [source |-> INPUT, target |-> ColorField, frame |-> coreFrame + 1]
      <4>1. p \in Pass /\ FieldPasses = <<p>> /\ p.target = ColorField /\ p.frame = coreFrame + 1
        BY <1>1, <3>1, FieldPassesAre
      <4> HIDE DEF p
      <4> QED BY <2>2, <2>3, <4>1
    <3>2. CASE fieldUpdateSteps = 4
      <4> DEFINE p == [source |-> ColorField, target |-> DownField, frame |-> coreFrame + 1]
      <4>1. p \in Pass /\ FieldPasses = <<p>> /\ p.target = DownField /\ p.frame = coreFrame + 1
        BY <1>1, <3>2, FieldPassesAre
      <4> HIDE DEF p
      <4> QED BY <2>2, <2>3, <4>1
    <3>3. CASE fieldUpdateSteps \notin {4, 5}
      <4>1. FieldPasses = <<>>
        BY <1>1, <3>3, FieldPassesAre
      <4> QED BY <1>1, <2>1, <2>3, <4>1
    <3> QED BY <3>1, <3>2, <3>3
  <2> QED BY <2>1, <2>3 DEF BeginFrame
<1>4. \A i \in 1 .. Len(gpuQueue) : i \in 1 .. Len(gpuQueue')
  BY <1>1, <1>3
<1>5. \A i \in 1 .. Len(gpuQueue) : gpuQueue[i].frame \in Int
  <2> SUFFICES ASSUME NEW i \in 1 .. Len(gpuQueue) PROVE gpuQueue[i].frame \in Int
    OBVIOUS
  <2>1. gpuQueue[i] \in Pass
    BY <1>1
  <2> QED BY <2>1 DEF Pass
<1>6. BallPassesInOrder'
  <2> SUFFICES ASSUME NEW i \in 1 .. Len(gpuQueue'),
                      gpuQueue'[i].target \notin {ColorField, DownField}
               PROVE  /\ BallPass(gpuQueue'[i], LastBall)
                      /\ gpuQueue'[i].frame < LastBall =>
                           \E j \in 1 .. Len(gpuQueue') :
                             /\ j > i /\ gpuQueue'[j].target = gpuQueue'[i].target
                             /\ gpuQueue'[j].frame = gpuQueue'[i].frame + 1
                      /\ gpuQueue'[i].target = Down(0) =>
                           \A j \in i .. Len(gpuQueue') :
                             gpuQueue'[j].target = Color(0) => gpuQueue'[j].frame > gpuQueue'[i].frame
    BY <1>2 DEF BallPassesInOrder, BallPass
  <2>1. i \in 1 .. Len(gpuQueue) /\ gpuQueue'[i] = gpuQueue[i]
    BY <1>1, <1>3
  <2>2. /\ BallPass(gpuQueue[i], LastBall)
        /\ gpuQueue[i].frame < LastBall =>
             \E j \in 1 .. Len(gpuQueue) : j > i /\ gpuQueue[j].target = gpuQueue[i].target
                                             /\ gpuQueue[j].frame = gpuQueue[i].frame + 1
        /\ gpuQueue[i].target = Down(0) =>
             \A j \in i .. Len(gpuQueue) :
               gpuQueue[j].target = Color(0) => gpuQueue[j].frame > gpuQueue[i].frame
    BY <2>1 DEF BallInv, BallPassesInOrder
  <2>3. ASSUME NEW j \in i .. Len(gpuQueue'), gpuQueue'[j].target = Color(0)
        PROVE  j \in i .. Len(gpuQueue) /\ gpuQueue'[j] = gpuQueue[j]
    <3>1. j \in 1 .. Len(gpuQueue') /\ j \in Int
      BY <1>3, <2>1
    <3>2. ~(j > Len(gpuQueue))
      BY <1>3, <2>3, <3>1, TexturesDiffer
    <3> QED BY <1>1, <1>3, <2>1, <3>1, <3>2
  <2> QED BY <1>3, <1>4, <2>1, <2>2, <2>3
<1>7. UpToDate(Color(0))' /\ UpToDate(Down(0))'
  BY <1>1, <1>2, <1>3, <1>4 DEF BallInv, UpToDate
<1>8. BallFramesRecent'
  <2>1. \A i \in 1 .. Len(gpuQueue') : gpuQueue'[i].frame >= coreFrame + 1 - MaxBehind
    <3> SUFFICES ASSUME NEW i \in 1 .. Len(gpuQueue')
                 PROVE  gpuQueue'[i].frame >= coreFrame + 1 - MaxBehind
      OBVIOUS
    <3>1. CASE i > Len(gpuQueue)
      BY <1>1, <1>3, <3>1, PipelineAssumption
    <3>2. CASE i \in 1 .. Len(gpuQueue)
      BY <1>3, <3>2 DEF BeginFrame
    <3> QED BY <1>1, <1>3, <3>1, <3>2
  <2>2. ASSUME coreFrame + 1 >= 0, NEW t \in {Color(0), Down(0)}, NEW e \in contents[t]
        PROVE  coreFrame - MaxBehind <= e /\ e <= coreFrame + 1
    <3>1. UpToDate(t) /\ e \in Int
      BY <1>1, TexturesDiffer DEF BallInv
    <3>2. e <= coreFrame
      BY <1>2, <3>1 DEF UpToDate
    <3>3. MaxBehind \in Nat /\ MaxBehind <= 3
      BY PipelineAssumption DEF GpuKeepsUp
    <3>4. CASE e = LastBall
      BY <1>1, <1>2, <3>1, <3>3, <3>4
    <3>5. CASE LastBall = FirstFrame
      BY <1>1, <1>2, <2>2, <3>5 DEF FirstFrame
    <3>6. CASE \E i \in 1 .. Len(gpuQueue) :
                 gpuQueue[i].frame = FirstFrame + 1 \/ gpuQueue[i].frame <= e + 1
      <4>1. PICK i \in 1 .. Len(gpuQueue) :
              gpuQueue[i].frame = FirstFrame + 1 \/ gpuQueue[i].frame <= e + 1
        BY <3>6
      <4>2. gpuQueue[i].frame >= coreFrame + 1 - MaxBehind /\ gpuQueue[i].frame \in Int
        BY <1>5 DEF BeginFrame
      <4> QED BY <1>1, <2>2, <3>1, <3>2, <3>3, <4>1, <4>2 DEF FirstFrame
    <3> QED BY <3>1, <3>4, <3>5, <3>6 DEF UpToDate
  <2>3. coreFrame' >= 0 => Recent(contents'[Color(0)], coreFrame')
                             /\ Recent(contents'[Down(0)], coreFrame')
    <3>1. coreFrame + 1 - MaxBehind - 1 = coreFrame - MaxBehind
      BY <1>1, PipelineAssumption
    <3>2. coreFrame + 1 >= 0 => Recent(contents[Color(0)], coreFrame + 1)
                                  /\ Recent(contents[Down(0)], coreFrame + 1)
      <4> SUFFICES ASSUME coreFrame + 1 >= 0, NEW t \in {Color(0), Down(0)}
                   PROVE  Recent(contents[t], coreFrame + 1)
        OBVIOUS
      <4>1. ASSUME NEW e \in contents[t]
            PROVE  coreFrame + 1 - MaxBehind - 1 <= e /\ e <= coreFrame + 1
        BY <2>2, <3>1
      <4> QED BY <1>1, <4>1, PipelineAssumption DEF Recent
    <3>3. contents' = contents /\ coreFrame' = coreFrame + 1
      BY <1>1
    <3> QED BY <3>2, <3>3
  <2>4. \A i \in 1 .. Len(gpuQueue') : gpuQueue'[i].frame >= coreFrame' - MaxBehind
    <3>1. coreFrame' - MaxBehind = coreFrame + 1 - MaxBehind
      BY <1>1, PipelineAssumption
    <3> QED BY <2>1, <3>1
  <2>5. pc' # "readBall"
    BY <1>1
  <2>6. coreFrame' >= 0 =>
          /\ \A e \in contents'[Color(0)] : coreFrame' - MaxBehind - 1 <= e /\ e <= coreFrame'
          /\ \A e \in contents'[Down(0)] : coreFrame' - MaxBehind - 1 <= e /\ e <= coreFrame'
    BY <2>3 DEF Recent
  <2> QED BY <2>4, <2>5, <2>6 DEF BallFramesRecent, Recent
<1>9. coreFrame' > FirstFrame
  BY <1>1 DEF FirstFrame
<1> QED
  BY <1>6, <1>7, <1>8, <1>9 DEF BallInv, FirstFrame

\* Both passes of a frame are submitted in its call.
LEMMA BallSubmit ==
  ASSUME PipelineType, BallInv, BallPasses
  PROVE  BallInv'
PROOF
<1>1. /\ gpuQueue \in Seq(Pass) /\ Len(gpuQueue) \in Nat /\ coreFrame \in Int /\ pc = "ball"
      /\ coreFrame' = coreFrame /\ contents' = contents /\ pc' \in {"outside", "readBall"}
      /\ contents \in [Texture -> SUBSET Int]
  BY DEF BallPasses, PipelineType
<1>2. /\ LastBall = coreFrame - 1 /\ LastBall' = coreFrame
      /\ coreFrame > FirstFrame /\ FirstFrame = -5
  BY <1>1 DEF LastBall, BallInv, FirstFrame
<1> DEFINE p == [source |-> INPUT, target |-> Color(0), frame |-> coreFrame]
           r == [source |-> Color(0), target |-> Down(0), frame |-> coreFrame]
           n == Len(gpuQueue)
<1>3. /\ p \in Pass /\ r \in Pass /\ gpuQueue' = gpuQueue \o <<p, r>>
      /\ p.target = Color(0) /\ p.source = INPUT /\ p.frame = coreFrame
      /\ r.target = Down(0) /\ r.source = Color(0) /\ r.frame = coreFrame
  BY BallPassesAre
<1> HIDE DEF p, r
<1>4. /\ Len(gpuQueue') = n + 2 /\ n \in Nat /\ gpuQueue'[n + 1] = p /\ gpuQueue'[n + 2] = r
      /\ \A i \in 1 .. n : gpuQueue'[i] = gpuQueue[i]
  BY <1>1, <1>3, QueueAppendTwo
<1> HIDE DEF n
<1>5. \A i \in 1 .. Len(gpuQueue') : i \in 1 .. n \/ i = n + 1 \/ i = n + 2
  BY <1>4
<1>6. n + 1 \in 1 .. Len(gpuQueue') /\ n + 2 \in 1 .. Len(gpuQueue')
      /\ \A i \in 1 .. n : i \in 1 .. Len(gpuQueue')
  BY <1>4
<1>7. \A i \in 1 .. n : gpuQueue[i].frame \in Int
  <2> SUFFICES ASSUME NEW i \in 1 .. n PROVE gpuQueue[i].frame \in Int
    OBVIOUS
  <2>1. gpuQueue[i] \in Pass
    BY <1>1 DEF n
  <2> QED BY <2>1 DEF Pass
<1> DEFINE InOrder(i) ==
             /\ BallPass(gpuQueue'[i], coreFrame)
             /\ gpuQueue'[i].frame < coreFrame =>
                  \E j \in 1 .. Len(gpuQueue') :
                    /\ j > i /\ gpuQueue'[j].target = gpuQueue'[i].target
                    /\ gpuQueue'[j].frame = gpuQueue'[i].frame + 1
             /\ gpuQueue'[i].target = Down(0) =>
                  \A j \in i .. Len(gpuQueue') :
                    gpuQueue'[j].target = Color(0) => gpuQueue'[j].frame > gpuQueue'[i].frame
<1>8. ASSUME NEW i \in 1 .. n, gpuQueue[i].target \notin {ColorField, DownField} PROVE InOrder(i)
  <2>1. /\ BallPass(gpuQueue[i], LastBall)
        /\ gpuQueue[i].frame < LastBall =>
             \E j \in 1 .. n : j > i /\ gpuQueue[j].target = gpuQueue[i].target
                                 /\ gpuQueue[j].frame = gpuQueue[i].frame + 1
        /\ gpuQueue[i].target = Down(0) =>
             \A j \in i .. n : gpuQueue[j].target = Color(0) => gpuQueue[j].frame > gpuQueue[i].frame
    BY <1>8 DEF BallInv, BallPassesInOrder, n
  <2>2. gpuQueue'[i] = gpuQueue[i] /\ gpuQueue[i].frame <= coreFrame - 1 /\ gpuQueue[i].frame \in Int
    BY <1>2, <1>4, <1>7, <2>1 DEF BallPass
  <2>3. BallPass(gpuQueue'[i], coreFrame)
    BY <1>1, <1>2, <2>1, <2>2 DEF BallPass
  <2>4. \E j \in 1 .. Len(gpuQueue') : /\ j > i /\ gpuQueue'[j].target = gpuQueue'[i].target
                                       /\ gpuQueue'[j].frame = gpuQueue'[i].frame + 1
    <3>1. CASE gpuQueue[i].frame < LastBall
      BY <1>4, <1>6, <2>1, <2>2, <3>1
    <3>2. CASE gpuQueue[i].frame = coreFrame - 1
      <4>1. CASE gpuQueue[i].target = Color(0)
        <5>1. /\ n + 1 > i /\ gpuQueue'[n + 1].target = gpuQueue'[i].target
              /\ gpuQueue'[n + 1].frame = gpuQueue'[i].frame + 1
          <6>1. gpuQueue'[n + 1].target = gpuQueue[i].target /\ gpuQueue'[n + 1].frame = coreFrame
            BY <1>3, <1>4, <4>1
          <6>2. n + 1 > i /\ n \in Nat
            BY <1>4
          <6>3. coreFrame = gpuQueue[i].frame + 1
            BY <1>1, <2>2, <3>2
          <6> QED BY <2>2, <6>1, <6>2, <6>3
        <5> QED BY <1>6, <5>1
      <4>2. CASE gpuQueue[i].target = Down(0)
        <5>1. /\ n + 2 > i /\ gpuQueue'[n + 2].target = gpuQueue'[i].target
              /\ gpuQueue'[n + 2].frame = gpuQueue'[i].frame + 1
          <6>1. gpuQueue'[n + 2].target = gpuQueue[i].target /\ gpuQueue'[n + 2].frame = coreFrame
            BY <1>3, <1>4, <4>2
          <6>2. n + 2 > i /\ n \in Nat
            BY <1>4
          <6>3. coreFrame = gpuQueue[i].frame + 1
            BY <1>1, <2>2, <3>2
          <6> QED BY <2>2, <6>1, <6>2, <6>3
        <5> QED BY <1>6, <5>1
      <4> QED BY <2>1, <4>1, <4>2 DEF BallPass
    <3> QED BY <1>1, <1>2, <2>2, <3>1, <3>2
  <2>5. ASSUME gpuQueue[i].target = Down(0), NEW j \in i .. Len(gpuQueue'),
               gpuQueue'[j].target = Color(0)
        PROVE  gpuQueue'[j].frame > gpuQueue'[i].frame
    <3>1. j \in i .. n \/ j = n + 1 \/ j = n + 2
      BY <1>4
    <3>2. CASE j \in i .. n
      <4>1. gpuQueue'[j] = gpuQueue[j]
        BY <1>4, <3>2
      <4> QED BY <2>1, <2>2, <2>5, <3>2, <4>1
    <3>3. CASE j = n + 1
      BY <1>1, <1>3, <1>4, <2>2, <3>3
    <3>4. CASE j = n + 2
      BY <1>3, <1>4, <2>5, <3>4, TexturesDiffer
    <3> QED BY <3>1, <3>2, <3>3, <3>4
  <2> QED BY <2>2, <2>3, <2>4, <2>5
<1>9. InOrder(n + 1)
  <2>1. BallPass(p, coreFrame)
    BY <1>1, <1>2, <1>3 DEF BallPass, p
  <2> QED BY <1>1, <1>3, <1>4, <2>1, TexturesDiffer
<1>10. InOrder(n + 2)
  <2>1. BallPass(r, coreFrame)
    BY <1>1, <1>2, <1>3, TexturesDiffer DEF BallPass, r
  <2>2. \A j \in n + 2 .. Len(gpuQueue') : j = n + 2
    BY <1>4
  <2> QED BY <1>1, <1>3, <1>4, <2>1, <2>2, TexturesDiffer
<1>11. BallPassesInOrder'
  <2> SUFFICES ASSUME NEW i \in 1 .. Len(gpuQueue'),
                      gpuQueue'[i].target \notin {ColorField, DownField}
               PROVE  InOrder(i)
    BY <1>2 DEF BallPassesInOrder
  <2> HIDE DEF InOrder
  <2> QED BY <1>4, <1>5, <1>8, <1>9, <1>10
<1> HIDE DEF InOrder
<1>12. ASSUME NEW t \in {Color(0), Down(0)} PROVE UpToDate(t)'
  <2> SUFFICES ASSUME NEW e \in contents[t]
               PROVE  /\ e <= coreFrame
                      /\ \E i \in 1 .. Len(gpuQueue') :
                           /\ gpuQueue'[i].target = t
                           /\ gpuQueue'[i].frame = FirstFrame + 1 \/ gpuQueue'[i].frame <= e + 1
    BY <1>1, <1>2 DEF UpToDate
  <2>1. /\ e \in Int /\ e <= coreFrame - 1
        /\ \/ e = LastBall \/ LastBall = FirstFrame
           \/ \E i \in 1 .. n :
                /\ gpuQueue[i].target = t
                /\ gpuQueue[i].frame = FirstFrame + 1 \/ gpuQueue[i].frame <= e + 1
    BY <1>1, <1>2, TexturesDiffer DEF BallInv, UpToDate, n
  <2>2. \E i \in 1 .. Len(gpuQueue') : gpuQueue'[i].target = t /\ gpuQueue'[i].frame = coreFrame
    BY <1>3, <1>4, <1>6
  <2>3. CASE e = LastBall
    BY <1>1, <1>2, <2>1, <2>2, <2>3
  <2>4. CASE LastBall = FirstFrame
    BY <1>1, <1>2, <2>1, <2>2, <2>4
  <2>5. CASE \E i \in 1 .. n : /\ gpuQueue[i].target = t
                               /\ \/ gpuQueue[i].frame = FirstFrame + 1
                                  \/ gpuQueue[i].frame <= e + 1
    BY <1>1, <1>4, <1>6, <2>1, <2>5
  <2> QED BY <2>1, <2>3, <2>4, <2>5
<1>13. BallFramesRecent'
  <2>1. /\ \A i \in 1 .. n : gpuQueue[i].frame >= coreFrame - MaxBehind
        /\ coreFrame >= 0 => /\ Recent(contents[Color(0)], coreFrame)
                               /\ Recent(contents[Down(0)], coreFrame)
    BY <1>1 DEF BallInv, BallFramesRecent, n
  <2>2. \A i \in 1 .. Len(gpuQueue') : gpuQueue'[i].frame >= coreFrame - MaxBehind
    <3>1. coreFrame >= coreFrame - MaxBehind
      BY <1>1, PipelineAssumption
    <3> QED BY <1>3, <1>4, <1>5, <2>1, <3>1
  <2>3. pc' = "readBall" => coreFrame >= 0 /\ seen' = contents[Down(0)]
    <3>1. down'.read = 0
      BY BallPassesAre
    <3> QED BY <3>1 DEF BallPasses, BallFrames
  <2> QED BY <1>1, <2>1, <2>2, <2>3 DEF BallFramesRecent, Recent
<1> QED
  BY <1>1, <1>2, <1>11, <1>12, <1>13 DEF BallInv

LEMMA BallSending ==
  ASSUME PipelineType, BallInv, FieldSent \/ BallSent
  PROVE  BallInv'
PROOF
<1>1. /\ UNCHANGED <<coreFrame, gpuQueue, contents>>
      /\ \/ pc = "readField" /\ pc' = "ball"
         \/ pc = "readBall" /\ pc' = "outside"
  BY DEF FieldSent, BallSent, gpuVars
<1>2. LastBall' = LastBall
  BY <1>1 DEF LastBall
<1>3. BallPassesInOrder'
  BY <1>1, <1>2 DEF BallInv, BallPassesInOrder, BallPass
<1>4. UpToDate(Color(0))' /\ UpToDate(Down(0))'
  BY <1>1, <1>2 DEF BallInv, UpToDate
<1>5. BallFramesRecent'
  BY <1>1 DEF BallInv, BallFramesRecent, Recent
<1> QED
  BY <1>1, <1>3, <1>4, <1>5 DEF BallInv, FirstFrame

-----------------------------------------------------------------------------
(* The theorems                                                             *)

LEMMA PipelineInvariance == ASSUME GpuKeepsUp PROVE PipelineSpec => []PipelineInv
PROOF
<1>1. PipelineInit => PipelineInv
  <2> SUFFICES ASSUME PipelineInit PROVE PipelineInv
    OBVIOUS
  <2>1. FieldInv
    BY PipelineAssumption DEF PipelineInit, FieldInv, FieldPassesInOrder, FieldComplete
  <2>2. BallInv
    <3>1. \A t \in {Color(0), Down(0)} : contents[t] = {-100}
      BY TexturesDiffer DEF PipelineInit, UNDEFINED
    <3>2. LastBall = -5 /\ FirstFrame = -5 /\ pc = "outside" /\ gpuQueue = <<>>
      BY DEF PipelineInit, LastBall, FirstFrame
    <3> QED BY <3>1, <3>2 DEF BallInv, BallPassesInOrder, UpToDate, BallFramesRecent
  <2>3. Readouts
    BY DEF PipelineInit, Readouts, FieldReadoutIntact, BallReadoutRecent, ReadoutDefined, NoReadout
  <2> QED BY <2>1, <2>2, <2>3, PipelineTypeInit DEF PipelineInv
<1>2. PipelineInv /\ [PipelineNext]_pipelineVars => PipelineInv'
  <2> SUFFICES ASSUME PipelineInv, [PipelineNext]_pipelineVars PROVE PipelineInv'
    OBVIOUS
  <2>1. PipelineType /\ FieldInv /\ BallInv /\ Readouts
    BY DEF PipelineInv
  <2>2. ASSUME readout' = readout PROVE Readouts'
    BY <2>1, <2>2 DEF Readouts, FieldReadoutIntact, BallReadoutRecent, ReadoutDefined
  <2>3. CASE GPU
    <3>1. readout' = readout
      BY <2>3 DEF GPU, GpuStart, GpuFinish
    <3> QED BY <2>1, <2>2, <2>3, <3>1, GpuType, FieldGpu, BallGpu DEF PipelineInv
  <2>4. CASE BeginFrame
    <3>1. readout' = readout
      BY <2>4 DEF BeginFrame
    <3> QED BY <2>1, <2>2, <2>4, <3>1, GLType, FieldBegin, BallBegin DEF PipelineInv, GLThread
  <2>5. CASE FieldSent
    <3>1. seen = {coreFrame - 5} /\ coreFrame \in Int /\ coreFrame >= FirstFrame
      BY <2>1, <2>5 DEF FieldInv, FieldComplete, FieldFrame, FieldSent, PipelineType
    <3>2. FieldReadoutIntact' /\ BallReadoutRecent'
      BY <2>5, <3>1 DEF FieldSent, FieldReadoutIntact, BallReadoutRecent
    <3>3. ReadoutDefined'
      BY <2>5, <3>1 DEF FieldSent, ReadoutDefined, UNDEFINED, FirstFrame
    <3>4. Readouts'
      BY <3>2, <3>3 DEF Readouts
    <3> QED BY <2>1, <2>5, <3>4, GLType, FieldSentOrBall, BallSending DEF PipelineInv, GLThread
  <2>6. CASE BallPasses
    <3>1. readout' = readout
      BY <2>6 DEF BallPasses
    <3> QED BY <2>1, <2>2, <2>6, <3>1, GLType, FieldSentOrBall, BallSubmit DEF PipelineInv, GLThread
  <2>7. CASE BallSent
    <3>1. /\ Recent(seen, coreFrame) /\ seen \in SUBSET Int
          /\ coreFrame \in Int /\ coreFrame >= FirstFrame
      BY <2>1, <2>7 DEF BallInv, BallFramesRecent, BallSent, PipelineType
    <3>2. seen \subseteq (coreFrame - MaxBehind - 1) .. coreFrame
      BY <3>1, PipelineAssumption DEF Recent
    <3>3. FieldReadoutIntact' /\ BallReadoutRecent'
      BY <2>7, <3>2 DEF BallSent, FieldReadoutIntact, BallReadoutRecent
    <3>4. UNDEFINED \notin seen
      BY <3>1, <3>2, PipelineAssumption DEF GpuKeepsUp, UNDEFINED, FirstFrame
    <3>5. ReadoutDefined'
      BY <2>7, <3>4 DEF BallSent, ReadoutDefined
    <3>6. Readouts'
      BY <3>3, <3>5 DEF Readouts
    <3> QED BY <2>1, <2>7, <3>6, GLType, FieldSentOrBall, BallSending DEF PipelineInv, GLThread
  <2>8. CASE UNCHANGED pipelineVars
    <3>1. Readouts'
      BY <2>2, <2>8 DEF pipelineVars
    <3> QED BY <2>1, <2>8, <3>1 DEF pipelineVars, glVars, gpuVars, PipelineInv, PipelineType, FieldInv,
         FieldPassesInOrder, FieldComplete, FieldFrame, Rendered, BallInv, BallPassesInOrder, BallPass,
         LastBall, UpToDate, BallFramesRecent, Recent
  <2> QED BY <2>3, <2>4, <2>5, <2>6, <2>7, <2>8 DEF PipelineNext, GLThread
<1> QED
  BY <1>1, <1>2, PTL DEF PipelineSpec

\* core.cpp:611-622: the gap between the field passes and their read-out is wide
\* enough for a GPU that is three frames late, whatever the update interval:
\* every field buffer shows one frame, the one five before it.
THEOREM FieldNeverTorn == ASSUME GpuKeepsUp PROVE PipelineSpec => []FieldReadoutIntact
PROOF
<1>1. PipelineInv => FieldReadoutIntact
  BY DEF PipelineInv, Readouts
<1> QED
  BY <1>1, PipelineInvariance, PTL

\* core.cpp:634: with the same GPU nothing is read out of a texture before all
\* of it has been rendered once: the frames without read-out are enough.
THEOREM ReadoutAlwaysDefined == ASSUME GpuKeepsUp PROVE PipelineSpec => []ReadoutDefined
PROOF
<1>1. PipelineInv => ReadoutDefined
  BY DEF PipelineInv, Readouts
<1> QED
  BY <1>1, PipelineInvariance, PTL

\* core.cpp:563, 628-635: the pointers of each pair are equal after the first
\* swap, so a ball image is read while the GPU may be writing it.  With the same
\* GPU what it mixes is no older than MaxBehind + 1 frames; that it is a single
\* frame is not claimed, and is false (BallReadoutIntact).
THEOREM BallAlwaysRecent == ASSUME GpuKeepsUp PROVE PipelineSpec => []BallReadoutRecent
PROOF
<1>1. PipelineInv => BallReadoutRecent
  BY DEF PipelineInv, Readouts
<1> QED
  BY <1>1, PipelineInvariance, PTL
=============================================================================
