--------------------------- MODULE TexturePipeline ---------------------------
(***************************************************************************)
(* One camera frame after the other through the textures of the tracker:   *)
(* balltrack_core_process_image of src/src/tracker/core.cpp, with the GPU  *)
(* that executes the render passes later and in the order of submission.   *)
(*                                                                         *)
(* A texture's contents are abstracted to the set of camera frames its     *)
(* pixels come from: one frame when it is complete, two while a pass is    *)
(* overwriting it.  A read-out collects the frames it sees from the lock   *)
(* of the texture memory to its unlock.                                    *)
(*                                                                         *)
(* Rendering to the screen (the simple pass and analysis_draw) writes no   *)
(* texture and is left out.                                                *)
(***************************************************************************)
EXTENDS Integers, Sequences

CONSTANTS
  FieldUpdateDelay,  \* frames between two field updates (core.cpp:17)
  MaxBehind,         \* external: when a frame begins, the GPU has finished
                     \* every pass submitted more than MaxBehind frames before
  MaxFrame           \* bound: the last frame number

ASSUME PipelineAssumption ==
  /\ FieldUpdateDelay \in Nat /\ FieldUpdateDelay > 5
  /\ MaxBehind \in Nat
  /\ MaxFrame \in Nat

FirstFrame == -5     \* initial value of the static coreFrame
UNDEFINED == -100    \* pixels of a texture nothing was rendered to
INPUT == <<"input", 0>> \* the camera image of the current frame

Color(i) == <<"texColorFilter", i>>
Down(i) == <<"texDownscaled", i>>
ColorField == <<"texColorFilterField", 0>>
DownField == <<"texDownscaledField", 0>>
Texture == {Color(i) : i \in {0, 1}} \union {Down(i) : i \in {0, 1}}
           \union {ColorField, DownField}

VARIABLES
  coreFrame, fieldUpdateSteps,    \* its statics; frameNumber in the code
  color, down,                    \* pointers: [read |-> i, write |-> j]
  pc,                             \* where the GL thread is in the function
  gpuQueue, rendering,            \* submitted passes; the first one started?
  contents,                       \* per texture, the frames its pixels show
  seen,                           \* frames seen by the read-out under way
  readout                         \* history: the last buffer sent

glVars == <<coreFrame, fieldUpdateSteps, color, down, pc>>
gpuVars == <<gpuQueue, rendering, contents>>
pipelineVars == <<glVars, gpuVars, seen, readout>>

NoReadout == [type |-> "none", frame |-> FirstFrame, frames |-> {}]

PipelineInit ==
  /\ coreFrame = FirstFrame
  /\ fieldUpdateSteps = FieldUpdateDelay
  /\ color = [read |-> 0, write |-> 1]
  /\ down = [read |-> 0, write |-> 1]
  /\ pc = "outside"
  /\ gpuQueue = <<>> /\ rendering = FALSE
  /\ contents = [t \in Texture |-> {UNDEFINED}]
  /\ seen = {}
  /\ readout = NoReadout

-----------------------------------------------------------------------------
(* The GPU                                                                  *)

PassContents(p) == IF p.source = INPUT THEN {p.frame} ELSE contents[p.source]

\* The texture the GL thread is reading out, if any.
ReadTexture == CASE pc = "readField" -> {DownField}
                 [] pc = "readBall"  -> {Down(down.read)}
                 [] OTHER            -> {}

Watch == IF Head(gpuQueue).target \in ReadTexture
         THEN seen' = seen \union contents'[Head(gpuQueue).target]
         ELSE UNCHANGED seen

\* The oldest pass starts to overwrite its target ...
GpuStart ==
  /\ gpuQueue # <<>> /\ ~rendering
  /\ rendering' = TRUE
  /\ contents' = [contents EXCEPT ![Head(gpuQueue).target] =
                                     @ \union PassContents(Head(gpuQueue))]
  /\ Watch
  /\ UNCHANGED <<glVars, gpuQueue, readout>>

\* ... and has overwritten all of it.
GpuFinish ==
  /\ rendering
  /\ rendering' = FALSE
  /\ contents' = [contents EXCEPT ![Head(gpuQueue).target] =
                                     PassContents(Head(gpuQueue))]
  /\ gpuQueue' = Tail(gpuQueue)
  /\ Watch
  /\ UNCHANGED <<glVars, readout>>

-----------------------------------------------------------------------------
(* The GL thread: balltrack_core_process_image                              *)

RenderPass(source, target) ==
  [source |-> source, target |-> target, frame |-> coreFrame']

\* The steps of the countdown at which the field textures are rendered.
FilterFieldStep == 5
DownsampleFieldStepLate == 1
DownsampleFieldStep == 4

\* The field passes of this frame, by the state of the countdown.
FieldPasses ==
  CASE fieldUpdateSteps = FilterFieldStep ->
         <<RenderPass(INPUT, ColorField)>>
    [] fieldUpdateSteps = DownsampleFieldStep ->
         <<RenderPass(ColorField, DownField)>>
    [] OTHER -> <<>>

\* The countdown has run out: the field texture is read out in this frame.
CountdownOver == fieldUpdateSteps = 0

\* A frame begins: number it, and render or read out the field textures.
BeginFrame ==
  /\ pc = "outside"
  /\ coreFrame < MaxFrame
  /\ \A i \in 1 .. Len(gpuQueue) :
       gpuQueue[i].frame >= coreFrame + 1 - MaxBehind
  /\ coreFrame' = coreFrame + 1
  /\ IF CountdownOver
     THEN /\ pc' = "readField"
          /\ seen' = contents[DownField]
          /\ UNCHANGED <<fieldUpdateSteps, gpuQueue>>
     ELSE /\ pc' = "ball"
          /\ gpuQueue' = gpuQueue \o FieldPasses
          /\ fieldUpdateSteps' = fieldUpdateSteps - 1
          /\ UNCHANGED seen
  /\ UNCHANGED <<color, down, rendering, contents, readout>>

\* The countdown restarts, and the decrement of the same call follows.
Restart == FieldUpdateDelay - 1

\* send_buffer_to_analysis has copied the field texture.
FieldSent ==
  /\ pc = "readField"
  /\ readout' = [type |-> "FIELD", frame |-> coreFrame, frames |-> seen]
  /\ fieldUpdateSteps' = Restart
  /\ pc' = "ball"
  /\ UNCHANGED <<coreFrame, color, down, gpuVars, seen>>

\* template swap(T& a, T& b): tmp is a reference to a, not a copy of its
\* value, so that both end up with the old value of b.
Swap(pair) == [write |-> pair.read, read |-> pair.read]

\* From which frame on a ball buffer is read out and sent.
BallFramesAlways == TRUE
BallFrames == coreFrame >= 0

\* Swap the textures, submit the two ball passes, start the read-out.
BallPasses ==
  /\ pc = "ball"
  /\ color' = Swap(color)
  /\ down' = Swap(down)
  /\ gpuQueue' = gpuQueue \o
       <<[source |-> INPUT, target |-> Color(color'.write), frame |-> coreFrame],
         [source |-> Color(color'.read), target |-> Down(down'.write),
          frame |-> coreFrame]>>
  /\ IF BallFrames
     THEN pc' = "readBall" /\ seen' = contents[Down(down'.read)]
     ELSE pc' = "outside" /\ UNCHANGED seen
  /\ UNCHANGED <<coreFrame, fieldUpdateSteps, rendering, contents, readout>>

\* send_buffer_to_analysis has copied the ball texture; the call returns.
BallSent ==
  /\ pc = "readBall"
  /\ readout' = [type |-> "BALL", frame |-> coreFrame, frames |-> seen]
  /\ pc' = "outside"
  /\ UNCHANGED <<coreFrame, fieldUpdateSteps, color, down, gpuVars, seen>>

-----------------------------------------------------------------------------
GPU == GpuStart \/ GpuFinish
GLThread == BeginFrame \/ FieldSent \/ BallPasses \/ BallSent
PipelineNext == GPU \/ GLThread

PipelineSpec == PipelineInit /\ [][PipelineNext]_pipelineVars

-----------------------------------------------------------------------------
(* Properties                                                               *)

\* core.cpp:611: the gap between the field passes and their read-out is wide
\* enough.  The field image that is sent is complete: all of it comes from
\* the camera frame five frames before, although "it can happen that the
\* previous render operation is not completed, even two frames later".
FieldReadoutIntact ==
  readout.type = "FIELD" => readout.frames = {readout.frame - 5}

\* core.cpp:634: "The first 3 frames there is no valid buffer yet".  Nothing is
\* sent that shows pixels no pass has rendered yet, however late the GPU is.
ReadoutDefined == UNDEFINED \notin readout.frames

\* core.cpp:614-620: "I think this problem does not happen for the ball buffers
\* because [of the two textures of each pair] ... So this one should be fine".
\* The ball image that is sent is complete: all of it comes from one frame.
BallReadoutIntact ==
  readout.type = "BALL" => \E f \in readout.frames : readout.frames = {f}

\* How old a ball image can be: none of its pixels shows a frame that the GPU
\* must have replaced long ago.  It may be a mixture of two such frames.
BallReadoutRecent ==
  readout.type = "BALL" =>
    readout.frames \subseteq (readout.frame - MaxBehind - 1) .. readout.frame
=============================================================================
