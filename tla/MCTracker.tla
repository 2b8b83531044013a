------------------------------ MODULE MCTracker ------------------------------
(***************************************************************************)
(* TLC instance of three parts of the tracker that share no state: the     *)
(* textures of the GL thread (TexturePipeline), the ball's history         *)
(* (BallAnalysis), and the field with the camera's settings (CameraView).  *)
(* Since no step of one reads what another writes, a run lets one of them  *)
(* move and the others rest at their beginning; this shows all that each   *)
(* can do.                                                                 *)
(***************************************************************************)
EXTENDS TexturePipeline, BallAnalysis, CameraView

\* A ball at the blue keeper in the left goal, at the red middle bar, or at the
\* red keeper in the right goal.
MCPosition == {[bar |-> 1, goal |-> 1, near |-> TRUE],
               [bar |-> 5, goal |-> 0, near |-> FALSE],
               [bar |-> 8, goal |-> 2, near |-> TRUE]}

\* A table off the middle of the picture, four bars across it, noise below and
\* above what the detector ignores, and the table covered.
MCTable == [xmin |-> 17000, xmax |-> 50000, ymin |-> 25000, ymax |-> 48000]
MCBars == {21000, 29000, 38000, 46000}
MCScenes ==
  {[table |-> TRUE, speck |-> [x |-> 0, y |-> 0, value |-> 20]],
   [table |-> TRUE, speck |-> [x |-> Width - 1, y |-> 2, value |-> 60]],
   [table |-> FALSE, speck |-> [x |-> 0, y |-> 0, value |-> 20]]}
MCCrops == {[x |-> 0, y |-> 0, width |-> 65536, height |-> 65536],
            [x |-> 8000, y |-> 8000, width |-> 50000, height |-> 50000]}
\* A user who changed every setting.
MCUserSettings ==
  {[sharpness |-> 35, contrast |-> -20, brightness |-> 70, saturation |-> 15, ev |-> 3,
    exposure |-> 2, awb |-> 3, imagefx |-> 4, colour |-> [enable |-> 1, u |-> 90, v |-> 160],
    rotation |-> 180, flips |-> {"v"}]}
\* Every crop the keys lead to: whole steps from the first ones, the smallest
\* one, and steps up from that.
Sizes == {s \in {65536 - k * 6553 : k \in 0 .. 9} \union {9830 + k * 6553 : k \in 0 .. 8}
               \union {50000 - k * 6553 : k \in -2 .. 7} : s > 0 /\ s <= 65536}
MCPictures ==
  {View(c, s) : s \in MCScenes,
     c \in MCCrops \union {[x |-> (65536 - w) \div 2, y |-> (65536 - w) \div 2,
                            width |-> w, height |-> w] : w \in Sizes}}

-----------------------------------------------------------------------------
VARIABLE part   \* the part that moves

trackerVars == <<pipelineVars, analysisVars, vars, part>>

AtRest == CHOOSE v \in Scenes \X InitialCrops : TRUE
TrackerInit ==
  /\ part \in {"textures", "ball", "field"}
  /\ PipelineInit /\ AnalysisInit /\ Init
  /\ part # "field" => mode = "demo" /\ <<scene, crop>> = AtRest
TrackerNext ==
  \/ part = "textures" /\ PipelineNext /\ UNCHANGED <<analysisVars, vars, part>>
  \/ part = "ball" /\ analysis_update /\ UNCHANGED <<pipelineVars, vars, part>>
  \/ part = "field" /\ Next /\ UNCHANGED <<pipelineVars, analysisVars, part>>
TrackerSpec == TrackerInit /\ [][TrackerNext]_trackerVars
=============================================================================
