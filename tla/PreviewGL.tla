------------------------------ MODULE PreviewGL ------------------------------
(***************************************************************************)
(* What the preview worker of the recorder sets up before its loop and     *)
(* takes down after it: the dispmanx window and the EGL context            *)
(* (RaspiTexUtil.c), the shaders, textures, pixel buffers, semaphores and  *)
(* the analysis thread of the tracker (balltrack_core_init and _term of    *)
(* core.cpp), joined by BalltrackScene.c.  Any step of the set-up may      *)
(* fail.  The loop itself is in PreviewWorker, the analysis thread in      *)
(* AnalysisQueue.                                                          *)
(***************************************************************************)
EXTENDS Integers, Sequences, SequencesExt

CONSTANT MaxFailures    \* bound: calls that fail

ASSUME FailuresAssumption == MaxFailures \in Nat

VARIABLES
  scene,      \* "balltrack" once balltrack_open has set the operations
  worker,     \* where the worker thread is
  gl,         \* what of the window, EGL and the tracker exists
  analysis,   \* the analysis thread: none, running, blocked or ended
  crash,      \* the first use of something that does not exist, or "none"
  failures

glVars == <<scene, worker, gl, analysis, crash, failures>>

GLInit ==
  /\ scene = "default" /\ worker = "none" /\ gl = {} /\ analysis = "none"
  /\ crash = "none" /\ failures = 0

Fail == failures < MaxFailures /\ failures' = failures + 1

\* What exists when a sequence of calls has stopped before one of them.
Partial(calls) == {ToSet(SubSeq(calls, 1, k - 1)) : k \in 1 .. Len(calls)}

\* raspitexutil_create_native_window; without a window no surface is made.
Window == <<"display", "update", "element">>
create_native_window ==
  /\ worker = "window"
  /\ \/ /\ gl' = gl \union {"display", "element"} /\ worker' = "egl"
        /\ UNCHANGED failures
     \/ /\ Fail /\ worker' = "term"
        /\ \E done \in Partial(Window) : gl' = gl \union (done \ {"update"})
  /\ UNCHANGED <<scene, analysis, crash>>

\* raspitexutil_gl_init: an error takes down what there is at once, and the
\* worker does so again when it ends.
Egl == <<"egl", "surface", "context", "current">>
raspitexutil_gl_common ==
  /\ worker = "egl"
  /\ \/ /\ gl' = gl \union ToSet(Egl) \union {"textures"}
        /\ worker' = IF scene = "balltrack" THEN "core" ELSE "loop"
        /\ UNCHANGED failures
     \/ /\ Fail /\ worker' = "termAtOnce"
        /\ \E done \in Partial(Egl) : gl' = gl \union done
  /\ UNCHANGED <<scene, analysis, crash>>

\* balltrack_core_init returns at the first error and leaves the rest to
\* balltrack_core_term.
Tracker == <<"vcsm", "shaders", "pixelbuffers", "targets", "semFullCount",
             "semEmptyCount", "analysis">>
balltrack_core_init ==
  /\ worker = "core"
  /\ \/ /\ gl' = gl \union ToSet(Tracker) /\ analysis' = "running"
        /\ worker' = "loop"
        /\ UNCHANGED failures
     \/ /\ Fail /\ worker' = "term"
        /\ \E done \in Partial(Tracker) : gl' = gl \union done
        /\ UNCHANGED analysis
  /\ UNCHANGED <<scene, crash>>

\* balltrack_core_term: the analysis thread sees the stop if it is at work; if
\* it waits for a buffer it never ends, and the join neither.  Joining a thread
\* that was never created is undefined.
Terms == {"term", "termAtOnce"}
StopAnalysis ==
  /\ worker \in Terms /\ scene = "balltrack" /\ analysis = "running"
  /\ analysis' \in {"ended", "blocked"}
  /\ UNCHANGED <<scene, worker, gl, crash, failures>>
JoinNoAnalysis ==
  /\ worker \in Terms /\ scene = "balltrack" /\ analysis = "none"
  /\ crash = "none" /\ crash' = "join"
  /\ UNCHANGED <<scene, worker, gl, analysis, failures>>

JoinedOrNot == TRUE
Joined == scene # "balltrack" \/ analysis \in {"none", "ended"}
EglThings == ToSet(Egl) \union {"textures"}
TrackerThings == ToSet(Tracker) \ {"vcsm"}
\* balltrack_term: the tracker first, while the context is current ...
CoreTerm ==
  /\ worker \in Terms /\ Joined
  /\ worker' = IF worker = "term" THEN "glTerm" ELSE "glTermAtOnce"
  /\ gl' = IF scene = "balltrack" THEN gl \ TrackerThings ELSE gl
  /\ UNCHANGED <<scene, analysis, crash, failures>>
\* ... then raspitexutil_gl_term.
GlTerm ==
  /\ worker \in {"glTerm", "glTermAtOnce"}
  /\ worker' = IF worker = "glTerm" THEN "ended" ELSE "term"
  /\ gl' = gl \ EglThings
  /\ UNCHANGED <<scene, analysis, crash, failures>>

WorkerSetUp ==
  create_native_window \/ raspitexutil_gl_common \/ balltrack_core_init
WorkerTakeDown == StopAnalysis \/ JoinNoAnalysis \/ CoreTerm \/ GlTerm

\* The end of preview_worker's loop.
WorkerStops ==
  /\ worker = "loop" /\ worker' = "term"
  /\ UNCHANGED <<scene, gl, analysis, crash, failures>>
=============================================================================
