---------------------------- MODULE PreviewWorker ----------------------------
(***************************************************************************)
(* The camera preview of the recorder (src/src/recorder/RaspiTexBalls.c):  *)
(* the MMAL buffers that go round between the pool, the camera, the        *)
(* preview queue and the GL texture, the worker thread that moves them,    *)
(* the callback of the camera port, and the main thread that starts, stops *)
(* and destroys the preview (RaspiVidBalls.c).                             *)
(*                                                                         *)
(* The camera and MMAL are external: a buffer sent to the port comes back  *)
(* through preview_output_cb, in order, with the next frame, with no data, *)
(* or empty at the end of the stream.  The operations BalltrackScene       *)
(* installs report no error once gl_init has succeeded, so the error paths *)
(* of raspitex_draw are not taken.                                         *)
(***************************************************************************)
EXTENDS Integers, Sequences, FiniteSets, SequencesExt

CONSTANTS
  Buffer,     \* buffers of the preview pool
  None,       \* no buffer
  MaxLost     \* bound: buffers the camera port refuses or returns empty

ASSUME PreviewAssumption ==
  /\ IsFiniteSet(Buffer) /\ Cardinality(Buffer) >= 2 /\ None \notin Buffer
  /\ MaxLost \in Nat

VARIABLES
  pool,           \* buffers in preview_pool->queue
  camera,         \* buffers at the camera port, the one filled next first
  preview_queue,  \* buffers with a frame, oldest first
  hand,           \* the buffer the worker holds
  preview_buf,    \* the buffer of the current texture
  texture,        \* the buffer the EGL image refers to, or None
  preview_stop,   \* the stop flag
  worker, main,   \* program counters
  refused,        \* buffers lost because mmal_port_send_buffer failed
  empties,        \* buffers returned without data
  eos             \* history: the callback has seen the end of the stream

bufferVars == <<pool, camera, preview_queue, hand, preview_buf>>
vars == <<bufferVars, texture, preview_stop, worker, main, refused,
          empties, eos>>

\* raspitex_configure_preview_port has created the pool and the queue.
Init ==
  /\ pool = Buffer /\ camera = <<>> /\ preview_queue = <<>>
  /\ hand = None /\ preview_buf = None
  /\ texture = None
  /\ preview_stop = FALSE
  /\ worker = "none" /\ main = "start"
  /\ refused = 0 /\ empties = 0 /\ eos = FALSE

-----------------------------------------------------------------------------
(* preview_worker                                                           *)

\* create_native_window and gl_init; either may fail.
WorkerInit ==
  /\ worker = "init"
  /\ worker' \in {"loop", "drain"}
  /\ UNCHANGED <<bufferVars, texture, preview_stop, main, refused, empties, eos>>

LoopTest ==
  /\ worker = "loop"
  /\ worker' = IF preview_stop THEN "drain" ELSE "feed"
  /\ UNCHANGED <<bufferVars, texture, preview_stop, main, refused, empties, eos>>

\* Send every buffer of the pool to the camera; one that is refused is lost.
SendEmpty(b) ==
  /\ worker = "feed" /\ b \in pool
  /\ pool' = pool \ {b}
  /\ \/ camera' = Append(camera, b) /\ UNCHANGED refused
     \/ refused < MaxLost /\ refused' = refused + 1 /\ UNCHANGED camera
  /\ UNCHANGED <<preview_queue, hand, preview_buf, texture, preview_stop,
                 worker, main, empties, eos>>

PoolEmpty ==
  /\ worker = "feed" /\ pool = {} /\ worker' = "process"
  /\ UNCHANGED <<bufferVars, texture, preview_stop, main, refused, empties, eos>>

\* preview_process_returned_bufs: take the oldest frame, if there is one.
TakeFrame ==
  /\ hand' = Head(preview_queue) /\ preview_queue' = Tail(preview_queue)
  /\ UNCHANGED <<pool, preview_buf>>

ProcessReturned ==
  /\ worker = "process"
  /\ IF preview_queue = <<>>
     THEN worker' = "loop" /\ UNCHANGED bufferVars
     ELSE TakeFrame /\ worker' = "taken" /\ UNCHANGED camera
  /\ UNCHANGED <<texture, preview_stop, main, refused, empties, eos>>

\* A buffer taken after the stop is dropped where it is.
StopTest ==
  /\ worker = "taken"
  /\ IF preview_stop THEN worker' = "process" /\ hand' = None
                     ELSE worker' = "update" /\ UNCHANGED hand
  /\ UNCHANGED <<pool, camera, preview_queue, preview_buf, texture,
                 preview_stop, main, refused, empties, eos>>

\* raspitex_draw: refer to the new buffer (the EGL image may not be made) ...
UpdateTexture ==
  /\ worker = "update"
  /\ texture' \in {hand, None}
  /\ worker' = "return"
  /\ UNCHANGED <<bufferVars, preview_stop, main,
                 refused, empties, eos>>

\* ... return the previous one to the camera and keep this one ...
ReturnedNew == {hand}
ReturnedNone == {}
Returned == {preview_buf} \ {None}
ReturnPrevious ==
  /\ worker = "return"
  /\ pool' = pool \union Returned
  /\ preview_buf' = hand /\ hand' = None
  /\ worker' = "redraw"
  /\ UNCHANGED <<camera, preview_queue, texture, preview_stop, main,
                 refused, empties, eos>>

\* ... and draw what it shows, if there is an image.
Redraw ==
  /\ worker = "redraw"
  /\ worker' = "process"
  /\ UNCHANGED <<bufferVars, texture, preview_stop, main,
                 refused, empties, eos>>

\* The end: release what is queued, then gl_term.
DrainOne ==
  /\ worker = "drain" /\ preview_queue # <<>>
  /\ pool' = pool \union {Head(preview_queue)}
  /\ preview_queue' = Tail(preview_queue)
  /\ UNCHANGED <<camera, hand, preview_buf, texture, preview_stop, worker,
                 main, refused, empties, eos>>

GlTerm ==
  /\ worker = "drain" /\ preview_queue = <<>>
  /\ texture' = None /\ worker' = "ended"
  /\ UNCHANGED <<bufferVars, preview_stop, main, refused,
                 empties, eos>>

Worker ==
  \/ WorkerInit \/ LoopTest \/ (\E b \in Buffer : SendEmpty(b)) \/ PoolEmpty
  \/ ProcessReturned \/ StopTest \/ UpdateTexture \/ ReturnPrevious \/ Redraw
  \/ DrainOne \/ GlTerm

-----------------------------------------------------------------------------
(* preview_output_cb, called by the camera port until it goes away          *)

CameraFrame ==
  /\ main # "destroyed" /\ camera # <<>>
  /\ preview_queue' = Append(preview_queue, Head(camera))
  /\ camera' = Tail(camera)
  /\ UNCHANGED <<pool, hand, preview_buf, texture, preview_stop,
                 worker, main, refused, empties, eos>>

CameraNoData ==
  /\ main # "destroyed" /\ camera # <<>> /\ empties < MaxLost
  /\ empties' = empties + 1
  /\ pool' = pool \union {Head(camera)} /\ camera' = Tail(camera)
  /\ UNCHANGED <<preview_queue, hand, preview_buf, texture, preview_stop,
                 worker, main, refused, eos>>

CameraEOS ==
  /\ main # "destroyed" /\ camera # <<>> /\ ~eos
  /\ eos' = TRUE /\ preview_stop' = TRUE
  /\ pool' = pool \union {Head(camera)} /\ camera' = Tail(camera)
  /\ UNCHANGED <<preview_queue, hand, preview_buf, texture, worker, main,
                 refused, empties>>

-----------------------------------------------------------------------------
(* The main thread: raspitex_start, raspitex_stop, raspitex_destroy         *)

raspitex_start ==
  /\ main = "start" /\ main' = "capture" /\ worker' = "init"
  /\ UNCHANGED <<bufferVars, texture, preview_stop, refused, empties, eos>>

\* An error before the worker exists: `goto error`, where it is stopped as well.
StartFails ==
  /\ main = "start" /\ main' = "capture"
  /\ UNCHANGED <<bufferVars, texture, preview_stop, worker, refused,
                 empties, eos>>

\* The capture ends (time, key, signal or error): test, set the flag, join.
raspitex_stop ==
  /\ main = "capture"
  /\ IF preview_stop THEN main' = "stopped" /\ UNCHANGED preview_stop
                     ELSE main' = "join" /\ preview_stop' = TRUE

Stop ==
  /\ raspitex_stop
  /\ UNCHANGED <<bufferVars, texture, worker, refused, empties, eos>>

Join ==
  /\ main = "join" /\ worker = "ended" /\ main' = "stopped"
  /\ UNCHANGED <<bufferVars, texture, preview_stop, worker, refused,
                 empties, eos>>

\* Joining a thread that was never created fails, or kills the process.
JoinNothing ==
  /\ main = "join" /\ worker = "none" /\ main' \in {"stopped", "crashed"}
  /\ UNCHANGED <<bufferVars, texture, preview_stop, worker, refused,
                 empties, eos>>

\* Destroys the pool and the queue; the port is still enabled.
raspitex_destroy ==
  /\ main = "stopped" /\ main' = "destroyed"
  /\ UNCHANGED <<bufferVars, texture, preview_stop, worker, refused,
                 empties, eos>>

\* What happens once the pool has been destroyed under a running worker is
\* undefined; the model stops there.
Next ==
  \/ main # "destroyed" /\ Worker
  \/ CameraFrame \/ CameraNoData \/ CameraEOS
  \/ raspitex_start \/ StartFails \/ Stop \/ Join \/ JoinNothing
  \/ raspitex_destroy

\* The threads run; the camera keeps filling the buffers it has.
Spec == Init /\ [][Next]_vars
FairSpec ==
  /\ Spec
  /\ WF_vars(Worker /\ main # "destroyed") /\ WF_vars(CameraFrame)
  /\ WF_vars(raspitex_start \/ StartFails \/ Join)

-----------------------------------------------------------------------------
(* Properties                                                               *)

\* Every buffer is in one place at most, and the one the texture refers to is
\* still held: nothing is released twice or while it is in use, and the camera
\* never writes into the frame that is being processed, whatever is refused,
\* dropped after the stop or drained at the end (RaspiTexBalls.c:279-328,
\* 366-385, 422-442).
TextureNotRefilled ==
  LET places == <<pool, Range(camera), Range(preview_queue),
                  {hand} \ {None}, {preview_buf} \ {None}>>
  IN  /\ texture \notin pool \union Range(camera)
      /\ IsInjective(camera) /\ IsInjective(preview_queue)
      /\ \A i, j \in 1 .. 5 : i # j => places[i] \intersect places[j] = {}

\* The worker cannot starve: once it was started, and while nobody stops it and
\* the camera port has not refused all buffers but one, the camera is given
\* buffers and frames are processed forever, although one buffer is always held
\* back by the texture.
KeepsDrawing ==
  \/ []<><<Redraw>>_vars
  \/ <>(preview_stop \/ worker = "ended")
  \/ <>(refused >= Cardinality(Buffer) - 1)
  \/ [](worker = "none")
=============================================================================
