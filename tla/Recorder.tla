------------------------------- MODULE Recorder -------------------------------
(***************************************************************************)
(* main of the recorder (RaspiVidBalls.c) from the command line to the     *)
(* exit: it makes the camera, the encoder and the splitter, connects them, *)
(* opens the files, starts the preview worker, switches the capture on and *)
(* off until the end of the run, and takes everything down.  The encoder   *)
(* callback and the preview worker run beside it.  Every call that can     *)
(* fail may fail, MaxFailures times in a run.                              *)
(*                                                                         *)
(* MMAL is external: disabling a port waits for its callback; a destroyed  *)
(* camera takes its ports with it.  What the callback writes is the        *)
(* subject of SegmentedRecording and CircularRecording; here it matters    *)
(* when it runs, with which files, and in which file a capture begins.     *)
(* Every interleaving with SIGINT is left out: its handler exits at once.  *)
(***************************************************************************)
EXTENDS RecorderOptions, PreviewGL, FiniteSets, TLC

CONSTANT IntRange   \* the values of an int are -IntRange .. IntRange - 1

ASSUME IntAssumption == IntRange \in Nat /\ IntRange > 0

VARIABLES
  main,             \* program counter
  held,             \* components, pools, the connection and enabled ports
  open,             \* file handles that are not NULL
  preview_stop,     \* "no"; set by raspitex_stop ("stop") or before it ("early")
  cb_len,           \* size of the circular buffer, or -1
  initialCapturing, splitNow, abort,
  keep_running,     \* what this call of wait_for_next_change found
  elapsed,          \* the time of -t is over
  capturing,        \* MMAL_PARAMETER_CAPTURE of the camera
  underway,         \* the encoder's next buffer: its capture, a header or not
  begun,            \* the captures whose header is in the current file
  disturbed         \* history: the file began out of turn (see OneFilePerStart)

runVars == <<initialCapturing, splitNow, abort, keep_running, elapsed>>
streamVars == <<capturing, underway, begun, disturbed>>
resourceVars == <<held, open, preview_stop, cb_len>>
recVars == <<main, resourceVars, runVars, streamVars>>
vars == <<optionVars, glVars, recVars>>

\* Captures are numbered from the present: 0 is the one the last start began,
\* 1 the one before, 2 any earlier one.
NoBuffer == [age |-> -1, header |-> FALSE]
Older(age) == IF age < 2 THEN age + 1 ELSE age

Init ==
  /\ OptionsInit /\ GLInit
  /\ main = "options" /\ held = {} /\ open = {} /\ preview_stop = "no"
  /\ cb_len = -1 /\ initialCapturing = FALSE /\ splitNow = FALSE
  /\ abort = FALSE /\ keep_running = TRUE /\ elapsed = FALSE
  /\ capturing = FALSE /\ underway = NoBuffer /\ begun = {} /\ disturbed = FALSE

Step(from, to) == main = from /\ main' = to
Acquire(things) == held' = held \union things
Release(things) == held' = held \ things

-----------------------------------------------------------------------------
(* Set-up                                                                   *)

ParseCmdline ==
  /\ main = "options" /\ parse_cmdline
  /\ main' = CASE parsing' = "parsed" -> "init"
               [] parsing' = "usage" -> "exit"
               [] OTHER -> "options"
  /\ UNCHANGED <<glVars, resourceVars, runVars, streamVars>>

\* Nobody looks at what raspitex_init returns.
raspitex_init ==
  /\ Step("init", "camera")
  /\ \/ scene' = "balltrack" /\ UNCHANGED failures
     \/ Fail /\ UNCHANGED scene
  /\ UNCHANGED <<optionVars, worker, gl, analysis, crash, resourceVars, runVars,
                 streamVars>>

Unchanged == UNCHANGED <<optionVars, scene, worker, gl, analysis, runVars, streamVars>>

\* What raspitex_configure_preview_port leaves when it has failed.
Preview == <<"preview_pool", "preview_queue", "preview_port">>
ConfigureFailed == Partial(Preview)

create_camera_component ==
  /\ \/ /\ Step("camera", "encoder")
        /\ Acquire({"camera"} \union ToSet(Preview))
        /\ UNCHANGED failures
     \/ /\ Step("camera", "exit") /\ Fail
        /\ \E left \in ConfigureFailed : Acquire(left)
  /\ UNCHANGED <<open, preview_stop, cb_len, crash>> /\ Unchanged

\* A pool that cannot be made is only logged.
create_encoder_component ==
  /\ \/ /\ Step("encoder", IF state.raw_output THEN "splitter" ELSE "connect")
        /\ \/ Acquire({"encoder", "encoder_pool"}) /\ UNCHANGED failures
           \/ Acquire({"encoder"}) /\ Fail
     \/ /\ Step("encoder", "exit") /\ Fail
        /\ Release({"camera", "preview_port"})
  /\ UNCHANGED <<open, preview_stop, cb_len, crash>> /\ Unchanged

create_splitter_component ==
  /\ \/ /\ Step("splitter", "connect")
        /\ \/ Acquire({"splitter", "splitter_pool"}) /\ UNCHANGED failures
           \/ Acquire({"splitter"}) /\ Fail
     \/ /\ Step("splitter", "exit") /\ Fail
        /\ Release({"camera", "preview_port", "encoder_pool", "encoder"})
  /\ UNCHANGED <<open, preview_stop, cb_len, crash>> /\ Unchanged

\* The camera's video port to the encoder; the splitter is connected to nothing.
ConnectPorts ==
  /\ \/ /\ Step("connect", "files") /\ Acquire({"connection"}) /\ UNCHANGED failures
     \/ Step("connect", "stop") /\ Fail /\ UNCHANGED held
  /\ UNCHANGED <<open, preview_stop, cb_len, crash>> /\ Unchanged

\* The splitter's output port, then the files, of which any but stdout may fail:
\* a file that cannot be opened is done without.  However many calls of a step
\* fail, they count once towards MaxFailures.
Wanted == (IF state.filename # "NULL" THEN {"file"} ELSE {})
          \union (IF state.imv_filename # "NULL" THEN {"imv"} ELSE {})
          \union (IF state.pts_filename # "NULL" THEN {"pts"} ELSE {})
          \union (IF state.raw_output THEN {"raw"} ELSE {})
Named == IF state.imv_filename = "-" THEN Wanted \ {"imv"} ELSE Wanted
OptionsKept(opened) == state
OptionsLeft(opened) ==
  [state EXCEPT !.inlineMotionVectors = @ /\ "imv" \in opened,
                !.save_pts = @ /\ "pts" \in opened,
                !.raw_output = @ /\ "raw" \in opened]
OpenFiles ==
  /\ \/ /\ Step("files", "circular")
        /\ held' = held \union (IF state.raw_output THEN {"splitter_port"} ELSE {})
        /\ \/ open' = Wanted /\ UNCHANGED failures
           \/ Fail /\ \E lost \in (SUBSET Named) \ {{}} : open' = Wanted \ lost
        /\ state' = OptionsLeft(open')
     \/ /\ Step("files", "stop") /\ state.raw_output /\ Fail
        /\ UNCHANGED <<held, open, state>>
  /\ UNCHANGED <<parsing, args, scene, worker, gl, analysis, crash, preview_stop,
                 cb_len, runVars, streamVars>>

\* bitrate * (timeout / 1000) / 8, in an int.
ToInt(x) == ((x + IntRange) % (2 * IntRange)) - IntRange
Bits == ToInt(state.bitrate * (state.timeout \div 1000))
Size == IF Bits >= 0 THEN Bits \div 8 ELSE -((-Bits) \div 8)
TriggeredOnly ==
  /\ state.bitrate # 0 /\ state.timeout # 0
  /\ state.waitMethod \in {"keypress", "signal"}
CircularPossible ==
  /\ state.bitrate # 0 /\ state.timeout # 0
  /\ state.waitMethod \in {"keypress", "signal"}
  /\ "file" \in open
CircularBuffer ==
  /\ \/ /\ Step("circular", "encoder_port") /\ ~state.bCircularBuffer
        /\ UNCHANGED <<cb_len, failures>>
     \/ /\ state.bCircularBuffer /\ CircularPossible /\ Size >= 0
        /\ Step("circular", "encoder_port") /\ cb_len' = Size
        /\ UNCHANGED failures
     \/ /\ state.bCircularBuffer /\ (~CircularPossible \/ Size < 0)
        /\ Step("circular", "stop")
        /\ UNCHANGED <<cb_len, failures>>
     \/ /\ state.bCircularBuffer /\ CircularPossible /\ Fail
        /\ Step("circular", "stop")
        /\ UNCHANGED cb_len
  /\ UNCHANGED <<held, open, preview_stop, crash>> /\ Unchanged

EnableEncoderPort ==
  /\ \/ /\ Step("encoder_port", "start") /\ Acquire({"encoder_port"})
        /\ UNCHANGED failures
     \/ Step("encoder_port", "stop") /\ Fail /\ UNCHANGED held
  /\ UNCHANGED <<open, preview_stop, cb_len, crash>> /\ Unchanged

raspitex_start ==
  /\ \/ /\ Step("start", CASE state.demoMode -> "demo"
                           [] open \intersect {"file", "raw"} # {} -> "send"
                           [] OTHER -> "sleep")
        /\ worker' = "window" /\ UNCHANGED failures
     \/ Step("start", "stop") /\ Fail /\ UNCHANGED worker
  /\ UNCHANGED <<optionVars, scene, gl, analysis, crash, resourceVars, runVars,
                 streamVars>>

-----------------------------------------------------------------------------
(* The capture                                                              *)

Finish == IF state.bCircularBuffer THEN "save" ELSE "stop"

\* Every buffer of the pools goes to its port.
SendBuffers ==
  /\ \/ /\ "file" \in open => "encoder_pool" \in held
        /\ "raw" \in open => "splitter_pool" \in held
        /\ Step("send", "toggle") /\ UNCHANGED crash
     \/ /\ \/ "file" \in open /\ "encoder_pool" \notin held
           \/ "raw" \in open /\ "splitter_pool" \notin held
        /\ main = "send" /\ crash' = "pool" /\ UNCHANGED main
  /\ initialCapturing' = state.bCapturing
  /\ UNCHANGED <<optionVars, scene, worker, gl, analysis, failures, resourceVars,
                 splitNow, abort, keep_running, elapsed, streamVars>>

\* "Change state": a start makes all earlier captures older.
ToggleCapture ==
  /\ Step("toggle", "announce")
  /\ state' = [state EXCEPT !.bCapturing = ~@]
  /\ capturing' = state'.bCapturing
  /\ IF capturing'
     THEN /\ underway' = [underway EXCEPT !.age = IF @ = -1 THEN -1 ELSE Older(@)]
          /\ begun' = {Older(a) : a \in begun}
     ELSE UNCHANGED <<underway, begun>>
  /\ UNCHANGED <<parsing, args, glVars, resourceVars, runVars, disturbed>>

\* A circular capture ends when it is paused.  With -sp the next capture gets a
\* file of its own, but for one that was paused from the beginning.
SplitNever == FALSE
SplitAfterPause == ~initialCapturing
Announce ==
  /\ main = "announce"
  /\ IF state.bCircularBuffer /\ ~state.bCapturing
     THEN main' = "save" /\ UNCHANGED runVars
     ELSE /\ main' = "wait"
          /\ keep_running' = ~elapsed
          /\ IF state.splitWait
             THEN /\ splitNow' = (splitNow \/ (~state.bCapturing /\ SplitAfterPause))
                  /\ initialCapturing' = FALSE
             ELSE UNCHANGED <<splitNow, initialCapturing>>
          /\ UNCHANGED <<abort, elapsed>>
  /\ UNCHANGED <<optionVars, glVars, resourceVars, streamVars>>

\* wait_for_next_change
Waited(next) ==
  /\ Step("wait", next)
  /\ UNCHANGED <<optionVars, glVars, resourceVars, runVars, streamVars>>
KeepRunning == IF keep_running THEN "toggle" ELSE Finish

\* pause_and_test_abort of the whole time.
Ends == elapsed \/ abort \/ state.timeout = 0
WaitNone == state.waitMethod = "none" /\ Ends /\ Waited(Finish)
WaitForever == state.waitMethod = "forever" /\ abort /\ Waited(Finish)
WaitTimed ==
  /\ state.waitMethod = "timed"
  /\ \/ abort /\ Waited(Finish)
     \/ ~abort /\ Waited(KeepRunning)
\* Any key but x, or the signal.
WaitTrigger ==
  state.waitMethod \in {"keypress", "signal"} /\ Waited(KeepRunning)
KeyX == state.waitMethod = "keypress" /\ Waited(Finish)

\* More than the time of -t has passed since the first wait.
TimePasses ==
  /\ main \in {"wait", "toggle", "announce", "demo", "sleep"}
  /\ state.timeout # 0 /\ ~elapsed /\ elapsed' = TRUE
  /\ UNCHANGED <<optionVars, glVars, main, resourceVars, initialCapturing,
                 splitNow, abort, keep_running, streamVars>>

\* Demo mode and a run without an output file only let the time pass.
OnlyPreview ==
  /\ main \in {"demo", "sleep"} /\ elapsed
  /\ main' = Finish
  /\ UNCHANGED <<optionVars, glVars, resourceVars, runVars, streamVars>>

-----------------------------------------------------------------------------
(* The encoder and its callback                                             *)

\* It has buffers to fill once main has sent them.
Encoding ==
  /\ {"connection", "encoder_port"} \subseteq held /\ "file" \in open
  /\ main \notin {"start", "send"} /\ ~state.demoMode

\* A frame of the capture that is on.
Encode ==
  /\ Encoding /\ capturing
  /\ underway = NoBuffer
  /\ \E h \in BOOLEAN : underway' = [age |-> 0, header |-> h]
  /\ UNCHANGED <<optionVars, glVars, main, resourceVars, runVars, capturing, begun,
                 disturbed>>

\* A header of a capture that is over, when the file should be split.
Late == underway.age > 0 \/ ~capturing

\* With -sp a header begins the next files, those that can be opened, and is
\* written to the new one.  The handle of a -x or -pts file that could not be
\* opened before is closed all the same when the next one can be.
Split ==
  \E reopened \in SUBSET (Named \ {"raw"}), short \in BOOLEAN :
    /\ IF Named \ {"raw"} = reopened /\ ~short THEN UNCHANGED failures ELSE Fail
    /\ splitNow' = FALSE /\ abort' = (abort \/ short)
    /\ begun' = {underway.age} \union (IF "file" \in reopened THEN {} ELSE begun)
    /\ disturbed' = (Late \/ "file" \notin reopened)
    /\ crash' = IF reopened \subseteq open THEN crash ELSE "close"
Append1 ==
  /\ begun' = IF underway.header THEN begun \union {underway.age} ELSE begun
  /\ \/ UNCHANGED <<abort, failures>>
     \/ Fail /\ abort' = TRUE
  /\ UNCHANGED <<splitNow, crash, disturbed>>
Circulate ==
  /\ crash' = IF cb_len = 0 THEN "circular" ELSE crash
  /\ UNCHANGED <<splitNow, abort, failures, begun, disturbed>>

SplitsHere == underway.header /\ state.splitWait /\ splitNow
encoder_buffer_callback ==
  /\ "encoder_port" \in held /\ underway # NoBuffer
  /\ underway' = NoBuffer
  /\ IF cb_len # -1 THEN Circulate ELSE IF SplitsHere THEN Split ELSE Append1
  /\ UNCHANGED <<optionVars, scene, worker, gl, analysis, main, resourceVars,
                 initialCapturing, keep_running, elapsed, capturing>>

-----------------------------------------------------------------------------
(* Closing down                                                             *)

SaveCircularBuffer ==
  /\ Step("save", "stop")
  /\ crash' = IF "file" \in open THEN crash ELSE "save"
  /\ UNCHANGED <<optionVars, scene, worker, gl, analysis, failures, resourceVars,
                 runVars, streamVars>>

\* raspitex_stop, also on the way of every error: a worker that has been told
\* to stop already is not joined.
raspitex_stop ==
  /\ IF preview_stop = "no"
     THEN Step("stop", "join") /\ preview_stop' = "stop"
     ELSE Step("stop", "destroy") /\ UNCHANGED preview_stop
  /\ UNCHANGED <<optionVars, glVars, held, open, cb_len, runVars, streamVars>>
Join ==
  /\ main = "join"
  /\ \/ worker \in {"ended", "none"} /\ main' = "destroy" /\ UNCHANGED crash
     \/ worker = "none" /\ crash' = "join" /\ UNCHANGED main
  /\ UNCHANGED <<optionVars, scene, worker, gl, analysis, failures, resourceVars,
                 runVars, streamVars>>

raspitex_destroy ==
  /\ Step("destroy", "ports")
  /\ Release({"preview_pool", "preview_queue"}) /\ gl' = gl \ {"display"}
  /\ UNCHANGED <<optionVars, scene, worker, analysis, crash, failures, open,
                 preview_stop, cb_len, runVars, streamVars>>

Closing(from, to, things) ==
  /\ Step(from, to) /\ Release(things)
  /\ UNCHANGED <<optionVars, glVars, open, preview_stop, cb_len, runVars, streamVars>>

DisablePorts == Closing("ports", "connections", {"encoder_port", "splitter_port"})
DestroyConnections == Closing("connections", "close", {"connection"})
\* The files, but for stdout.
CloseFiles ==
  /\ Step("close", "destroy_encoder") /\ open' = {}
  /\ UNCHANGED <<optionVars, glVars, held, preview_stop, cb_len, runVars, streamVars>>
destroy_encoder_component ==
  Closing("destroy_encoder", "destroy_splitter", {"encoder_pool", "encoder"})
destroy_splitter_if_raw ==
  Closing("destroy_splitter", "destroy_camera",
          IF state.raw_output THEN {"splitter_pool", "splitter"} ELSE {})
destroy_splitter_component ==
  Closing("destroy_splitter", "destroy_camera", {"splitter_pool", "splitter"})
destroy_camera_component ==
  Closing("destroy_camera", "done", {"camera", "preview_port"})

-----------------------------------------------------------------------------

SetUp ==
  \/ ParseCmdline \/ raspitex_init \/ create_camera_component
  \/ create_encoder_component \/ create_splitter_component \/ ConnectPorts
  \/ OpenFiles \/ CircularBuffer \/ EnableEncoderPort \/ raspitex_start
Capture ==
  \/ SendBuffers \/ ToggleCapture \/ Announce \/ WaitNone \/ WaitForever
  \/ WaitTimed \/ OnlyPreview
CloseDown ==
  \/ SaveCircularBuffer \/ raspitex_stop \/ Join \/ raspitex_destroy
  \/ DisablePorts \/ DestroyConnections \/ CloseFiles
  \/ destroy_encoder_component \/ destroy_splitter_component
  \/ destroy_camera_component
Main == SetUp \/ Capture \/ CloseDown
User == WaitTrigger \/ KeyX

\* The stream of the preview ends, or a frame cannot be drawn.
PreviewEnds ==
  /\ worker = "loop" /\ preview_stop = "no" /\ Fail
  /\ preview_stop' = "early"
  /\ UNCHANGED <<optionVars, scene, worker, gl, analysis, crash, main, held, open,
                 cb_len, runVars, streamVars>>

\* The end of the loop, and the queue that is emptied after it.
WorkerEnds ==
  /\ preview_stop # "no"
  /\ IF "preview_queue" \in held THEN WorkerStops
     ELSE /\ worker = "loop" /\ crash' = "queue"
          /\ UNCHANGED <<scene, worker, gl, analysis, failures>>

Worker ==
  \/ PreviewEnds
  \/ /\ WorkerSetUp \/ WorkerTakeDown \/ WorkerEnds
     /\ UNCHANGED <<optionVars, recVars>>

Next ==
  /\ crash = "none"
  /\ Main \/ User \/ TimePasses \/ Encode \/ encoder_buffer_callback \/ Worker

Spec == Init /\ [][Next]_vars

-----------------------------------------------------------------------------
(* Properties                                                               *)

\* Whenever the encoder has buffers, what its callback writes to is open: the
\* file, and the files of the motion vectors and of the time stamps if it is to
\* write them (the assertions of RaspiVidBalls.c:1255; the write at 1426 has none).  "Note disabling ports may flush buffers
\* which causes problems if we have already closed the file!" (2972).
CallbackHasFiles ==
  underway # NoBuffer /\ "encoder_port" \in held =>
    /\ "file" \in open
    /\ state.inlineMotionVectors => "imv" \in open
    /\ state.save_pts => "pts" \in open

\* Nothing goes before what hangs on it: a component not before its pool, its
\* port and its connection, the pixel buffers not under a running analysis, the
\* tracker's textures not after their context, the queue and the pool of the
\* preview not under a running worker (RaspiVidBalls.c:2948-2996,
\* core.cpp:367-405, BalltrackScene.c:82, RaspiTexBalls.c:621-644); unless the
\* preview ended early, when nobody waits for its worker (RaspiTexBalls.c:684).
HangsOn ==
  {<<"encoder", "encoder_pool">>, <<"encoder", "encoder_port">>,
   <<"encoder", "connection">>, <<"camera", "connection">>,
   <<"splitter", "splitter_pool">>, <<"splitter", "splitter_port">>,
   <<"camera", "preview_port">>, <<"encoder_pool", "encoder_port">>,
   <<"context", "targets">>, <<"context", "shaders">>, <<"display", "context">>}
ReleasedInOrder ==
  [][preview_stop # "early" =>
      /\ \A p \in HangsOn :
           p[1] \in (held \union gl) \ (held' \union gl') => p[2] \notin held' \union gl'
      /\ analysis = "running" => "pixelbuffers" \in gl' \/ "pixelbuffers" \notin gl
      /\ {"preview_pool", "preview_queue"} \intersect (held \ held') # {} =>
           worker \in {"none", "ended"}]_vars

\* A run that got as far as its connection stage leaves nothing behind, whatever
\* failed on the way, but for the dispmanx element and the shared memory
\* of the GPU, which nobody gives back, and the worker of a preview that ended
\* early.
NothingLeft ==
  main = "done" =>
    /\ held = {} /\ open = {}
    /\ preview_stop # "early" =>
         worker \in {"none", "ended"} /\ gl \subseteq {"element", "vcsm"}

\* -sp: "In wait mode, create new output file for each start event"
\* (RaspiVidBalls.c:334): a file holds the beginning of one capture, unless a
\* header came after the end of its capture or the next file was not opened.
OneFilePerStart ==
  state.splitWait /\ ~disturbed => Cardinality(begun) <= 1

\* Without a failed call the recorder uses nothing that does not exist (a pool,
\* a thread, a file), but for two settings of -c: one that main refuses, whose
\* way to the error label joins a preview thread that was never started
\* (RaspiVidBalls.c:2742-2766, RaspiTexBalls.c:684), and one whose size comes to
\* no bytes (2763).
CircularRefused ==
  state.bCircularBuffer /\ (~TriggeredOnly \/ state.filename = "NULL" \/ Size < 0)
CircularEmpty == state.bCircularBuffer /\ Size = 0
CrashOnlyAfterFailure ==
  crash # "none" /\ failures = 0 =>
    \/ crash = "join" /\ CircularRefused
    \/ crash = "circular" /\ CircularEmpty
=============================================================================
