# TLA+ models of the foosball tracker

This directory models the concurrent and the stateful parts of the tracker in TLA+. TLC checks
each model on a small instance; the TLA+ proof system proves the central results for every size.
The code is the reference: every definition was translated from the lines `PROJECT.json` names
under "map". A definition without such an entry is a property, a slip that a property was tried
on, a proof or a list of variables. Paths below are relative to `src/` of the repository unless
they are of this directory; `ilclient.c` is in player/libilclient.

## The system

Two programs share one tracker. `raspiballs` (src/recorder) takes camera frames, shows and
tracks them and records H.264; `videotracker` (src/player) does the same with a video file.
`webproxy.py` (webproxy) starts and stops the recorder for a web page, passes on the goals and
has replays made of the recorded files.

| Part | Source | State it keeps | Operations | Talks to |
|---|---|---|---|---|
| Pixel buffer hand-over | tracker/core.cpp | ring of four buffers, two semaphores, two flags | init, send, analyse, term | GL thread to analysis thread |
| Texture pipeline | tracker/core.cpp | texture pointers, countdown, frame number | process one image | GL thread to GPU |
| Ball analysis | tracker/analysis.cpp | ball and speed history, signal counters | update with a ball or without | analysis thread to the FIFO |
| Field detection, overlay | tracker/analysis.cpp | bounding box of the field | process a field buffer, find the ball, draw | analysis and GL thread |
| Camera control | recorder/RaspiCamControl.c | settings, crop, place in the demo cycle | zoom keys, demo cycle, setters | main thread to the camera |
| Camera preview | recorder/RaspiTexBalls.c, BalltrackScene.c | pool, queue, buffer of the texture, stop flag | start, stop, destroy, callback, worker | camera, worker, main thread |
| Recorder set-up | recorder/RaspiVidBalls.c | options, components, connections, exit code | parse, create, connect, capture, take down | main thread to everything below it |
| Recorder output | recorder/RaspiVidBalls.c | files, segment number, circular buffer, key frames | encoder callback, save, close-down | encoder, main thread, replay script |
| Player | player/video.c, triangle.c | file position, two semaphores, one texture | read, submit, notify, draw | decoder thread, OpenMAX callback, GL thread |
| IL client library | player/libilclient | event lists and flags, port buffers, tunnels | wait, create, change state, set up tunnels and ports | decoder thread, OpenMAX callbacks |
| GL helpers | recorder/RaspiTexUtil.c, tracker/ | window, context, shaders, textures | create, destroy, draw | GL thread |
| Web proxy | webproxy.py, websocket_server.py | clients, camera process, heartbeat timer | connect, leave, broadcast, start, stop, replay, beat | a thread per connection, reader, heartbeat |

A frame goes camera -> preview queue -> GL texture -> texture pipeline -> pixel buffer ->
field and ball detection -> ball analysis -> FIFO -> web proxy -> browsers; beside it camera ->
encoder -> segment files -> replay script -> player. What makes this hard is that each arrow
crosses threads or processes:

* buffers are reused in a ring (pixel buffers), in a pool and a queue (preview), in a linked list
  (IL client) or not at all (the player's one texture), with semaphores and flags instead of locks;
* the GPU runs behind the calls, callbacks come from threads of OpenMAX and MMAL;
* a wait of the IL client takes events that belong to another call, or to an earlier one;
* set-up may fail at each of some thirty calls and jumps into the middle of the take-down;
* shutdown may begin anywhere, and a flag set for one reason is tested for another;
* files, pipes, sockets and processes go away at any time, and exceptions skip clean-up;
* counters, rings and time-outs are compared for equality or wrap in the middle of a search.

What makes each part correct:

* hand-over: no slot in two hands; every buffer analysed once, in order, with its own label and
  pixels; the GL thread is never held up for good; nothing is freed while a thread can use it;
* pipeline: a field image is finished when it is read out; a ball image belongs to recent frames, and
  should belong to one (it does not, see Disagreements); nothing is read out before it was drawn;
* field: the box never closes, whatever the picture; it comes to rest on the table after each
  zoom, and a ball on the table is found in it;
* analysis: the credit for a goal and the maximum speed do not depend on where the rings stand;
  a signal is not sent when a goal interrupts it; one disappearance is one goal;
* camera control: the demo leaves each setting it has gone through at its default, and does not touch
  what it has not reached;
* preview: the camera never fills the buffer on the screen; drawing goes on;
* recorder: everything made is released once and in order, whatever failed; the callback has its
  files; each segment can be decoded by itself; nothing is lost when files are switched; a replay
  shows the last segments in order; a circular recording begins with the oldest key frame;
* player: no notification lost, no frame shown out of order, no two threads waiting on each other;
* IL client: no event structure and no buffer is lost, no wait is forever, a result is true;
* web proxy: lines arrive once and in order; a running tracker can be stopped; a heartbeat counts.

## Modules

| Module | Models | Correspondence |
|---|---|---|
| `AnalysisQueue` | core.cpp 92-116, 220-488, 570-575 | `glPc` and `anPc` are the places of the two threads; an action ends at each semaphore operation and at each access to a buffer. `ClaimBuffer`, `CopyTexture`, `LockFails`, `PostFull` are send_buffer_to_analysis; `TakeBuffer`, `ProcessBuffer`, `PostEmpty` are the loop of analysis_thread; `CoreInit...` and `CoreTerm...` are init and term with their early returns. Pixels are the number of the send that copied them. |
| `BufferChannel` | the promise of the above | A bounded FIFO channel that can be closed: send, deliver, close. |
| `AnalysisQueueProofs` | | Inductive invariants and theorems of `AnalysisQueue`. |
| `TexturePipeline` | core.cpp 563-711 | A texture's content is the set of frames its pixels come from, so a torn image is a set of two. The GPU executes `gpuQueue` in order, at most `MaxBehind` frames late. The pointers are swapped the way `swap` does it, see below. `coreFrame` is the function's static frameNumber, which is not the one of analysis.cpp. |
| `BallAnalysis` | analysis.cpp 24-287 | One step is one call of analysis_update. A position is what the function asks about it: goal, bar, nearness. `balls`, `ballCur`, `ballSpeeds`, `sendSAVE` ... are the variables of the code; `recent`, `speedLog` keep what the rings are compared with. |
| `FieldDetection` | analysis.cpp 342-574, analysis.h 6-13 | `Detect` is the four loops over the rows and columns of the field texture, `analysis_process_field_buffer` the average with the box before, `analysis_process_ball_buffer` the search for the brightest pixels inside the box. |
| `CameraControl` | RaspiCamControl.c 222-444, 941-1176, 1454-1540 | `raspicamcontrol_zoom_in_zoom_out` and `raspicamcontrol_cycle_test`, one call a step, with the two static variables of the second. `given` is what the user asked for on the command line, from which the camera starts. |
| `CameraView` | both | The scene, the crop and the picture the detector gets of it: a zoom key changes what the detector sees while its average still stands on the earlier picture. |
| `CameraViewProofs` | | Inductive invariants and theorems of `CameraView` (field and demo) and of `BallAnalysis`. |
| `MCTracker` | | The TLC instance of `TexturePipeline`, `BallAnalysis` and `CameraView`, which share no state: `part` says which of them moves in a run. |
| `PreviewWorker` | RaspiTexBalls.c 268-712, RaspiVidBalls.c 2790-2956 | Where each buffer is: `pool`, `camera`, `preview_queue`, `hand`, `preview_buf`. The worker's loop in its steps, the callback with its three cases, the main thread's start, stop and destroy. |
| `PreviewGL` | RaspiTexUtil.c, BalltrackScene.c, core.cpp 220-405 | What the worker sets up before its loop and takes down after it, step by step; any step may fail. `gl` is what exists, `crash` the first use of something that does not. |
| `SegmentedRecording` | RaspiVidBalls.c 998-1171, 1233-1469, 2307-3013, generate-replay.sh, run-camera.sh | The encoder's stream is numbered. The callback is cut where another process can look: before the new file is opened, before the old one is closed, before the write. `tail` is what stdio holds, `disk` what the files have, `byTime` their order by modification time. `ListFiles` and `Concatenate` are the replay script. |
| `CircularRecording` | RaspiVidBalls.c 135-156, 1258-1325, 2861-2944 | The circular branch of the callback over a ring of bytes, the ring of key frame positions, and the save. `unit` numbers the stream's bytes, so order and gaps can be seen. |
| `EncoderOutput` | encoder_buffer_callback as a whole | The two modules above side by side: a recorder takes one branch for its whole life. |
| `EncoderOutputProofs` | | Inductive invariants and theorems of `EncoderOutput`: three about the segments, two about the circular buffer. |
| `RecorderOptions`, `Recorder` | RaspiVidBalls.c 375-990, 1236-2999, RaspiCommonSettings.c 132-226, RaspiTexBalls.c 420-712 | An action for each option in any order; then main as a program counter: components, connection, files, the ways to wait for the next change, and the take-down from the label the failure jumps to. `held` and `open` are what exists. The callback and the worker of `PreviewGL` run beside it. |
| `TextureProofs` | | Inductive invariants and theorems of `PreviewWorker` (no picture is overwritten while it is shown) and of `TexturePipeline`. |
| `RecorderProofs`, `ILBuffersProofs`, `WebProxyProofs` | | Inductive invariants and theorems of the modules they are named after. |
| `Player` | video.c 77-309, triangle.c 211-306 | Three program counters and the two semaphores with the values they are created with; OpenMAX is external. |
| `PlayerProofs` | | Inductive invariants and theorems of `Player` and of `PlayerPipeline`. |
| `ILEvents` | ilclient.c 69-184, 413-449, 682-693, 1127-1250, 1412-1616 | The event handler and the critical sections of the waits: `list` is each component's list, `event_list` counts the spare structures, `event` the flags. |
| `ILTunnel` | ilclient.c 295-1272, ilclient.h 240-262 | Creation, state changes, set-up, flush and tear-down of tunnels: `at` is the statement the one client thread is at, `phase` where it is in a wait. `state`, `enabled` and `commands` are OpenMAX. |
| `PlayerPipeline`, `MCPlayerPipeline` | video.c 95-309 | video_decode_test as the sequence of library calls it makes, `Program`, from the first component to the clean-up. |
| `ILBuffers` | ilclient.c 798-993, 1640-1683, video.c 188-285 | The input port of the decoder: enabling with its allocations, get, submit, the callback that hands buffers back, disabling with its loop. |
| `WebProxy`, `MCWebProxy` | webproxy.py, websocket_server.py 135-371, run-camera.sh | `pc` has the place of each thread. A step is what a thread does between two accesses to shared state; an exception is a jump to where Python takes it. `proc` follows each started process from script to tracker. |

`BufferChannel` is instantiated by `AnalysisQueue` with a refinement mapping. `Recorder` extends
`RecorderOptions` and `PreviewGL`; `CameraView` extends `FieldDetection` and `CameraControl`;
`PlayerPipeline` extends `ILTunnel`, which with `ILBuffers` extends `ILEvents`. The other MC
modules only give sets and symmetries that a .cfg cannot express.

## What each run checks

State counts are of distinct states, found by TLC on the instance of the .cfg.

* `analysis_queue` (412 347 states): initialisation may fail, each lock of the texture memory may
  fail, shutdown may begin at any time. `NoBufferRace` and `TornDownAfterThread` are the safety of
  the unlocked parts; `StaleOnlyAfterLockFailure` bounds what a failed lock does, for the code posts
  the slot all the same; `ImplementsChannel` is the refinement, with its liveness as long as nobody
  stops; `RenderingContinues` says that a wait for an empty slot ends.
* `tracker` (733 025, two minutes): three parts that share no state, one moving at a time.
  * Textures (21 908): `FieldReadoutIntact` checks the comment at core.cpp:611-613, that the wide gap
    is enough for a GPU late by several frames; `ReadoutDefined` that no read-out of either kind comes
    before there is an image. Whether a ball image is of one frame is `ball_readout`.
  * Ball (227 800): every sequence of nine found and missed balls. `PlayerByReference` compares the
    backward search over the ring with a definition over the plain history, `MaxSpeedIsRecentMax` the
    same for speeds; `SignalsNotInterrupted` and `OneGoalPerDisappearance` are about the counters.
  * Field and camera (483 317): `FieldTracksTable` says that sixteen equal pictures bring the box to
    the table, from wherever zoom or darkness had moved it, in spite of bars and noise; `BallOnTable`
    that a ball on the table is then found although something brighter lies off it; `FieldOpen` that
    the box never closes; `DemoOverrides` that the demo, started from settings that differ from the
    defaults in every name, leaves what it has gone through at its default ("This will override any
    user supplied parameters", RaspiCamControl.c:259) and the rest as it was.
* `preview_worker` (28 500): `TextureNotRefilled` and, for progress, `KeepsDrawing`.
* `encoder_output` (7.8 million, two minutes): for segments, `ReplayDecodable` holds whatever is
  switched, killed or reused while the script reads, as long as fewer files could not be opened than
  `Wrap`, a hundred in the code (see Disagreements); `ReplayInOrder` holds while the script is faster
  than the segments that -wr leaves beside the listed file names and those left out, `Wrap -
  ReplayChunks - IgnoreRecent` (with -wr 100 and 14 chunks of a quarter of a second: twenty seconds).
  It is stated for one run of the recorder: after a restart at segment 1 the files of the run before
  are listed too, and may be reused at once. It needs the script's ignore_recent_chunks: until the old
  file is closed after a switch it is modified later than the new one, and with nothing left out both
  would be listed the wrong way round. `NothingLost` is about switching. For the circular buffer,
  `IframeListTrue` compares the list of key frames with the buffer after every callback, and
  `SavedFromOldestKey` the saved file with the stream, from the oldest key frame to the newest output;
  what stands behind that in the file is `circular_save`. Both need a buffer that holds two key
  frames, as this one does (see Disagreements).
* `recorder` (5.8 million, three and a quarter minutes): every command line of up to four options,
  one step that fails anywhere; of the files of one step any may fail together.
  `CallbackHasFiles`: the callback never writes to a file that is not open.
  `ReleasedInOrder`, `NothingLeft`: the take-down, whatever label it was entered by.
  `CrashOnlyAfterFailure`: a run without failed calls never uses what does not exist, except that a
  -c which is refused (without -k or -s, an output file, a bit rate or a time, or of a negative size)
  joins a worker that was never created, and a circular buffer of zero bytes divides by its size.
  `OneFilePerStart` is the documented promise of -sp.
* `player` (33 941): `TokensConserved`, `ShowsRecent`, and `PlaysForever`.
* `player_pipeline` (446 673): `EventsConserved`: no event structure is lost, for its loss ends the
  process. `NoStuck`: no wait is forever, the case `related` exists for. `ReportsTruth`: what a call
  returns is so. `OneRefusalTolerated`: which single refusals trip an assertion.
* `il_buffers` (36 496): `BufferInOnePlace`, `NoWaitForever`, `NothingLeaked`, each with the
  exceptions the code has, see below.
* `webproxy` (1.4 million): `LinesInOrder`, `TrackerControlled`, `HeartbeatHonoured`; the second
  only as long as no two threads are in startTracking or stopTracking at once, which nothing in the
  code prevents: then a second tracker may run that no request can stop.

Three runs show a disagreement of the code with what it says of itself:

* `analysis_shutdown`: "Wait for analysis thread to finish" (core.cpp:371) waits forever when the
  thread is blocked on semFullCount, which nobody posts after the flag is set.
* `ball_readout`: the comment at core.cpp:614-620 says that the ball buffers need no gap, for two
  pairs of textures alternate. After `swap` (563) the pointers of a pair are equal, so a ball image
  already mixes two frames when the GPU is never late, from the first read-out on. With a `swap` that
  exchanges the pointers `BallReadoutIntact` holds for such a GPU (469 states).
* `circular_save`: the circular buffer is to be saved (RaspiVidBalls.c:336), but when the oldest key
  frame lies before the write position main copies past the newest output to the end of the buffer
  (2931, 2942), and then the part before the key frame: output of earlier laps follows the newest.

Each property of a passing run was also tried on a slip in the definition it is about, for example
an index that wraps one too late or a lock that is always free; the slips stand before the
definitions they replace, and `PROJECT.json` lists them under "mutants".

## Disagreements and doubts met while modelling

The models do what the code does here, and the properties name these cases as exceptions.

Tracker:

* `swap` (core.cpp:563) keeps a reference where it needs a copy: after one frame both pointers of
  a pair are the same texture. `TexturePipeline` does the same; what it does to the ball images is
  `ball_readout`, the field images do not depend on it.
* analysis.cpp:131-132 says that team 1 means a goal for red, scored by blue; the search skips the
  bars of `team`, so it credits the other side.
* analysis.cpp:199 says "at most 2 frames apart", the test at 202 is `<= 10`.
* analysis_draw reads `ballCur`, the ring and the field while the analysis thread writes them
  (analysis.cpp:285-288, 318-319, 196-226). What it draws may be a mixture; nothing depends on it.
* With a frame rate above 60 the speed window is longer than its ring and the index negative
  (analysis.cpp:265).

Camera control (RaspiCamControl.c):

* the tables of modes are read one entry past their end, for the `_max` are sizes and not last
  indices; sharpness is only cycled in the first round; colour effects are never enabled, though the
  comment says that the demo "only does stuff that should have a visual impact";
* the test of ZOOM_OUT marked "overflow" never fires, so the width exceeds the whole picture, the
  centre wraps as an unsigned and the camera refuses the crop; after zooming in fully, zooming out
  stops short of the full view until a reset; with an oblong -roi the height wraps when zooming in,
  and the height reported is the width; results of setters are ignored.

Recorder (RaspiVidBalls.c):

* the end of the stream sets the same flag as raspitex_stop (RaspiTexBalls.c:679, 684), which then
  does not wait for the worker; its pool is destroyed while it runs (2956). `preview_stop = "early"`;
* any failure before raspitex_start makes raspitex_stop join a thread that was never created; so
  does a failed raspitex_start. The exit code of a failed set-up is EX_OK;
* a failed gl_common initialisation calls balltrack_term, and so does the worker's end;
* pools that cannot be created are only logged and then used; the preview's pool is destroyed with
  its port still enabled; early failures skip raspitex_destroy; raspitex_init's result is ignored;
* a normal end may hang in the join of `analysis_shutdown`, and then the file is never closed;
* a time of less than a second with -c makes a buffer of zero bytes and a division by zero;
  `bitrate * (timeout / 1000)` overflows an int;
* a file, of whatever kind, that could not be opened is closed at the next split, if it can be opened
  then;
* with -sp a header that is under way at the pause takes the split of the next start (line 334
  promises a file for each start); with -r the splitter is never connected and the file is empty;
* `-t 0 -t 5000` runs forever; a missing last parameter is accepted; `-td` as the last argument reads
  past the vector; the effect of `-sn` and `-wr` depends on their order; abort is not tested while
  main waits for a key, a signal or in the demo;
* a replay made just after a switch of segments lacks a whole segment in its middle: the new file
  is opened before fclose writes the end of the old one (1360-1364), so for a moment the old one is
  the latest modified and is the one left out (README.md:38, generate-replay.sh:5);
* the number of a segment whose file cannot be opened is skipped while the old file goes on (1349,
  1362); were it skipped as often as there are numbers, the file that is opened, and so emptied,
  would be the one still written. The premise of `ReplayDecodable` excludes it: with two files and
  one such failure TLC shows a replay that cannot be decoded;
* the circular buffer filled exactly to its end does not set cb_wrap (144, 1322); a save after that
  writes nothing of the end. The capture stays on during a save, and the callback moves the position
  the save goes from (2931-2943), so late output is saved out of order. The zoom keys also toggle
  the capture and can trigger the save;
* the search for the oldest key frame that is not overwritten does not stop at the write position of
  the list (1303-1313): when the buffer is shorter than the way from one key frame to the next and a
  buffer more (-g large, -t small), it takes unused entries for key frames, or never ends, in the
  encoder's thread. `RoomForKeys` in `EncoderOutputProofs` is the condition; with a buffer of five
  units instead of six for two key frames TLC finds no entry to stop at.

Player:

* a file that ends with an input buffer ends the playback instead of looping (video.c:203-204, 259);
* the callback does not wait for the GL thread to finish with the texture, since semFinishedFrame
  starts at one (triangle.c:298, video.c:83).

IL client library:

* a source that refuses PortEnable takes ilclient_enable_tunnel to its error path while the sink's
  change to Idle is outstanding; that late completion satisfies a later wait for Idle, whose
  SameState answer satisfies the wait for Loaded, and ilclient_cleanup_components frees a component
  that is not Loaded (ilclient.c:602-606, 1218; ilclient.h:455-458, 497-503). The header's "the sink
  component is transitioned back to loaded" is not done;
* a wait takes any failed command of its component for its own. The refusal of port 221's PortEnable,
  which nobody waits for, fails a later wait; a refusal at both ends of a tunnel trips an assertion;
  a component that cannot be created is dereferenced as NULL;
* ilclient_wait_for_event returns -2 on a flag without looking at the list again;
* a refused last OMX_EmptyThisBuffer leaves a buffer with the client, and disabling waits for it
  forever (video.c:284-290 passes no list of such buffers); after a refused PortEnable disabling
  returns at once and the buffers are never freed (ilclient.h:558, 586; ilclient.c:868-879).

Web proxy:

* stopTracking tests camprocess and uses it in two steps; cleared between them, the exception skips
  the removal of a closed connection from `clients` (websocket_server.py:106, 147; webproxy.py:46);
* after the tracker has died by itself start requests are ignored until somebody stops it
  (webproxy.py:40). README.md:44 names a run-tracker.sh; the script is run-camera.sh.

## Bounds

* `AnalysisQueue`: four slots as in the code; `MaxSends` = 6 makes every slot be used again and the
  indices wrap at both ends. The proofs remove both bounds.
* `TexturePipeline`: the countdown is the real twenty; `MaxFrame` = 37 ends in its second round, and
  the state repeats from there. `MaxBehind` = 3 is more than the two frames the comment speaks of, and
  the most for which the properties hold; `ball_readout` needs none at all. The proofs remove the
  first two bounds.
* `BallAnalysis`: histories of three and six and windows scaled down with them, so that nine calls go
  round both rings; the arithmetic of the windows is that of the code with other constants.
  Two frame rates make a value that changes between calls visible. `MaxShots` bounds fast balls.
* `CameraView`: textures of 24 by 18 cells instead of 160 by 90 keep what the detector tells apart:
  four bars, a table off the middle, a noisy cell below and one above the threshold. `Settled` = 16
  pictures leave 0.8^16, three hundredths, of the distance to the old box, which `Tolerance`
  covers. `MaxChanges` = 2 lets a picture change while the box still moves. `Word` = 2^20
  wraps where 2^32 does: far above any crop.
  Floats are in ten-thousandths, rounded down.
* `PreviewWorker`: three buffers as in the code; `MaxLost` = 2 is all but one.
* `SegmentedRecording`: groups of two buffers, ten buffers, one fault, one restart; the fifth segment
  reuses the first file. The pool has one buffer, since the encoder calls back one at a time.
* `CircularRecording`: nine units of bytes, overwritten twice in eighteen; a key frame
  begins with two units at least (`MinKey`); the list of key frames has ten entries, so a full list is
  not confused with an empty one. One buffer is under way while main saves.
* `Recorder`: four options are enough for every pair of options that are tested together, with a
  time and a mode. The times are none, below and above a second. An int ends at 100, so that the
  product of the bit rate overflows with one of the times.
* `Player`: `Frames` = 7 tells apart all frames under way; a buffer is two units, files zero to three.
* `PlayerPipeline`: a run has the two components of one tunnel and all calls about them, for a call
  about another component changes neither. Six event structures are more than can be out at once;
  one refusal at every place it can come.
* `ILBuffers`: three buffers, so that one is with each of client, library and OpenMAX; two different
  refusals, for the worst cases need a refused command and a refused buffer.
* `WebProxy`: two connections are the smallest number with a third thread in a broadcast while one
  joins and one leaves. `HeartbeatLimit` is 2 instead of 5, `NeverBeaten` equals it instead of 1000.
  Lines, requests and processes are two each: the second is the one that may be lost or repeated.
  Connections are interchangeable (symmetry); no liveness is checked with it.

`CHECK_DEADLOCK FALSE` is set where the system ends (shutdown, end of a file, process gone) or where
a bound above stops the model. Only `player_pipeline` checks for deadlock.

## Assumptions about the outside

* OpenMAX answers every command once, in order for one port and for the state; what it allows is what
  the library's comments rely on, listed at the head of `ILTunnel` and `ILBuffers`. Going up may be
  refused, going down may not. Critical sections of the library's two locks are single steps;
  commands sent in a row are one, since OpenMAX may be late; vc_assert ends the process.
* MMAL: disabling a port waits for its callback, a destroyed component takes its ports with it, a
  buffer sent to a port comes back once. The camera refuses a crop that reaches out of the picture.
* The GPU executes in order; the encoder calls back one buffer at a time; stdio writes when its
  buffer is full and at fclose; a killed process loses that buffer.

## Fairness

Weak fairness only, and only where a run checks progress:

* `AnalysisQueue`: a thread that can go on does so (the operating system schedules it; a
  semaphore that is positive lets its only waiter through). When frames come and when the program
  ends is not fair.
* `PreviewWorker`: the worker, the camera as long as it has buffers, and the main thread's start and
  join; stopping is not fair.
* `Player`: each of the threads and the decoder hardware.

The other specifications have no fairness and only safety is checked of them; `NoStuck` and
`NoWaitForever` state what can be said of a wait without it, that something it waits for can come.

## Proofs

`AnalysisQueueProofs` proves for every `PIXELBUFFER_COUNT` and every number of sends, from
`QueueAssumption` alone:

* `Invariance`: `IInv` is an invariant. `TypeOK` and the race are not inductive by themselves: that
  the two threads never hold one slot follows from where the indices are and how many slots each
  state of the ring has. So `IInv` is the conjunction of `TypeOK`, `Lifecycle` (which places of the
  two threads go together with the flags and with freed buffers), `Accounting` (claimed, posted and
  analysed buffers against both semaphores; no more than the ring has), `Layout` (both indices are
  these counts modulo the ring) and `QueueContents` (a posted slot holds the message that was sent).
* `TypeCorrect`, `NoRace`, `TearDownIsLast`: consequences of `IInv`. `NoRace` needs that two numbers
  less than a ring apart are different slots (`WrapInjective`).
* `Refinement`: initial states and steps of `AnalysisQueue` are those of `BufferChannel` under the
  mapping `sent`, `delivered <- analysed`, `open <- analysis_stop = 0`. This is the safety part; the
  channel's fairness is checked by TLC.

The second part of the module proves `StaleBounded`, that `StaleOnlyAfterLockFailure` holds for every size
of the ring. The property only speaks of posted buffers, so its invariant `LockInv` also has
`ClaimOrder` (the k-th claimed buffer is slot `(k - 1) % PIXELBUFFER_COUNT`, a texture is not copied
before it is claimed) and `LastCopy` (a slot holds the last send copied into it). The lemmas before it
show that stepping an index round the ring is counting modulo its size, and that two sends share a
slot exactly when they are whole rounds apart.

There is one lemma for each group of actions, and under it one step for each action; the other
proof modules are built the same way.

`PlayerProofs` proves, for every file, buffer size and number of input buffers, `TokensAlways` (each
notification is answered exactly once) and from it `HandOverNeverStuck`: callback and GL thread are
never both waiting on an empty semaphore, and at most two frames are announced. `PictureNeverGoesBack`
is the action property `ShowsRecent`, from `PictureInv`: the frames begun and not yet waited for
(`Pending`) are as few as there are tokens, OpenMAX writes only when asked (`WriterInStage`), and the
frame that is read or shown is behind the one in the texture by what is pending, or by one more while
the GL thread reads (`Lag`). Frame numbers are counted modulo `Frames`, for every `Frames` from six on.

`EventsNeverLost` is `EventsConserved` of `PlayerPipeline`, for every number of event structures and of
refusals and every set of pipelines. `EventInv` is the count with the types it needs: what a step takes
out of one component's list it gives back to the spare ones or the other way round, and the list of
every other component stays. That a removal of duplicates gives back as many as it takes out is
`KeptIsShorter`, by the same induction over a fold. The count runs over four components, so the
invariant must also say that the component an event belongs to is one of them, at every statement of
the client: `ControlInv` says which arguments a statement can have (`Fits`), that commands were sent
to components (`Sent`) and that tunnels join two of them (`Joins`). It rests on `PipelineAssumption`,
that the four components are different.

`CameraViewProofs` proves `FieldAlwaysOpen`, that `FieldOpen` holds for every texture size, scene,
crop and sequence of keys. The invariant `FieldInv` is `FieldOpen` with the type of the box, without
which the average cannot be computed. The detector takes the least and the greatest of a set of
indices that is padded with the loops' start values, so the set is not empty (`LeastNumber`,
`MinOfIndices`, `MaxOfIndices`) and the first cell is not after the last (`CellsInOrder`). Scaling
to the screen keeps cells apart (`Scaled`, `ScreenApart`), the margins only widen (`SideOpen`,
`DetectOpen`), and the average of two open boxes is open although it is rounded (`SmoothOpen`).

`FieldComesToRest` says that sixteen field buffers of one picture bring every side of the box to within
`Tolerance` of what the detector finds in that picture, whatever the box was before: `RestInv` bounds
the distance after each buffer (`Distances`, four fifths of the one before and the rounding), starting
from the width of the screen, which is where `FieldOpen` is needed. It assumes `Settled` of sixteen or
more, as in the .cfg. It is the part of `FieldTracksTable` that depends on time; what is left to TLC is
that the detector sees this table in each of the pictures.

`DemoAlwaysOverrides` is `DemoOverrides` for every choice of settings by the user, from
`SettingsAssumption` (it has a value for each name), and whatever else runs between the calls.
`DemoInv` says of each place in the cycle what every setting is that is not of the parameter it is at
(`AsDue`: at its default if it was gone through, as the user gave it if not), and at which options the
cycle can be there. Since one call may pass through several parameters, `DemoSound` is this of each
intermediate record: the fourteen cases of the switch take it to a sound one (`CycleSound`,
`ColoursSound`, `OrientationSound`), for what is left behind is at its default (`PassedOn`), one after
the other (`StepsSound`).

Of `BallAnalysis` it proves, for every history, frame rate, number of calls and threshold:

* `SignalsNeverInterrupted` and `OneGoalEach`, two action properties, from `SignalInv`: a signal that is
  armed counts the frames since its shot and no goal was detected since (`SignalsArmed`), and after a
  ball in a goal the frames since are the missing ones (`MissingCounted`).
* `FastestReported`: `SpeedInv` says that the ring holds the newest entries of the log, wherever it
  stands (`RingShows`), and that the maximum was taken over the window. The search backwards wraps at
  most once because the window fits into the ring, which `AnalysisAssumption` states.
* `ScorerIsRightBar`: that the loop which looks back through the ring finds the bar the definition names.
  A fold unfolds to a recursive function over sets of turns, on which no induction theorem can be used;
  the induction is done by the least turn at which a claim fails (`UpTo`, with `LeastNumber`).
  `HitsRight` is the loop's invariant after k turns: as long as no bar has enough hits, no run of them
  among the entries seen has, and the current run is the longest that ends there (`LongestHere`). It
  needs `BarThreshold` of two or more, as the code has: it is only compared when a hit repeats.

`RecorderProofs` proves for every command line, range of int and number of failing calls that the
recorder's main takes down what it made, from whatever label: `FilesThroughout`, `EverythingGivenBack`,
`NoCrashWithoutFailure`, `OneCapturePerFile` and the action property `TakenDownInOrder`. None of them
is inductive, since what exists depends on how far main had come when it failed. So `IInv` says for
each resource at which stages of main, of the callback and of the worker it may be there
(`HeldInStage`, `FilesInStage`, `WorkerInStage`, `GLInStage`, `QueueInStage`), what must be there as
long as nothing has failed (`WithoutFailure`), and with -sp what the current file holds at each stage
of a start (`SplitInStage`). The take-down's order then follows action by action.

`ILBuffersProofs` proves `BuffersInOnePlace` for every set of buffers and every refusal: the queues
have no buffer twice (`Once`), none in common (`Apart`) and between them all that are allocated
(`Somewhere`). `NoBufferLeaks` needs the event list of the library too, for the client leaves its loop
on an event: `LeakInv` says that an answer is queued at most once and never while its command is
pending (`AnsweredOnce`, so the handler finds no duplicate to drop), at which statements it can be
there (`AnswerInStage`), and that after `PortDisable` is done nothing is allocated (`FreedInStage`).

`WebProxyProofs` proves, for every number of connections, requests, lines and processes:
`NoHeartbeatLost`, from who holds heartbeatLock where (`LockHeld`) and what the timer thread has read
under it (`SeenTimer`); `TrackerAlwaysControlled`, from at most one thread between the test and the
use of camprocess (`OneInTracking`) and no process alive where one is about to be started
(`NothingToStop`); `LinesAlwaysInOrder`. For the last, the reader walks along a list that changes under
it: `LinesInv` says that no connection is in it twice, that those who have the line in hand are not
met again in the walk (`NotTwice`, `InHand`), and that what is in the pipe is later than what was sent
(`PipeInOrder`, `NothingNewer`).

`TextureProofs` proves `NeverRefilledWhileShown` for every set of buffers. `PreviewInv` says in
which hand or queue each buffer is (`PlacesApart`, `HandInUse`) and that the texture refers to the
kept buffer, or to the one about to be returned (`TextureHeld`).

It also proves `FieldNeverTorn`, `ReadoutAlwaysDefined` and `BallAlwaysRecent` for every update
interval of the field, every number of frames and a GPU at most three frames late (`GpuKeepsUp`). That
bound is exact: with four TLC finds both properties violated, for the field's gap and the frames
before the first ball buffer are of the same width. `FieldInv` says from which frame the field
textures come at each step of the countdown, that passes of theirs are queued only between its step 5
and the read-out, and in their order (`FieldPassesInOrder`), and what is there once they are done
(`FieldComplete`). `BallInv` says that after each queued ball pass the next frame's is queued too, and
that a frame is filtered before it is downsampled (`BallPassesInOrder`); that whatever a ball texture
shows, its next frame is still to come (`UpToDate`); and hence, from the begin of a call on, how old
it can be (`BallFramesRecent`). The pointers of a pair read 0 throughout, as `swap` leaves them.

`EncoderOutputProofs` proves for every number of files, chunks and restarts, and every length of a
group and of the stream: `ReplayAlwaysDecodable`, from `DecodeInv`: each file, the file in hand with
stdio's part, and the replay can be decoded, the next buffer fits the end of the file in hand
(`FilesDecodable`), a switch is at a header (`AtHeader`), and the segment number is ahead of the file
in hand by one at most for each failed open (`BehindNumber`), so that the file which is emptied is not
the one that is written. A file may be cut off anywhere when it is read, for a beginning can
be decoded too, and a file put after another begins with a header. `NoBufferLost`, from `KeptInv`: in
the first run without a fault a segment is the older the further behind the current one its number is
(`Age`), older segments have older buffers (`OldestFirst`), each buffer's successor is there or is
the next to come (`NextKept`); the file that is emptied is the oldest. `ReplayAlwaysInOrder`, from
`OrderInv`, which is `FilesInv` and `ListInv` on top of `DecodeInv`. `FilesInv`: the files by time of
modification are each listed once and in the order of the stream (`InOrder`), what stdio holds is
later than all of them (`TailLast`); only during a switch may the file in hand have another place
than the last (`LatestFile`, `Switching`, `Fresh`), and how far back a file's time is, so far back is
its number, but for failed opens (`Numbers`). `ListInv`: what the script has still to read follows
what it has read, only the last listed file may be the one in hand, and none is emptied before it is
read, for its number is less than a round back. That a file which goes on growing after it was
listed still fits before the next one is where `IgnoreRecent > 0` is used.

For the circular buffer it proves `KeyFramesListed` and `SaveBeginsWithKey` for every size of buffer,
list, frames and output buffers, if `RoomForKeys`: the way from the begin of a key frame to the end of
the next one's first output buffer fits into the buffer, and the list has room for the key frames that
fit into it, each with `KeyFrameBuffers` entries for at least `MinKey` bytes, the least that the first
part of a key frame has. With `cb_len` in bytes, the code's 60 000 entries and the 10 625 000 bytes of
its default bit rate and time satisfy it for key frames of four parts that begin with 709 bytes or
more, or of one part that has 178. If an encoder sent so many and so small key frames that the list
came full, it would be taken for an empty one; nothing in the code excludes it. `RingInv` says which
unit of the stream each position has (`RingOf`), by how far the position is ahead of the write
pointer; that the entries from the read to the write position are where key frames begin, in the order
of the stream, with none missing, and that the entries from each on took up as much of the buffer as
whole key frames do, so that the list never comes full (`ListOf`); and how far back the newest key
frame can be at each place in the frames (`FrameOf`). From this the search ends at an entry still in
use (`SearchEnds`, `ListPush`). `SaveInv` says that what main copies is what it chose, as long as no
output came between.

Only model-checked:

* every liveness property and everything with ENABLED, which are out of the prover's reach:
  `RenderingContinues`, `KeepsDrawing`, `PlaysForever`, `NoStuck`, `NoWaitForever`, and the fairness
  part of the refinement `ImplementsChannel`;
* `ReportsTruth` and `OneRefusalTolerated` of `PlayerPipeline`: an invariant for them would say for each
  statement of the library which commands and answers are still under way and which events may be
  queued from earlier calls, for all calls of the program before it. `ReportsTruth` was also run with
  up to three refusals on one tunnel and two on decoder, scheduler and renderer together, without a
  violation;
* `FieldTracksTable` and `BallOnTable`, which say that the detector finds this table, with these bars
  and this noise, in every picture the zoom makes of it. They are sums over all cells of particular
  pictures and false of others; `FieldComesToRest` is the general part.

## Not modelled

* What shaders compute: functions of pixels. They are passes over whole textures here.
* analysis_draw, and drawing in general: nothing reads what it writes.
* OpenMAX, MMAL, the GPU, the encoder, stdio and the file system are external: modelled by what the
  code relies on, nothing else.
* The hand-shake and framing of the web socket: a message is a whole one.
* Motion vector, time stamp and raw files are opened, switched and closed in `Recorder`; their contents
  and network outputs are left out: they follow the pattern of the main file.
* SIGINT, whose handler exits at once without any take-down; options that are only values for the
  firmware; the frame capture of the preview, which nothing calls.
* Output buffers, streams and callbacks of the IL client that the player does not use; ilcore.c only
  forwards. The pointers of the buffer list (pAppPrivate) are a sequence, which hides what two ports
  on one list could do: the player has one such port.
* Setters and option tables of RaspiCamControl.c: one value each, passed on.
* Shader and texture helpers, and screenshots: calls into the graphics library with an error return.
* RaspiBalls.c, an older copy of RaspiVidBalls.c that is not built, the script that restarts the
  player, and the notebook.

## Plan

Done, in this order: the hand-over with its abstract specification and proofs, the texture pipeline,
the analysis, the web proxy, the preview, the player with its proof, segments and replay, the IL
client with the player's pipeline, the circular buffer, the recorder's main, field and camera.

Next:

1. Proof of `ReportsTruth`, from the commands and events outstanding at each statement of `ILTunnel`.
2. An abstract specification of the event lists, a bag from which a wait takes what it asked for, and
   the conditions under which the library implements it: a failed command of another call breaks it.
3. Both tunnels of the scheduler in one instance of `PlayerPipeline`, whose events share a list.
