---------------------------- MODULE RecorderProofs ----------------------------
(***************************************************************************)
(* The recorder's main, its encoder callback and its preview worker, for   *)
(* every number of failing calls, every command line and every range of    *)
(* int: what exists at each stage of main, and what follows from it.       *)
(***************************************************************************)
EXTENDS Recorder, FiniteSetTheorems, TLAPS

\* Variable tuples and the abbreviations the actions are written with.
USE DEF optionVars, glVars, runVars, streamVars, resourceVars, recVars, vars,
        Step, Acquire, Release, Unchanged

-----------------------------------------------------------------------------
(* What there is at each stage of main                                      *)

\* After main has disabled the ports, after raspitex_destroy, after the join.
AfterPorts == {"connections", "close", "destroy_encoder", "destroy_splitter",
               "destroy_camera", "done"}
AfterDestroy == {"ports"} \union AfterPorts
AfterJoin == {"destroy"} \union AfterDestroy

\* The encoder's port is enabled, if at all, from its own stage to "ports".
InCapture == {"demo", "sleep", "send", "toggle", "announce", "wait", "save"}
PortStages == {"start"} \union InCapture \union {"stop", "join", "destroy", "ports"}

Things == {"camera", "preview_pool", "preview_queue", "preview_port", "encoder",
           "encoder_pool", "splitter", "splitter_pool", "connection",
           "splitter_port", "encoder_port"}

Status ==
  [timeout : Int, waitMethod : {"none", "forever", "timed", "keypress", "signal"},
   demoMode : BOOLEAN, bCapturing : BOOLEAN, splitWait : BOOLEAN,
   bCircularBuffer : BOOLEAN, bitrate : Nat, filename : {"NULL", "name"},
   imv_filename : {"NULL", "-", "name"}, inlineMotionVectors : BOOLEAN,
   pts_filename : {"NULL", "name"}, save_pts : BOOLEAN, raw_output : BOOLEAN]

\* What is there, and what the callback has seen.
ResourcesOK ==
  /\ held \subseteq Things /\ open \subseteq {"file", "imv", "pts", "raw"}
  /\ failures \in Nat
StreamOK ==
  /\ underway \in [age : -1 .. 2, header : BOOLEAN]
  /\ underway.age = -1 => underway = NoBuffer
  /\ begun \subseteq 0 .. 2
TypeOK == state \in Status /\ ResourcesOK /\ StreamOK

\* No component is there before its stage or after it.
HeldInStage ==
  /\ main \in {"options", "init", "camera"} => held = {}
  /\ "encoder_port" \in held => main \in PortStages
  /\ "splitter_port" \in held => main \in {"circular", "encoder_port"} \union PortStages
  /\ "connection" \in held =>
       main \in {"files", "circular", "encoder_port", "connections"} \union PortStages
  /\ main \in AfterDestroy => held \intersect {"preview_pool", "preview_queue"} = {}
  /\ main \in {"destroy_splitter", "destroy_camera", "done"} =>
       held \intersect {"encoder", "encoder_pool"} = {}
  /\ main \in {"destroy_camera", "done"} =>
       held \intersect {"splitter", "splitter_pool"} = {}
  /\ main = "done" => held \intersect {"camera", "preview_port"} = {}

\* The files are open from their stage to "close", those that the callback is
\* to write among them.
FilesOpened == main \in {"circular", "encoder_port"} \/ "encoder_port" \in held
FilesInStage ==
  /\ main \in {"options", "init", "camera", "encoder", "splitter", "connect", "files",
              "destroy_encoder", "destroy_splitter", "destroy_camera", "done"} =>
       open = {}
  /\ FilesOpened /\ state.inlineMotionVectors => "imv" \in open
  /\ FilesOpened /\ state.save_pts => "pts" \in open
  /\ main \in {"encoder_port", "start"} \union InCapture /\ state.bCircularBuffer =>
       "file" \in open
  /\ main = "save" => state.bCircularBuffer
  /\ "raw" \in open => state.raw_output
  /\ underway # NoBuffer => "encoder_port" \in held \/ main \in AfterPorts
  /\ underway # NoBuffer /\ "encoder_port" \in held => "file" \in open

\* The circular buffer has the size main has given it.
CircularInStage ==
  cb_len # -1 =>
    /\ main \notin {"options", "init", "camera", "encoder", "splitter", "connect",
                    "files", "circular"}
    /\ state.bCircularBuffer /\ cb_len = Size

\* The worker runs from raspitex_start on; a preview that has not ended early
\* is waited for before anything it uses goes.
WorkerInStage ==
  /\ worker # "none" => main \in InCapture \union {"stop", "join"} \union AfterJoin
  /\ main \in InCapture => worker # "none"
  /\ preview_stop \in {"no", "early", "stop"}
  /\ preview_stop = "no" => main \notin {"join"} \union AfterJoin
  /\ preview_stop = "stop" => main \in {"join"} \union AfterJoin
  /\ preview_stop # "early" /\ main \in AfterJoin => worker \in {"none", "ended"}
  /\ preview_stop # "early" /\ main \in AfterDestroy => "display" \notin gl

\* What of the display and the tracker exists at each stage of the worker.
GLThings == {"display", "element"} \union ToSet(Egl) \union {"textures"} \union ToSet(Tracker)
GLInStage ==
  /\ gl \subseteq GLThings
  /\ worker = "none" => gl = {} /\ analysis = "none"
  /\ scene # "balltrack" => gl \intersect TrackerThings = {} /\ worker # "core"
  /\ worker \in {"glTerm", "glTermAtOnce", "ended"} => gl \intersect TrackerThings = {}
  /\ worker = "ended" => gl \intersect EglThings = {}

\* As long as no call has failed, everything the recorder uses is there.
WithoutFailure ==
  failures = 0 =>
    /\ preview_stop # "early"
    /\ main \in {"splitter", "connect", "files", "circular", "encoder_port"}
              \union PortStages => "encoder_pool" \in held
    /\ main \in {"connect", "files", "circular", "encoder_port"} \union PortStages
         /\ state.raw_output => "splitter_pool" \in held
    /\ FilesOpened =>
         /\ state.filename # "NULL" => "file" \in open
         /\ state.imv_filename # "NULL" => "imv" \in open
         /\ state.pts_filename # "NULL" => "pts" \in open
    /\ worker = "none" /\ main \in {"stop", "join"} => CircularRefused
    /\ worker \notin {"termAtOnce", "glTermAtOnce"}
    /\ worker \in {"loop", "term"} /\ scene = "balltrack" => analysis # "none"
QueueInStage ==
  main \in {"encoder", "splitter", "connect", "files", "circular", "encoder_port",
           "destroy"} \union (PortStages \ {"ports"}) => "preview_queue" \in held

\* With -sp, what the current file holds: nothing before the first capture,
\* the header of the present capture until a pause asks for the next file, and
\* then one header, whatever comes after.
Captured == {"toggle", "announce", "wait", "save", "stop", "join"} \union AfterJoin
SplitInStage ==
  /\ capturing \in BOOLEAN /\ initialCapturing \in BOOLEAN
  /\ splitNow \in BOOLEAN /\ disturbed \in BOOLEAN
  /\ main \notin Captured =>
       begun = {} /\ underway = NoBuffer /\ ~capturing /\ ~splitNow
  /\ main \in {"announce", "wait"} => capturing = state.bCapturing
  /\ main = "toggle" /\ capturing => state.bCapturing
  /\ state.splitWait /\ initialCapturing =>
       /\ begun = {} /\ underway = NoBuffer /\ ~capturing /\ main # "wait"
       /\ main = "toggle" => state.bCapturing
  /\ state.splitWait /\ ~disturbed /\ ~splitNow =>
       /\ begun \subseteq {0} /\ underway.age <= 0
       /\ ~capturing /\ main \in {"toggle", "wait"} => begun = {} /\ underway = NoBuffer
  /\ state.splitWait /\ ~disturbed => \E a \in 0 .. 2 : begun \subseteq {a}

\* What a sequence of calls leaves when it stops is some of what it makes.
LEMMA PartialSubset ==
  ASSUME NEW S, NEW calls \in Seq(S), NEW done \in Partial(calls)
  PROVE  done \subseteq ToSet(calls)
<1>1. PICK k \in 1 .. Len(calls) : done = ToSet(SubSeq(calls, 1, k - 1))
  BY DEF Partial
<1>2. ASSUME NEW x \in done PROVE x \in ToSet(calls)
  <2>1. PICK i \in 1 .. k - 1 : x = SubSeq(calls, 1, k - 1)[i]
    BY <1>1, <1>2 DEF ToSet
  <2>2. x = calls[i] /\ i \in DOMAIN calls
    BY <2>1
  <2>3. QED
    BY <2>2 DEF ToSet
<1>3. QED
  BY <1>2

\* The preview port's three calls.
LEMMA PreviewThings ==
  /\ ToSet(Preview) = {"preview_pool", "preview_queue", "preview_port"}
  /\ \A left \in ConfigureFailed :
       left \subseteq {"preview_pool", "preview_queue", "preview_port"}
<1>1. ToSet(Preview) = {"preview_pool", "preview_queue", "preview_port"}
  BY DEF ToSet, Preview
<1>2. Preview \in Seq(Things)
  BY DEF Preview, Things
<1>3. QED
  BY <1>1, <1>2, PartialSubset DEF ConfigureFailed

-----------------------------------------------------------------------------
(* Types                                                                    *)

\* Every option leaves a command line's worth of settings.
LEMMA OptionsKeepStatus ==
  ASSUME state \in Status, parse_cmdline
  PROVE  state' \in Status
<1>1. ASSUME NEW t \in Int, NEW m \in {"none", "forever", "timed", "keypress", "signal"}
      PROVE  [state EXCEPT !.timeout = t, !.waitMethod = m] \in Status
  <2> DEFINE s1 == [state EXCEPT !.timeout = t]
  <2>1. s1 \in Status
    BY DEF Status
  <2> HIDE DEF s1
  <2>2. [s1 EXCEPT !.waitMethod = m] \in Status
    BY <2>1 DEF Status
  <2>3. QED
    BY <2>2, Zenon DEF s1
<1>2. ASSUME NEW m \in {"none", "forever", "timed", "keypress", "signal"}, NEW t \in Int
      PROVE  [state EXCEPT !.waitMethod = m, !.timeout = t] \in Status
  <2> DEFINE s1 == [state EXCEPT !.waitMethod = m]
  <2>1. s1 \in Status
    BY DEF Status
  <2> HIDE DEF s1
  <2>2. [s1 EXCEPT !.timeout = t] \in Status
    BY <2>1 DEF Status
  <2>3. QED
    BY <2>2, Zenon DEF s1
<1>3. ASSUME NEW b \in {0, Bitrate}, state' = [state EXCEPT !.bitrate = b]
      PROVE  state' \in Status
  BY <1>3, OptionsAssumption DEF Status
<1>4. ASSUME NEW f \in {"-", "name"},
             state' = [state EXCEPT !.imv_filename = f, !.inlineMotionVectors = TRUE]
      PROVE  state' \in Status
  BY <1>4 DEF Status
<1>5. /\ [state EXCEPT !.demoMode = TRUE] \in Status
      /\ [state EXCEPT !.splitWait = TRUE] \in Status
      /\ [state EXCEPT !.bCircularBuffer = TRUE] \in Status
      /\ [state EXCEPT !.filename = "name"] \in Status
      /\ [state EXCEPT !.raw_output = TRUE] \in Status
      /\ [state EXCEPT !.pts_filename = "name", !.save_pts = TRUE] \in Status
      /\ \A b \in BOOLEAN : [state EXCEPT !.bCapturing = b] \in Status
  BY DEF Status
<1>6. [state EXCEPT !.timeout = IF @ = -1 THEN 5000 ELSE @] \in Status
  BY DEF Status
<1>7. QED
  <2>1. CASE CommandTimeout
    <3>1. PICK t \in Timeouts :
            state' = [state EXCEPT !.timeout = t,
                                   !.waitMethod = MethodFor(t, state.waitMethod)]
      BY <2>1, Zenon DEF CommandTimeout, Option
    <3>2. /\ t \in Int
          /\ MethodFor(t, state.waitMethod) \in
               {"none", "forever", "timed", "keypress", "signal"}
      BY OptionsAssumption DEF MethodFor, Status
    <3>3. QED
      BY <3>1, <3>2, <1>1, Zenon
  <2>2. CASE CommandWait
    <3>1. PICK m \in {"timed", "keypress", "signal"} :
            state' = [state EXCEPT !.waitMethod = m, !.timeout = Unlimited]
      BY <2>2, Zenon DEF CommandWait, Option
    <3>2. Unlimited \in Int
      BY DEF Unlimited, Status
    <3>3. QED
      BY <3>1, <3>2, <1>2, Zenon
  <2>3. CASE CommandBitrate \/ CommandIMV
    BY <2>3, <1>3, <1>4 DEF CommandBitrate, CommandIMV, Option
  <2>4. CASE CommandDemoMode \/ CommandInitialState \/ CommandSplitWait
             \/ CommandCircular \/ CommandOutput \/ CommandRaw \/ CommandSavePTS
    BY <2>4, <1>5 DEF CommandDemoMode, CommandInitialState, CommandSplitWait,
                      CommandCircular, CommandOutput, CommandRaw, CommandSavePTS,
                      Option
  <2>5. CASE Invalid \/ parse_ends
    BY <2>5, <1>6 DEF Invalid, parse_ends
  <2>6. QED
    BY <2>1, <2>2, <2>3, <2>4, <2>5 DEF parse_cmdline

\* The types hold at first.
LEMMA TypeInit == Init => TypeOK
BY OptionsAssumption DEF Init, OptionsInit, GLInit, default_status, TypeOK, Status,
   NoBuffer, ResourcesOK, StreamOK

\* The capture leaves what has been set up alone.
LEMMA CaptureApart ==
  ASSUME Capture \/ User
  PROVE  /\ UNCHANGED <<held, open, cb_len, preview_stop, failures>>
         /\ UNCHANGED <<scene, worker, gl, analysis>>
         /\ main \in InCapture /\ main' \in InCapture \union {"stop"}
<1>1. Finish \in {"save", "stop"}
  BY DEF Finish
<1>2. UNCHANGED <<held, open, cb_len, preview_stop, failures, scene, worker, gl, analysis>>
  BY DEF Capture, SendBuffers, Announce, WaitNone, WaitForever, WaitTimed,
         ToggleCapture, OnlyPreview, User, WaitTrigger, KeyX, Waited
<1>3. main \in InCapture /\ main' \in InCapture \union {"stop"}
  BY <1>1 DEF Capture, SendBuffers, Announce, WaitNone, WaitForever, WaitTimed,
              ToggleCapture, OnlyPreview, User, WaitTrigger, KeyX, Waited,
              KeepRunning, InCapture
<1>4. QED
  BY <1>2, <1>3

\* Closing down only gives back.
LEMMA ClosingApart ==
  ASSUME CloseDown
  PROVE  /\ held' \subseteq held /\ open' \subseteq open
         /\ UNCHANGED <<state, streamVars, runVars, failures, scene, worker, analysis>>
         /\ preview_stop' \in {preview_stop, "stop"}
         /\ main \in {"save", "stop", "join"} \union AfterJoin
         /\ main' \in {"stop", "join"} \union AfterJoin
<1> USE DEF CloseDown, SaveCircularBuffer, raspitex_stop, Join, raspitex_destroy,
            DisablePorts, DestroyConnections, CloseFiles, Closing,
            destroy_encoder_component, destroy_splitter_component,
            destroy_camera_component, AfterJoin, AfterDestroy, AfterPorts
<1>1. held' \subseteq held /\ open' \subseteq open
  OBVIOUS
<1>2. /\ UNCHANGED <<state, streamVars, runVars, failures, scene, worker, analysis>>
      /\ preview_stop' \in {preview_stop, "stop"}
  OBVIOUS
<1>3. /\ main \in {"save", "stop", "join"} \union AfterJoin
      /\ main' \in {"stop", "join"} \union AfterJoin
  OBVIOUS
<1>4. QED
  BY <1>1, <1>2, <1>3

\* The settings change on the command line, when a file is not opened and when
\* the capture is switched.
LEMMA StateSettled ==
  ASSUME Next PROVE ParseCmdline \/ OpenFiles \/ ToggleCapture \/ UNCHANGED state
<1>1. ASSUME SetUp PROVE ParseCmdline \/ OpenFiles \/ UNCHANGED state
  BY <1>1 DEF SetUp, raspitex_init, create_camera_component, create_encoder_component,
              create_splitter_component, ConnectPorts, CircularBuffer,
              EnableEncoderPort, raspitex_start
<1>2. ASSUME Capture \/ User PROVE ToggleCapture \/ UNCHANGED state
  BY <1>2 DEF Capture, SendBuffers, Announce, WaitNone, WaitForever, WaitTimed,
              OnlyPreview, User, WaitTrigger, KeyX, Waited
<1>3. ASSUME CloseDown PROVE UNCHANGED state
  BY <1>3, ClosingApart
<1>4. ASSUME TimePasses \/ Encode \/ encoder_buffer_callback \/ Worker
      PROVE  UNCHANGED state
  BY <1>4 DEF TimePasses, Encode, encoder_buffer_callback, Worker, PreviewEnds
<1>5. QED
  BY <1>1, <1>2, <1>3, <1>4 DEF Next, Main

\* The capture and what the callback does with it.
LEMMA StreamSettled ==
  ASSUME Next
  PROVE  ToggleCapture \/ Encode \/ encoder_buffer_callback \/ UNCHANGED streamVars
<1>1. ASSUME SetUp PROVE UNCHANGED streamVars
  BY <1>1 DEF SetUp, ParseCmdline, raspitex_init, create_camera_component,
              create_encoder_component, create_splitter_component, ConnectPorts,
              OpenFiles, CircularBuffer, EnableEncoderPort, raspitex_start
<1>2. ASSUME Capture \/ User PROVE ToggleCapture \/ UNCHANGED streamVars
  BY <1>2 DEF Capture, SendBuffers, Announce, WaitNone, WaitForever, WaitTimed,
              OnlyPreview, User, WaitTrigger, KeyX, Waited
<1>3. ASSUME CloseDown PROVE UNCHANGED streamVars
  BY <1>3, ClosingApart
<1>4. ASSUME TimePasses \/ Worker PROVE UNCHANGED streamVars
  BY <1>4 DEF TimePasses, Worker, PreviewEnds
<1>5. QED
  BY <1>1, <1>2, <1>3, <1>4 DEF Next, Main

\* The callback, the worker and the time change none of main's own.
LEMMA OthersApart ==
  ASSUME TimePasses \/ Encode \/ encoder_buffer_callback \/ Worker
  PROVE  UNCHANGED <<main, held, open, cb_len, state>>
BY DEF TimePasses, Encode, encoder_buffer_callback, Worker, PreviewEnds

\* What a split does, whichever of the next files could be opened.
LEMMA SplitFacts ==
  ASSUME Split
  PROVE  /\ splitNow' = FALSE /\ (UNCHANGED failures \/ Fail)
         /\ begun' \in {{underway.age}, begun \union {underway.age}}
         /\ disturbed' = TRUE \/ (begun' = {underway.age} /\ disturbed' = Late)
         /\ \E reopened \in SUBSET (Named \ {"raw"}) :
              crash' = IF reopened \subseteq open THEN crash ELSE "close"
<1>1. PICK reopened \in SUBSET (Named \ {"raw"}), short \in BOOLEAN :
        /\ IF Named \ {"raw"} = reopened /\ ~short THEN UNCHANGED failures ELSE Fail
        /\ splitNow' = FALSE
        /\ begun' = {underway.age} \union (IF "file" \in reopened THEN {} ELSE begun)
        /\ disturbed' = (Late \/ "file" \notin reopened)
        /\ crash' = IF reopened \subseteq open THEN crash ELSE "close"
  BY Zenon DEF Split
<1>2. UNCHANGED failures \/ Fail
  BY <1>1
<1>3. CASE "file" \in reopened
  <2>1. begun' = {underway.age} /\ disturbed' = Late
    BY <1>1, <1>3 DEF Late
  <2>2. QED
    BY <1>1, <1>2, <2>1, Zenon
<1>4. CASE "file" \notin reopened
  <2>1. begun' = begun \union {underway.age} /\ disturbed' = TRUE
    BY <1>1, <1>4
  <2>2. QED
    BY <1>1, <1>2, <2>1, Zenon
<1>5. QED
  BY <1>3, <1>4

\* No step breaks the types.
LEMMA TypeStep == TypeOK /\ [Next]_vars => TypeOK'
<1> SUFFICES ASSUME TypeOK, [Next]_vars PROVE TypeOK'
  OBVIOUS
<1> USE DEF TypeOK
<1>1. state' \in Status
  <2>1. CASE ParseCmdline
    BY <2>1, OptionsKeepStatus DEF ParseCmdline
  <2>2. CASE OpenFiles
    <3>1. ASSUME NEW o PROVE OptionsLeft(o) \in Status
      BY DEF OptionsLeft, Status
    <3>2. QED
      BY <2>2, <3>1 DEF OpenFiles
  <2>3. CASE ToggleCapture
    BY <2>3 DEF ToggleCapture, Status
  <2>4. QED
    BY <2>1, <2>2, <2>3, StateSettled
<1>2. StreamOK'
  <2>1. CASE ToggleCapture
    BY <2>1 DEF ToggleCapture, StreamOK, NoBuffer, Older
  <2>2. CASE Encode
    BY <2>2 DEF Encode, StreamOK, NoBuffer
  <2>3. CASE encoder_buffer_callback
    <3>1. underway' = NoBuffer /\ underway # NoBuffer
      BY <2>3 DEF encoder_buffer_callback
    <3>2. underway.age \in 0 .. 2
      BY <3>1 DEF StreamOK
    <3>3. begun' \in {begun, {underway.age}, begun \union {underway.age}}
      BY <2>3, SplitFacts DEF encoder_buffer_callback, Circulate, Append1
    <3>4. QED
      BY <3>1, <3>2, <3>3 DEF StreamOK, NoBuffer
  <2>4. QED
    BY <2>1, <2>2, <2>3, StreamSettled DEF StreamOK
<1>3. ResourcesOK'
  <2> USE DEF ResourcesOK, Fail
  <2>1. CASE ParseCmdline \/ raspitex_init \/ CircularBuffer \/ raspitex_start
    BY <2>1 DEF ParseCmdline, raspitex_init, CircularBuffer, raspitex_start
  <2>2. CASE create_camera_component
    <3>1. held' \ held \subseteq {"camera"} \union ToSet(Preview) /\ UNCHANGED open
      BY <2>2, PreviewThings, Zenon DEF create_camera_component
    <3>2. failures' \in Nat
      BY <2>2 DEF create_camera_component
    <3>3. QED
      BY <3>1, <3>2, PreviewThings DEF Things
  <2>3. CASE create_encoder_component \/ create_splitter_component \/ ConnectPorts
             \/ EnableEncoderPort
    <3>1. held' \ held \subseteq {"encoder", "encoder_pool", "splitter", "splitter_pool",
                                "connection", "encoder_port"}
          /\ UNCHANGED open
      BY <2>3 DEF create_encoder_component, create_splitter_component, ConnectPorts,
                  EnableEncoderPort
    <3>2. failures' \in Nat
      BY <2>3 DEF create_encoder_component, create_splitter_component, ConnectPorts,
                  EnableEncoderPort
    <3>3. QED
      BY <3>1, <3>2 DEF Things
  <2>4. CASE OpenFiles
    <3>1. open' \subseteq open \union Wanted /\ held' \subseteq held \union {"splitter_port"}
      BY <2>4 DEF OpenFiles
    <3>2. failures' \in Nat
      BY <2>4 DEF OpenFiles
    <3>3. Wanted \subseteq {"file", "imv", "pts", "raw"}
      BY DEF Wanted
    <3>4. QED
      BY <3>1, <3>2, <3>3 DEF Things
  <2>5. CASE Capture \/ User
    BY <2>5, CaptureApart
  <2>6. CASE CloseDown
    BY <2>6, ClosingApart
  <2>10. CASE encoder_buffer_callback
    <3>1. Split => UNCHANGED failures \/ Fail
      BY SplitFacts, Zenon
    <3>2. failures' \in Nat
      BY <2>10, <3>1 DEF encoder_buffer_callback, Circulate, Append1
    <3>3. QED
      BY <2>10, <3>2, OthersApart
  <2>7. CASE TimePasses \/ Encode \/ Worker
    <3>1. failures' \in Nat
      BY <2>7 DEF TimePasses, Encode, Worker, PreviewEnds, WorkerEnds, WorkerStops,
                  WorkerSetUp, create_native_window, raspitexutil_gl_common,
                  balltrack_core_init, WorkerTakeDown, StopAnalysis,
                  JoinNoAnalysis, CoreTerm, GlTerm
    <3>2. QED
      BY <2>7, <3>1, OthersApart
  <2>8. CASE UNCHANGED vars
    BY <2>8
  <2>9. QED
    BY <2>1, <2>2, <2>3, <2>4, <2>5, <2>6, <2>7, <2>8, <2>10 DEF Next, Main, SetUp
<1>4. QED
  BY <1>1, <1>2, <1>3

-----------------------------------------------------------------------------
(* Nothing is there before its stage or after it                            *)

\* A component is only there from its stage on, and not after it.
LEMMA HeldStep == TypeOK /\ HeldInStage /\ [Next]_vars => HeldInStage'
<1> SUFFICES ASSUME TypeOK, HeldInStage, [Next]_vars PROVE HeldInStage'
  OBVIOUS
<1> USE DEF HeldInStage, AfterDestroy, AfterPorts, PortStages, InCapture
<1>1. CASE ParseCmdline \/ raspitex_init
  BY <1>1 DEF ParseCmdline, raspitex_init
<1>2. CASE create_camera_component
  <2>1. main = "camera" /\ held = {} /\ main' \in {"encoder", "exit"}
    BY <1>2 DEF create_camera_component
  <2>2. held' \subseteq {"camera"} \union ToSet(Preview)
    BY <1>2, <2>1, PreviewThings, Zenon DEF create_camera_component
  <2>3. QED
    BY <2>1, <2>2, PreviewThings
<1>3. CASE create_encoder_component \/ create_splitter_component
  BY <1>3 DEF create_encoder_component, create_splitter_component
<1>4. CASE ConnectPorts
  BY <1>4 DEF ConnectPorts
<1>5. CASE OpenFiles
  <2>1. main = "files" /\ main' \in {"circular", "stop"}
        /\ \/ held' = held
           \/ main' = "circular" /\ held' = held \union {"splitter_port"}
    BY <1>5 DEF OpenFiles
  <2>2. QED
    BY <2>1
<1>6. CASE CircularBuffer \/ EnableEncoderPort \/ raspitex_start
  BY <1>6 DEF CircularBuffer, EnableEncoderPort, raspitex_start
<1>7. CASE Capture \/ User
  BY <1>7, CaptureApart
<1>8. CASE SaveCircularBuffer \/ raspitex_stop \/ Join \/ raspitex_destroy
  BY <1>8 DEF SaveCircularBuffer, raspitex_stop, Join, raspitex_destroy
<1>9. CASE DisablePorts \/ DestroyConnections \/ CloseFiles
  BY <1>9 DEF DisablePorts, DestroyConnections, CloseFiles, Closing
<1>10. CASE destroy_encoder_component \/ destroy_splitter_component
            \/ destroy_camera_component
  BY <1>10 DEF destroy_encoder_component, destroy_splitter_component,
               destroy_camera_component, Closing
<1>11. CASE TimePasses \/ Encode \/ encoder_buffer_callback \/ Worker
  BY <1>11, OthersApart
<1>12. CASE UNCHANGED vars
  BY <1>12
<1>13. QED
  BY <1>1, <1>2, <1>3, <1>4, <1>5, <1>6, <1>7, <1>8, <1>9, <1>10, <1>11, <1>12
  DEF Next, Main, SetUp, CloseDown

-----------------------------------------------------------------------------
(* The files outlive the encoder's port                                     *)

\* Where the command line leads.
LEMMA ParsedStages == ParseCmdline => main' \in {"init", "exit", "options"}
BY Zenon DEF ParseCmdline

\* Where raspitex_start leads.
LEMMA StartStages == raspitex_start => main' \in {"demo", "sleep", "send", "stop"}
BY Zenon DEF raspitex_start

\* The files stay open from their stage until the port is disabled.
LEMMA FilesStep ==
  TypeOK /\ HeldInStage /\ FilesInStage /\ [Next]_vars => FilesInStage'
<1> SUFFICES ASSUME TypeOK, HeldInStage, FilesInStage, [Next]_vars PROVE FilesInStage'
  OBVIOUS
<1> USE DEF FilesInStage, FilesOpened, AfterPorts, InCapture
<1>1. CASE ParseCmdline
  BY <1>1, ParsedStages DEF ParseCmdline, HeldInStage
<1>2. CASE raspitex_init
  BY <1>2 DEF raspitex_init, HeldInStage
<1>3. CASE create_camera_component
  <2>1. main = "camera" /\ main' \in {"encoder", "exit"}
        /\ UNCHANGED <<open, state, underway>>
    BY <1>3 DEF create_camera_component
  <2>2. held' \subseteq {"camera"} \union ToSet(Preview)
    BY <1>3, <2>1, PreviewThings, Zenon DEF create_camera_component, HeldInStage
  <2>3. QED
    BY <2>1, <2>2, PreviewThings DEF HeldInStage
<1>4. CASE create_encoder_component \/ create_splitter_component \/ ConnectPorts
  BY <1>4 DEF create_encoder_component, create_splitter_component, ConnectPorts,
              HeldInStage, PortStages
<1>5. CASE OpenFiles
  <2>1. /\ main = "files" /\ main' \in {"circular", "stop"}
        /\ held' \in {held, held \union {"splitter_port"}}
        /\ "encoder_port" \notin held /\ underway = NoBuffer /\ UNCHANGED underway
    BY <1>5 DEF OpenFiles, HeldInStage, PortStages
  <2>2. CASE main' = "stop"
    BY <1>5, <2>1, <2>2 DEF OpenFiles
  <2>3. CASE main' = "circular"
    <3>1. open' \subseteq Wanted /\ state' = OptionsLeft(open')
      BY <1>5, <2>3, Zenon DEF OpenFiles
    <3>2. /\ state'.inlineMotionVectors => "imv" \in open'
          /\ state'.save_pts => "pts" \in open'
          /\ state'.raw_output = (state.raw_output /\ "raw" \in open')
      BY <3>1 DEF OptionsLeft, TypeOK, Status
    <3>3. "raw" \in open' => state.raw_output
      BY <3>1 DEF Wanted
    <3>4. QED
      BY <2>1, <2>3, <3>2, <3>3
  <2>4. QED
    BY <2>1, <2>2, <2>3
<1>6. CASE CircularBuffer
  BY <1>6 DEF CircularBuffer, CircularPossible, HeldInStage, PortStages
<1>7. CASE EnableEncoderPort
  BY <1>7 DEF EnableEncoderPort, HeldInStage, PortStages
<1>8. CASE raspitex_start
  BY <1>8, StartStages DEF raspitex_start
<1>9. CASE ToggleCapture
  <2>1. /\ main = "toggle" /\ main' = "announce" /\ UNCHANGED <<held, open>>
        /\ underway' = NoBuffer \/ underway # NoBuffer
    BY <1>9 DEF ToggleCapture, TypeOK, StreamOK, NoBuffer
  <2>2. \A f \in {"inlineMotionVectors", "save_pts", "bCircularBuffer", "raw_output"} :
          state'[f] = state[f]
    BY <1>9 DEF ToggleCapture, TypeOK, Status
  <2>3. QED
    BY <2>1, <2>2
<1>10. CASE SendBuffers \/ Announce \/ WaitNone \/ WaitForever \/ WaitTimed
            \/ OnlyPreview \/ User
  <2>1. Finish \in {"save", "stop"} /\ (Finish = "save" => state.bCircularBuffer)
    BY DEF Finish
  <2>2. UNCHANGED <<held, open, state, underway>>
    BY <1>10 DEF SendBuffers, Announce, WaitNone, WaitForever, WaitTimed,
                 OnlyPreview, User, WaitTrigger, KeyX, Waited
  <2>3. main \in InCapture
    BY <1>10 DEF SendBuffers, Announce, WaitNone, WaitForever, WaitTimed,
                 OnlyPreview, User, WaitTrigger, KeyX, Waited
  <2>4. \/ main' \in {"send", "toggle", "wait", Finish}
        \/ main' = "save" /\ state.bCircularBuffer
    <3>1. CASE SendBuffers \/ Announce
      BY <3>1 DEF SendBuffers, Announce
    <3>2. CASE WaitNone \/ WaitForever \/ WaitTimed \/ OnlyPreview \/ User
      BY <3>2 DEF WaitNone, WaitForever, WaitTimed, OnlyPreview, User, WaitTrigger,
                  KeyX, Waited, KeepRunning
    <3>3. QED
      BY <1>10, <3>1, <3>2
  <2>5. QED
    BY <2>1, <2>2, <2>3, <2>4
<1>11. CASE SaveCircularBuffer \/ raspitex_stop \/ Join \/ raspitex_destroy
  BY <1>11 DEF SaveCircularBuffer, raspitex_stop, Join, raspitex_destroy
<1>12. CASE DisablePorts \/ DestroyConnections \/ CloseFiles
  BY <1>12 DEF DisablePorts, DestroyConnections, CloseFiles, Closing, HeldInStage,
               PortStages
<1>13. CASE destroy_encoder_component \/ destroy_splitter_component
            \/ destroy_camera_component
  BY <1>13 DEF destroy_encoder_component, destroy_splitter_component,
               destroy_camera_component, Closing
<1>14. CASE Encode
  BY <1>14 DEF Encode, Encoding
<1>15. CASE encoder_buffer_callback
  BY <1>15, OthersApart DEF encoder_buffer_callback
<1>16. CASE TimePasses \/ Worker
  BY <1>16, OthersApart DEF TimePasses, Worker, PreviewEnds
<1>17. CASE UNCHANGED vars
  BY <1>17
<1>18. QED
  BY <1>1, <1>2, <1>3, <1>4, <1>5, <1>6, <1>7, <1>8, <1>9, <1>10, <1>11, <1>12,
     <1>13, <1>14, <1>15, <1>16, <1>17
  DEF Next, Main, SetUp, Capture, CloseDown

-----------------------------------------------------------------------------
(* The preview is waited for                                                *)

\* The names of what the worker sets up.
LEMMA GLSets ==
  /\ ToSet(Egl) = {"egl", "surface", "context", "current"}
  /\ ToSet(Tracker) = {"vcsm", "shaders", "pixelbuffers", "targets", "semFullCount",
                       "semEmptyCount", "analysis"}
  /\ \A done \in Partial(Window) : done \subseteq {"display", "update", "element"}
  /\ \A done \in Partial(Egl) : done \subseteq ToSet(Egl)
  /\ \A done \in Partial(Tracker) : done \subseteq ToSet(Tracker)
<1>1. ToSet(Egl) = {"egl", "surface", "context", "current"}
  BY DEF ToSet, Egl
<1>2. ToSet(Tracker) = {"vcsm", "shaders", "pixelbuffers", "targets", "semFullCount",
                        "semEmptyCount", "analysis"}
  BY DEF ToSet, Tracker
<1>3. ToSet(Window) = {"display", "update", "element"}
  BY DEF ToSet, Window
<1>4. /\ Window \in Seq({"display", "update", "element"})
      /\ Egl \in Seq({"egl", "surface", "context", "current"})
      /\ Tracker \in Seq({"vcsm", "shaders", "pixelbuffers", "targets",
                          "semFullCount", "semEmptyCount", "analysis"})
  BY DEF Window, Egl, Tracker
<1>5. QED
  BY <1>1, <1>2, <1>3, <1>4, PartialSubset

\* Only the worker makes and takes down what is in gl, but for the display.
LEMMA GLSettled ==
  ASSUME Next
  PROVE  \/ raspitex_init \/ raspitex_start \/ raspitex_destroy \/ Worker
         \/ UNCHANGED <<scene, worker, gl, analysis>>
<1>1. ASSUME SetUp
      PROVE  raspitex_init \/ raspitex_start \/ UNCHANGED <<scene, worker, gl, analysis>>
  BY <1>1 DEF SetUp, ParseCmdline, create_camera_component, create_encoder_component,
              create_splitter_component, ConnectPorts, OpenFiles, CircularBuffer,
              EnableEncoderPort
<1>2. ASSUME Capture \/ User PROVE UNCHANGED <<scene, worker, gl, analysis>>
  BY <1>2, CaptureApart
<1>3. ASSUME CloseDown
      PROVE  raspitex_destroy \/ UNCHANGED <<scene, worker, gl, analysis>>
  BY <1>3 DEF CloseDown, SaveCircularBuffer, raspitex_stop, Join, DisablePorts,
              DestroyConnections, CloseFiles, Closing, destroy_encoder_component,
              destroy_splitter_component, destroy_camera_component
<1>4. ASSUME TimePasses \/ Encode \/ encoder_buffer_callback
      PROVE  UNCHANGED <<scene, worker, gl, analysis>>
  BY <1>4 DEF TimePasses, Encode, encoder_buffer_callback
<1>5. QED
  BY <1>1, <1>2, <1>3, <1>4 DEF Next, Main

\* What is taken down stays down until the worker is over.
LEMMA GLStep ==
  WorkerInStage /\ GLInStage /\ [Next]_vars => GLInStage'
<1> SUFFICES ASSUME WorkerInStage, GLInStage, [Next]_vars PROVE GLInStage'
  OBVIOUS
<1> USE GLSets DEF GLInStage, GLThings, TrackerThings, EglThings
<1>1. CASE raspitex_init \/ raspitex_start
  <2>1. worker = "none"
    BY <1>1 DEF WorkerInStage, InCapture, AfterJoin, AfterDestroy, AfterPorts,
                raspitex_init, raspitex_start
  <2>2. UNCHANGED <<gl, analysis>> /\ worker' \in {"none", "window"}
    BY <1>1, <2>1 DEF raspitex_init, raspitex_start
  <2>3. QED
    BY <2>1, <2>2
<1>2. CASE raspitex_destroy
  BY <1>2 DEF raspitex_destroy
<1>3. CASE create_native_window
  <2>1. worker = "window" /\ worker' \in {"egl", "term"} /\ UNCHANGED <<scene, analysis>>
        /\ gl' \ gl \subseteq {"display", "element"}
    BY <1>3, Zenon DEF create_native_window
  <2>2. QED
    BY <2>1
<1>4. CASE raspitexutil_gl_common
  <2>1. worker = "egl" /\ worker' \in {"core", "loop", "termAtOnce"}
        /\ (worker' = "core" => scene = "balltrack") /\ UNCHANGED <<scene, analysis>>
        /\ gl' \ gl \subseteq ToSet(Egl) \union {"textures"}
    BY <1>4, Zenon DEF raspitexutil_gl_common
  <2>2. QED
    BY <2>1
<1>5. CASE balltrack_core_init
  <2>1. worker = "core" /\ worker' \in {"loop", "term"} /\ UNCHANGED scene
        /\ gl' \ gl \subseteq ToSet(Tracker)
    BY <1>5, Zenon DEF balltrack_core_init
  <2>2. QED
    BY <2>1
<1>6. CASE PreviewEnds \/ WorkerEnds \/ StopAnalysis \/ JoinNoAnalysis
  BY <1>6 DEF PreviewEnds, WorkerEnds, WorkerStops, StopAnalysis, JoinNoAnalysis, Terms
<1>7. CASE CoreTerm
  BY <1>7 DEF CoreTerm, Terms
<1>8. CASE GlTerm
  BY <1>8 DEF GlTerm
<1>9. CASE UNCHANGED <<scene, worker, gl, analysis>>
  BY <1>9
<1>10. QED
  BY <1>1, <1>2, <1>3, <1>4, <1>5, <1>6, <1>7, <1>8, <1>9, GLSettled
  DEF Worker, WorkerSetUp, WorkerTakeDown

\* raspitex_destroy waits for the worker, unless the preview ended early.
LEMMA WorkerStep ==
  WorkerInStage /\ GLInStage /\ [Next]_vars => WorkerInStage'
<1> SUFFICES ASSUME WorkerInStage, GLInStage, [Next]_vars PROVE WorkerInStage'
  OBVIOUS
<1> USE DEF WorkerInStage, InCapture, AfterJoin, AfterDestroy, AfterPorts
<1>1. CASE ParseCmdline
  BY <1>1, ParsedStages DEF ParseCmdline
<1>2. CASE raspitex_init \/ create_camera_component \/ create_encoder_component
           \/ create_splitter_component \/ ConnectPorts
  BY <1>2 DEF raspitex_init, create_camera_component, create_encoder_component,
              create_splitter_component, ConnectPorts
<1>3. CASE OpenFiles \/ CircularBuffer \/ EnableEncoderPort
  BY <1>3 DEF OpenFiles, CircularBuffer, EnableEncoderPort
<1>4. CASE raspitex_start
  <2>1. main = "start" /\ UNCHANGED <<preview_stop, gl>>
        /\ (worker' = "window" \/ main' = "stop")
    BY <1>4 DEF raspitex_start
  <2>2. QED
    BY <1>4, <2>1, StartStages
<1>5. CASE Capture \/ User
  BY <1>5, CaptureApart
<1>6. CASE SaveCircularBuffer \/ raspitex_stop \/ Join
  <2>1. CASE SaveCircularBuffer
    BY <2>1 DEF SaveCircularBuffer
  <2>2. CASE raspitex_stop
    <3>1. main = "stop" /\ UNCHANGED <<worker, gl>>
          /\ \/ main' = "join" /\ preview_stop' = "stop"
             \/ main' = "destroy" /\ preview_stop # "no" /\ UNCHANGED preview_stop
      BY <2>2 DEF raspitex_stop
    <3>2. QED
      BY <3>1
  <2>3. CASE Join
    <3>1. /\ main = "join" /\ main' \in {"join", "destroy"}
          /\ main' = "destroy" => worker \in {"ended", "none"}
          /\ UNCHANGED <<worker, gl, preview_stop>>
      BY <2>3 DEF Join
    <3>2. QED
      BY <3>1
  <2>4. QED
    BY <1>6, <2>1, <2>2, <2>3
<1>7. CASE raspitex_destroy
  BY <1>7 DEF raspitex_destroy
<1>8. CASE DisablePorts \/ DestroyConnections \/ CloseFiles
           \/ destroy_encoder_component \/ destroy_splitter_component
           \/ destroy_camera_component
  BY <1>8 DEF DisablePorts, DestroyConnections, CloseFiles, Closing,
              destroy_encoder_component, destroy_splitter_component,
              destroy_camera_component
<1>9. CASE TimePasses \/ Encode \/ encoder_buffer_callback
  BY <1>9 DEF TimePasses, Encode, encoder_buffer_callback
<1>10. CASE PreviewEnds
  BY <1>10 DEF PreviewEnds
<1>11. CASE Worker /\ ~PreviewEnds
  <2>1. worker \notin {"none", "ended"} /\ worker' # "none"
        /\ UNCHANGED <<main, preview_stop>>
    BY <1>11 DEF Worker, WorkerSetUp, create_native_window, raspitexutil_gl_common,
                 balltrack_core_init, WorkerTakeDown, StopAnalysis, JoinNoAnalysis,
                 CoreTerm, GlTerm, Terms, WorkerEnds, WorkerStops
  <2>2. QED
    BY <2>1
<1>12. CASE UNCHANGED vars
  BY <1>12
<1>13. QED
  BY <1>1, <1>2, <1>3, <1>4, <1>5, <1>6, <1>7, <1>8, <1>9, <1>10, <1>11, <1>12
  DEF Next, Main, SetUp, CloseDown

-----------------------------------------------------------------------------
(* Without a failed call, what is used is there                             *)

\* The count of failed calls never falls.
LEMMA FailuresGrow == TypeOK /\ [Next]_vars /\ failures' = 0 => failures = 0
<1> SUFFICES ASSUME TypeOK, [Next]_vars, failures' = 0 PROVE failures = 0
  OBVIOUS
<1> USE DEF TypeOK, ResourcesOK, Fail
<1>1. CASE SetUp
  BY <1>1 DEF SetUp, ParseCmdline, raspitex_init, create_camera_component,
              create_encoder_component, create_splitter_component, ConnectPorts,
              OpenFiles, CircularBuffer, EnableEncoderPort, raspitex_start
<1>2. CASE Capture \/ User \/ TimePasses \/ Encode
  BY <1>2, CaptureApart DEF TimePasses, Encode
<1>3. CASE CloseDown
  BY <1>3, ClosingApart
<1>4. CASE encoder_buffer_callback
  <2>1. Split => UNCHANGED failures \/ Fail
    BY SplitFacts, Zenon
  <2>2. UNCHANGED failures \/ Fail
    BY <1>4, <2>1 DEF encoder_buffer_callback, Circulate, Append1
  <2>3. QED
    BY <2>2
<1>5. CASE Worker
  BY <1>5 DEF Worker, PreviewEnds, WorkerEnds, WorkerStops, WorkerSetUp,
              create_native_window, raspitexutil_gl_common, balltrack_core_init,
              WorkerTakeDown, StopAnalysis, JoinNoAnalysis, CoreTerm, GlTerm
<1>6. QED
  BY <1>1, <1>2, <1>3, <1>4, <1>5 DEF Next, Main

\* The queue of the preview is there until raspitex_destroy.
LEMMA QueueStep == TypeOK /\ QueueInStage /\ [Next]_vars => QueueInStage'
<1> SUFFICES ASSUME TypeOK, QueueInStage, [Next]_vars PROVE QueueInStage'
  OBVIOUS
<1> USE DEF QueueInStage, PortStages, InCapture
<1>1. CASE ParseCmdline \/ raspitex_init
  BY <1>1, ParsedStages DEF ParseCmdline, raspitex_init
<1>2. CASE create_camera_component
  <2>1. main' = "exit" \/ held' = held \union ({"camera"} \union ToSet(Preview))
    BY <1>2 DEF create_camera_component
  <2>2. main' \in {"exit", "encoder"}
    BY <1>2 DEF create_camera_component
  <2>3. QED
    BY <2>1, <2>2, PreviewThings
<1>3. CASE create_encoder_component \/ create_splitter_component
  BY <1>3 DEF create_encoder_component, create_splitter_component
<1>4. CASE ConnectPorts \/ CircularBuffer \/ EnableEncoderPort
  BY <1>4 DEF ConnectPorts, CircularBuffer, EnableEncoderPort
<1>5. CASE OpenFiles
  <2>1. main = "files" /\ held \subseteq held'
    BY <1>5 DEF OpenFiles
  <2>2. QED
    BY <2>1
<1>6. CASE raspitex_start
  BY <1>6, StartStages DEF raspitex_start
<1>7. CASE Capture \/ User
  <2>1. UNCHANGED held /\ main \in InCapture
    BY <1>7, CaptureApart
  <2>2. QED
    BY <2>1
<1>8. CASE SaveCircularBuffer \/ raspitex_stop \/ Join \/ raspitex_destroy
  BY <1>8 DEF SaveCircularBuffer, raspitex_stop, Join, raspitex_destroy
<1>9. CASE DisablePorts \/ DestroyConnections \/ CloseFiles
           \/ destroy_encoder_component \/ destroy_splitter_component
           \/ destroy_camera_component
  BY <1>9 DEF DisablePorts, DestroyConnections, CloseFiles, Closing,
              destroy_encoder_component, destroy_splitter_component,
              destroy_camera_component
<1>10. CASE TimePasses \/ Encode \/ encoder_buffer_callback \/ Worker
  BY <1>10, OthersApart
<1>11. CASE UNCHANGED vars
  BY <1>11
<1>12. QED
  BY <1>1, <1>2, <1>3, <1>4, <1>5, <1>6, <1>7, <1>8, <1>9, <1>10, <1>11
  DEF Next, Main, SetUp, CloseDown

\* What -c asks for depends on the command line alone.
LEMMA CircularSettled ==
  ASSUME \A f \in {"bCircularBuffer", "bitrate", "timeout", "waitMethod", "filename"} :
           state'[f] = state[f]
  PROVE  Size' = Size /\ CircularRefused' = CircularRefused
         /\ CircularEmpty' = CircularEmpty
<1>1. state'.bitrate = state.bitrate /\ state'.timeout = state.timeout
  OBVIOUS
<1>2. Size' = Size
  <2>1. Bits' = Bits
    BY <1>1 DEF Bits, ToInt
  <2>2. QED
    BY <2>1 DEF Size
<1>3. TriggeredOnly' = TriggeredOnly
  BY DEF TriggeredOnly
<1>4. QED
  BY <1>2, <1>3 DEF CircularRefused, CircularEmpty

\* The circular buffer keeps its size.
LEMMA CircularStep ==
  TypeOK /\ CircularInStage /\ [Next]_vars => CircularInStage'
<1> SUFFICES ASSUME TypeOK, CircularInStage, [Next]_vars PROVE CircularInStage'
  OBVIOUS
<1> USE DEF CircularInStage
<1>1. CASE ParseCmdline
  BY <1>1 DEF ParseCmdline
<1>2. CASE raspitex_init \/ create_camera_component \/ create_encoder_component
           \/ create_splitter_component \/ ConnectPorts
  BY <1>2 DEF raspitex_init, create_camera_component, create_encoder_component,
              create_splitter_component, ConnectPorts
<1>3. CASE OpenFiles
  BY <1>3 DEF OpenFiles
<1>4. CASE CircularBuffer \/ EnableEncoderPort
  <2>1. UNCHANGED state
        /\ \/ UNCHANGED cb_len /\ main' \in {"encoder_port", "start", "stop"}
              /\ (main = "circular" \/ main = "encoder_port")
           \/ main' = "encoder_port" /\ state.bCircularBuffer /\ cb_len' = Size
    BY <1>4 DEF CircularBuffer, EnableEncoderPort
  <2>2. Size' = Size
    BY <2>1, CircularSettled
  <2>3. QED
    BY <2>1, <2>2
<1>5. CASE raspitex_start
  <2>1. UNCHANGED <<state, cb_len>> /\ main = "start"
    BY <1>5 DEF raspitex_start
  <2>2. QED
    BY <1>5, <2>1, StartStages, CircularSettled
<1>6. CASE ToggleCapture
  <2>1. UNCHANGED cb_len /\ main' = "announce" /\ main = "toggle"
    BY <1>6 DEF ToggleCapture
  <2>2. \A f \in {"bCircularBuffer", "bitrate", "timeout", "waitMethod", "filename"} :
          state'[f] = state[f]
    BY <1>6 DEF ToggleCapture, TypeOK, Status
  <2>3. QED
    BY <2>1, <2>2, CircularSettled
<1>7. CASE (Capture \/ User) /\ ~ToggleCapture
  <2>1. UNCHANGED state
    BY <1>7 DEF Capture, SendBuffers, Announce, WaitNone, WaitForever, WaitTimed,
                OnlyPreview, User, WaitTrigger, KeyX, Waited
  <2>2. QED
    BY <1>7, <2>1, CaptureApart, CircularSettled DEF InCapture
<1>8. CASE CloseDown
  <2>1. UNCHANGED <<state, cb_len>>
    BY <1>8, ClosingApart
    DEF CloseDown, SaveCircularBuffer, raspitex_stop, Join, raspitex_destroy,
        DisablePorts, DestroyConnections, CloseFiles, Closing,
        destroy_encoder_component, destroy_splitter_component,
        destroy_camera_component
  <2>2. QED
    BY <1>8, <2>1, ClosingApart, CircularSettled DEF AfterJoin, AfterDestroy, AfterPorts
<1>9. CASE TimePasses \/ Encode \/ encoder_buffer_callback \/ Worker
  BY <1>9, OthersApart, CircularSettled
<1>10. CASE UNCHANGED vars
  BY <1>10, CircularSettled
<1>11. QED
  BY <1>1, <1>2, <1>3, <1>4, <1>5, <1>6, <1>7, <1>8, <1>9, <1>10
  DEF Next, Main, SetUp

\* Without a failed call nothing is missing.
LEMMA WithoutFailureStep ==
  TypeOK /\ HeldInStage /\ WorkerInStage /\ GLInStage /\ WithoutFailure /\ [Next]_vars
    => WithoutFailure'
<1> SUFFICES ASSUME TypeOK, HeldInStage, WorkerInStage, GLInStage, WithoutFailure,
                    [Next]_vars, failures' = 0
             PROVE  WithoutFailure'
  BY DEF WithoutFailure
<1>a. failures = 0
  BY FailuresGrow
<1>b. failures + 1 # 0
  BY <1>a
<1> USE <1>a, <1>b DEF WithoutFailure, FilesOpened, PortStages, InCapture, Fail
<1>1. CASE ParseCmdline
  <2>1. main = "options" /\ held = {} /\ UNCHANGED <<held, glVars, preview_stop>>
        /\ main' \in {"init", "exit", "options"} /\ worker = "none"
    BY <1>1, ParsedStages
    DEF ParseCmdline, HeldInStage, WorkerInStage, AfterJoin, AfterDestroy, AfterPorts
  <2>2. QED
    BY <2>1
<1>2. CASE raspitex_init
  BY <1>2
  DEF raspitex_init, HeldInStage, WorkerInStage, AfterJoin, AfterDestroy, AfterPorts
<1>3. CASE create_camera_component
  <2>1. /\ main = "camera" /\ held = {} /\ main' = "encoder"
        /\ held' = held \union ({"camera"} \union ToSet(Preview))
        /\ UNCHANGED <<preview_stop, scene, worker, gl, analysis>>
    BY <1>3 DEF create_camera_component, HeldInStage
  <2>2. QED
    BY <2>1, PreviewThings
<1>4. CASE create_encoder_component \/ create_splitter_component
  <2>1. "encoder_port" \notin held
    BY <1>4 DEF create_encoder_component, create_splitter_component, HeldInStage
  <2>2. QED
    BY <1>4, <2>1 DEF create_encoder_component, create_splitter_component
<1>5. CASE ConnectPorts \/ EnableEncoderPort
  BY <1>5 DEF ConnectPorts, EnableEncoderPort
<1>15. CASE CircularBuffer
  <2>1. /\ main = "circular" /\ main' \in {"encoder_port", "stop"}
        /\ UNCHANGED <<held, open, state, preview_stop, scene, worker, gl, analysis>>
        /\ main' = "stop" => state.bCircularBuffer /\ (~CircularPossible \/ Size < 0)
    BY <1>15 DEF CircularBuffer
  <2>2. main' = "stop" => CircularRefused
    BY <2>1 DEF CircularPossible, TriggeredOnly, CircularRefused
  <2>3. main' = "stop" => CircularRefused'
    BY <2>1, <2>2, CircularSettled
  <2>4. QED
    BY <2>1, <2>3
<1>6. CASE OpenFiles
  <2>1. /\ main = "files" /\ main' = "circular" /\ open' = Wanted
        /\ held \subseteq held' /\ state' = OptionsLeft(open')
        /\ UNCHANGED <<preview_stop, scene, worker, gl, analysis>>
    BY <1>6 DEF OpenFiles
  <2>2. /\ state'.filename = state.filename
        /\ state'.imv_filename = state.imv_filename
        /\ state'.pts_filename = state.pts_filename
        /\ state'.raw_output => state.raw_output
    BY <2>1 DEF OptionsLeft, TypeOK, Status
  <2>3. /\ state.filename # "NULL" => "file" \in open'
        /\ state.imv_filename # "NULL" => "imv" \in open'
        /\ state.pts_filename # "NULL" => "pts" \in open'
    BY <2>1 DEF Wanted
  <2>4. QED
    BY <2>1, <2>2, <2>3
<1>7. CASE raspitex_start
  <2>1. /\ main = "start" /\ UNCHANGED <<held, open, state, preview_stop, scene>>
        /\ worker' \notin {"termAtOnce", "glTermAtOnce", "loop", "term", "none"}
    BY <1>7 DEF raspitex_start, WorkerInStage, AfterJoin, AfterDestroy, AfterPorts
  <2>2. QED
    BY <1>7, <2>1, StartStages
<1>8. CASE ToggleCapture
  <2>1. /\ main = "toggle" /\ main' = "announce" /\ UNCHANGED <<held, open, preview_stop>>
        /\ UNCHANGED <<scene, worker, gl, analysis>>
    BY <1>8 DEF ToggleCapture
  <2>2. /\ state'.raw_output = state.raw_output
        /\ state'.filename = state.filename
        /\ state'.imv_filename = state.imv_filename
        /\ state'.pts_filename = state.pts_filename
    BY <1>8 DEF ToggleCapture, TypeOK, Status
  <2>3. QED
    BY <2>1, <2>2
<1>9. CASE SendBuffers \/ Announce \/ WaitNone \/ WaitForever \/ WaitTimed
           \/ OnlyPreview \/ User
  <2>1. UNCHANGED state
    BY <1>9 DEF SendBuffers, Announce, WaitNone, WaitForever, WaitTimed,
                OnlyPreview, User, WaitTrigger, KeyX, Waited
  <2>2. worker # "none"
    BY <1>9, CaptureApart DEF Capture, WorkerInStage
  <2>3. QED
    BY <1>9, <2>1, <2>2, CaptureApart DEF Capture
<1>10. CASE CloseDown
  <2>1. UNCHANGED <<scene, worker, analysis, state>> /\ preview_stop' # "early"
    BY <1>10, ClosingApart
  <2>5. CircularRefused' = CircularRefused
    BY <2>1, CircularSettled
  <2>2. CASE SaveCircularBuffer \/ raspitex_stop \/ Join \/ raspitex_destroy
    BY <2>1, <2>2, <2>5
    DEF SaveCircularBuffer, raspitex_stop, Join, raspitex_destroy, WorkerInStage
  <2>3. CASE DisablePorts \/ DestroyConnections \/ CloseFiles
             \/ destroy_encoder_component \/ destroy_splitter_component
             \/ destroy_camera_component
    <3>1. "encoder_port" \notin held' /\ main' \in AfterPorts
      BY <2>3 DEF DisablePorts, DestroyConnections, CloseFiles, Closing,
                  destroy_encoder_component, destroy_splitter_component,
                  destroy_camera_component, HeldInStage, AfterPorts
    <3>2. UNCHANGED <<scene, worker, gl, analysis, state, preview_stop>>
      BY <2>3 DEF DisablePorts, DestroyConnections, CloseFiles, Closing,
                  destroy_encoder_component, destroy_splitter_component,
                  destroy_camera_component
    <3>3. QED
      BY <3>1, <3>2 DEF AfterPorts
  <2>4. QED
    BY <1>10, <2>2, <2>3 DEF CloseDown
<1>11. CASE TimePasses \/ Encode \/ encoder_buffer_callback
  <2>1. UNCHANGED <<scene, worker, gl, analysis, preview_stop>>
    BY <1>11 DEF TimePasses, Encode, encoder_buffer_callback
  <2>2. UNCHANGED state => CircularRefused' = CircularRefused
    BY CircularSettled
  <2>3. QED
    BY <1>11, <2>1, <2>2, OthersApart
<1>12. CASE Worker
  <2>1. UNCHANGED <<main, held, open, state, preview_stop, scene>>
    BY <1>12 DEF Worker, PreviewEnds, WorkerEnds, WorkerStops, WorkerSetUp,
                 create_native_window, raspitexutil_gl_common, balltrack_core_init,
                 WorkerTakeDown, StopAnalysis, JoinNoAnalysis, CoreTerm, GlTerm
  <2>2. /\ worker' \notin {"termAtOnce", "glTermAtOnce", "none"}
        /\ worker' \in {"loop", "term"} /\ scene = "balltrack" => analysis' # "none"
    <3>1. CASE WorkerSetUp
      BY <3>1 DEF WorkerSetUp, create_native_window, raspitexutil_gl_common,
                  balltrack_core_init
    <3>2. CASE WorkerTakeDown
      BY <3>2 DEF WorkerTakeDown, StopAnalysis, JoinNoAnalysis, CoreTerm, GlTerm, Terms
    <3>3. CASE WorkerEnds \/ PreviewEnds
      BY <3>3 DEF WorkerEnds, WorkerStops, PreviewEnds
    <3>4. QED
      BY <1>12, <3>1, <3>2, <3>3 DEF Worker
  <2>3. QED
    BY <2>1, <2>2
<1>13. CASE UNCHANGED vars
  BY <1>13, CircularSettled
<1>14. QED
  BY <1>1, <1>2, <1>3, <1>4, <1>5, <1>6, <1>7, <1>8, <1>9, <1>10, <1>11, <1>12, <1>13,
     <1>15
  DEF Next, Main, SetUp, Capture

-----------------------------------------------------------------------------
(* One capture in a file                                                    *)

\* Every pause asks for a file, and every header after it begins one.
LEMMA SplitStep == TypeOK /\ SplitInStage /\ [Next]_vars => SplitInStage'
<1> SUFFICES ASSUME TypeOK, SplitInStage, [Next]_vars PROVE SplitInStage'
  OBVIOUS
<1> USE DEF TypeOK, SplitInStage, Captured, AfterJoin, AfterDestroy, AfterPorts
<1>1. CASE SetUp
  <2>1. main \notin Captured /\ UNCHANGED <<streamVars, runVars>>
    BY <1>1 DEF SetUp, ParseCmdline, raspitex_init, create_camera_component,
                create_encoder_component, create_splitter_component, ConnectPorts,
                OpenFiles, CircularBuffer, EnableEncoderPort, raspitex_start
  <2>2. main' \notin {"toggle", "announce", "wait"}
    BY <1>1, ParsedStages, StartStages
    DEF SetUp, raspitex_init, create_camera_component, create_encoder_component,
        create_splitter_component, ConnectPorts, OpenFiles, CircularBuffer,
        EnableEncoderPort
  <2>3. begun = {} /\ underway = NoBuffer /\ ~capturing /\ ~splitNow
    BY <2>1
  <2>4. QED
    BY <2>1, <2>2, <2>3 DEF NoBuffer
<1>2. CASE SendBuffers
  <2>1. /\ main = "send" /\ main' \in {"send", "toggle"}
        /\ initialCapturing' = state.bCapturing
        /\ UNCHANGED <<state, streamVars, splitNow>>
    BY <1>2 DEF SendBuffers
  <2>2. begun = {} /\ underway = NoBuffer /\ ~capturing /\ ~splitNow
    BY <2>1
  <2>3. state.bCapturing \in BOOLEAN
    BY DEF Status
  <2>4. QED
    BY <2>1, <2>2, <2>3 DEF NoBuffer
<1>3. CASE ToggleCapture
  <2>1. /\ main = "toggle" /\ main' = "announce" /\ UNCHANGED <<runVars, disturbed>>
        /\ capturing' = state'.bCapturing
    BY <1>3 DEF ToggleCapture
  <2>2. /\ state'.splitWait = state.splitWait
        /\ state'.bCapturing = ~state.bCapturing /\ state'.bCapturing \in BOOLEAN
    BY <1>3 DEF ToggleCapture, Status
  <2>3. CASE capturing'
    <3>1. /\ underway' = [underway EXCEPT !.age = IF @ = -1 THEN -1 ELSE Older(@)]
          /\ begun' = {Older(a) : a \in begun}
      BY <1>3, <2>3 DEF ToggleCapture
    <3>2. underway = NoBuffer => underway' = NoBuffer
      BY <3>1 DEF NoBuffer
    <3>3. \A a \in 0 .. 2 : Older(a) \in 0 .. 2
      BY DEF Older
    <3>4. \A a \in 0 .. 2 : begun \subseteq {a} => begun' \subseteq {Older(a)}
      BY <3>1
    <3>5. begun = {} => begun' = {}
      BY <3>1
    <3>6. ~capturing
      BY <2>1, <2>2, <2>3
    <3>7. state.splitWait /\ ~disturbed /\ ~splitNow => begun = {} /\ underway = NoBuffer
      BY <2>1, <3>6
    <3>8. state.splitWait => ~initialCapturing
      BY <2>1, <2>2, <2>3
    <3>9. state.splitWait /\ ~disturbed => \E a \in 0 .. 2 : begun' \subseteq {a}
      BY <3>3, <3>4
    <3>10. QED
      BY <2>1, <2>2, <2>3, <3>2, <3>5, <3>7, <3>8, <3>9 DEF NoBuffer
  <2>4. CASE ~capturing'
    <3>1. UNCHANGED <<underway, begun>> /\ capturing' = FALSE
      BY <1>3, <2>1, <2>2, <2>4 DEF ToggleCapture
    <3>2. QED
      BY <2>1, <2>2, <2>4, <3>1
  <2>5. QED
    BY <2>3, <2>4
<1>4. CASE Announce
  <2>1. /\ main = "announce" /\ main' \in {"save", "wait"} /\ UNCHANGED <<state, streamVars>>
        /\ capturing = state.bCapturing
    BY <1>4 DEF Announce
  <2>2. CASE main' = "save"
    BY <1>4, <2>1, <2>2 DEF Announce
  <2>3. CASE main' = "wait" /\ ~state.splitWait
    <3>1. UNCHANGED <<splitNow, initialCapturing>>
      BY <1>4, <2>3 DEF Announce
    <3>2. QED
      BY <2>1, <2>3, <3>1
  <2>4. CASE main' = "wait" /\ state.splitWait
    <3>1. /\ splitNow' = (splitNow \/ (~state.bCapturing /\ ~initialCapturing))
          /\ initialCapturing' = FALSE
      BY <1>4, <2>4 DEF Announce, SplitAfterPause
    <3>2. ~splitNow' => ~splitNow /\ (capturing \/ initialCapturing)
      BY <2>1, <3>1
    <3>3. splitNow' \in BOOLEAN
      BY <3>1
    <3>4. QED
      BY <2>1, <2>4, <3>1, <3>2, <3>3
  <2>5. QED
    BY <2>1, <2>2, <2>3, <2>4
<1>5. CASE WaitNone \/ WaitForever \/ WaitTimed \/ User
  <2>1. main = "wait" /\ UNCHANGED <<state, streamVars, splitNow, initialCapturing>>
    BY <1>5 DEF WaitNone, WaitForever, WaitTimed, User, WaitTrigger, KeyX, Waited
  <2>2. main' \in {"toggle", "save", "stop"}
    BY <1>5 DEF WaitNone, WaitForever, WaitTimed, User, WaitTrigger, KeyX, Waited,
                KeepRunning, Finish
  <2>3. QED
    BY <2>1, <2>2
<1>6. CASE OnlyPreview
  <2>1. /\ main \in {"demo", "sleep"} /\ main' \in {"save", "stop"}
        /\ UNCHANGED <<state, streamVars, splitNow, initialCapturing>>
    BY <1>6 DEF OnlyPreview, Finish
  <2>2. begun = {} /\ underway = NoBuffer /\ ~capturing /\ ~splitNow
    BY <2>1
  <2>3. QED
    BY <2>1, <2>2 DEF NoBuffer
<1>7. CASE CloseDown
  <2>1. UNCHANGED <<state, streamVars, splitNow, initialCapturing>> /\ main \in Captured
    BY <1>7, ClosingApart
  <2>2. main' \in Captured \ {"toggle", "announce", "wait"}
    BY <1>7, ClosingApart
  <2>3. QED
    BY <2>1, <2>2
<1>8. CASE Encode
  <2>1. capturing /\ main \in Captured /\ underway'.age = 0
        /\ UNCHANGED <<main, state, capturing, begun, disturbed, splitNow, initialCapturing>>
    BY <1>8 DEF Encode
  <2>2. state.splitWait => ~initialCapturing
    BY <2>1
  <2>3. state.splitWait /\ ~disturbed => \E a \in 0 .. 2 : begun' \subseteq {a}
    BY <2>1
  <2>4. state.splitWait /\ ~disturbed /\ ~splitNow =>
          begun' \subseteq {0} /\ underway'.age <= 0
    BY <2>1
  <2>5. QED
    BY <2>1, <2>2, <2>3, <2>4
<1>9. CASE encoder_buffer_callback
  <2>1. /\ underway # NoBuffer /\ underway' = NoBuffer /\ main \in Captured
        /\ UNCHANGED <<main, state, capturing, initialCapturing>>
    BY <1>9 DEF encoder_buffer_callback
  <2>2. underway.age \in 0 .. 2
    BY <2>1 DEF StreamOK
  <2>3. state.splitWait => ~initialCapturing
    BY <2>1
  <2>4. CASE Circulate
    BY <2>1, <2>3, <2>4 DEF Circulate, NoBuffer
  <2>5. CASE Append1 /\ ~SplitsHere
    <3>1. UNCHANGED <<splitNow, disturbed>>
          /\ begun' = IF underway.header THEN begun \union {underway.age} ELSE begun
      BY <2>5 DEF Append1
    <3>2. state.splitWait /\ splitNow => begun' = begun
      BY <2>5, <3>1 DEF SplitsHere
    <3>3. state.splitWait /\ ~disturbed /\ ~splitNow =>
            begun' \subseteq {0} /\ (capturing \/ main \notin {"toggle", "wait"})
      BY <2>1, <2>2, <3>1
    <3>4. QED
      BY <2>1, <2>3, <3>1, <3>2, <3>3 DEF NoBuffer
  <2>6. CASE Split
    <3>1. splitNow' = FALSE
          /\ (disturbed' = TRUE \/ (begun' = {underway.age} /\ disturbed' = Late))
      BY <2>6, SplitFacts
    <3>2. disturbed' \in BOOLEAN
      BY <3>1 DEF Late
    <3>3. ~disturbed' => begun' = {underway.age} /\ ~Late
      BY <3>1
    <3>4. ~Late => underway.age = 0 /\ capturing
      BY <2>2 DEF Late
    <3>5. ~disturbed' => begun' = {0} /\ capturing
      BY <3>3, <3>4
    <3>6. underway'.age <= 0 /\ splitNow' = FALSE
      BY <2>1, <3>1 DEF NoBuffer
    <3>7. ~disturbed' => begun' \subseteq {0} /\ \E a \in 0 .. 2 : begun' \subseteq {a}
      BY <3>5
    <3>8. QED
      BY <2>1, <2>3, <3>2, <3>5, <3>6, <3>7
  <2>7. QED
    BY <1>9, <2>4, <2>5, <2>6 DEF encoder_buffer_callback
<1>10. CASE TimePasses \/ Worker
  <2>1. UNCHANGED <<main, state, streamVars, splitNow, initialCapturing>>
    BY <1>10, OthersApart DEF TimePasses, Worker, PreviewEnds
  <2>2. QED
    BY <2>1
<1>11. CASE UNCHANGED vars
  BY <1>11
<1>12. QED
  BY <1>1, <1>2, <1>3, <1>4, <1>5, <1>6, <1>7, <1>8, <1>9, <1>10, <1>11
  DEF Next, Main, Capture

-----------------------------------------------------------------------------
(* The invariant, and what follows from it                                  *)

IInv == /\ TypeOK /\ HeldInStage /\ FilesInStage /\ CircularInStage
        /\ WorkerInStage /\ GLInStage
        /\ WithoutFailure /\ QueueInStage /\ SplitInStage /\ CrashOnlyAfterFailure

\* Each use that could fail finds what it uses, or a call has failed before.
LEMMA CrashStep == IInv /\ [Next]_vars => CrashOnlyAfterFailure'
<1>1. CASE UNCHANGED vars
  BY <1>1, CircularSettled DEF IInv, CrashOnlyAfterFailure
<1> DEFINE Allowed == \/ crash' = "join" /\ CircularRefused'
                      \/ crash' = "circular" /\ CircularEmpty'
<1> SUFFICES ASSUME IInv, Next, crash' # "none", failures' = 0
             PROVE  Allowed
  BY <1>1 DEF CrashOnlyAfterFailure
<1>a. failures = 0
  BY FailuresGrow DEF IInv
<1>b. crash = "none"
  BY DEF Next
<1> USE <1>a DEF IInv, WithoutFailure
<1>2. ASSUME SetUp PROVE FALSE
  BY <1>2, <1>b DEF SetUp, ParseCmdline, raspitex_init, create_camera_component,
              create_encoder_component, create_splitter_component, ConnectPorts,
              OpenFiles, CircularBuffer, EnableEncoderPort, raspitex_start, Next, Main
<1>3. ASSUME Capture \/ User \/ TimePasses \/ Encode PROVE FALSE
  <2>1. CASE SendBuffers
    <3>1. main = "send" /\ crash' = "pool"
          /\ \/ "file" \in open /\ "encoder_pool" \notin held
             \/ "raw" \in open /\ "splitter_pool" \notin held
      BY <2>1, <1>b DEF SendBuffers
    <3>2. QED
      BY <3>1 DEF FilesInStage, PortStages, InCapture
  <2>2. CASE ~SendBuffers
    BY <1>3, <2>2, <1>b DEF Capture, Announce, WaitNone, WaitForever, WaitTimed,
                ToggleCapture, OnlyPreview, User, WaitTrigger, KeyX, Waited, TimePasses,
                Encode
  <2>3. QED
    BY <2>1, <2>2
<1>4. ASSUME CloseDown PROVE Allowed
  <2>1. CASE SaveCircularBuffer
    BY <2>1, <1>b DEF SaveCircularBuffer, FilesInStage, InCapture
  <2>2. CASE Join
    <3>1. main = "join" /\ worker = "none" /\ crash' = "join" /\ UNCHANGED state
      BY <2>2, <1>b DEF Join
    <3>2. CircularRefused
      BY <3>1
    <3>3. CircularRefused'
      BY <3>1, <3>2, CircularSettled
    <3>4. QED
      BY <3>1, <3>3
  <2>3. CASE ~SaveCircularBuffer /\ ~Join
    BY <1>4, <2>3, <1>b
    DEF CloseDown, raspitex_stop, raspitex_destroy, DisablePorts, DestroyConnections,
        CloseFiles, Closing, destroy_encoder_component, destroy_splitter_component,
        destroy_camera_component
  <2>4. QED
    BY <2>1, <2>2, <2>3
<1>5. ASSUME encoder_buffer_callback PROVE Allowed
  <2>1. "encoder_port" \in held /\ crash = "none" /\ UNCHANGED <<cb_len, state>>
    BY <1>5, <1>b DEF encoder_buffer_callback
  <2>2. CASE Circulate
    <3>1. crash' = "circular" /\ cb_len = 0
      BY <2>1, <2>2 DEF Circulate
    <3>2. CircularEmpty
      BY <3>1 DEF CircularInStage, CircularEmpty
    <3>3. CircularEmpty'
      BY <2>1, <3>2, CircularSettled
    <3>4. QED
      BY <3>1, <3>3
  <2>3. CASE Split
    <3>1. Named \ {"raw"} \subseteq open
      BY <2>1 DEF Named, Wanted, FilesOpened
    <3>2. crash' = "none"
      <4>1. PICK reopened \in SUBSET (Named \ {"raw"}) :
              crash' = IF reopened \subseteq open THEN crash ELSE "close"
        BY <2>3, SplitFacts
      <4>2. reopened \subseteq open
        BY <3>1
      <4>3. QED
        BY <2>1, <4>1, <4>2
    <3>3. QED
      BY <3>2
  <2>4. CASE Append1
    BY <2>1, <2>4 DEF Append1
  <2>5. QED
    BY <1>5, <2>2, <2>3, <2>4 DEF encoder_buffer_callback
<1>6. ASSUME Worker PROVE FALSE
  <2>2. CASE PreviewEnds \/ WorkerSetUp
    BY <1>b, <2>2 DEF PreviewEnds, WorkerSetUp, create_native_window,
                      raspitexutil_gl_common, balltrack_core_init
  <2>3. CASE WorkerTakeDown
    BY <1>b, <2>3 DEF WorkerTakeDown, StopAnalysis, JoinNoAnalysis, CoreTerm, GlTerm,
                      Terms
  <2>4. CASE WorkerEnds
    <3>1. worker = "loop" /\ preview_stop # "no" /\ "preview_queue" \notin held
      BY <1>b, <2>4 DEF WorkerEnds, WorkerStops
    <3>2. preview_stop = "stop" /\ main \in {"join"} \union AfterJoin
      BY <3>1 DEF WorkerInStage
    <3>3. main = "join"
      BY <3>1, <3>2 DEF WorkerInStage
    <3>4. QED
      BY <3>1, <3>3 DEF QueueInStage, PortStages
  <2>5. QED
    BY <1>6, <2>2, <2>3, <2>4 DEF Worker
<1>7. QED
  BY <1>2, <1>3, <1>4, <1>5, <1>6 DEF Next, Main

\* The invariant holds at first.
LEMMA InvInit == Init => IInv
<1> SUFFICES ASSUME Init PROVE IInv
  OBVIOUS
<1>1. /\ main = "options" /\ held = {} /\ open = {} /\ preview_stop = "no"
      /\ cb_len = -1 /\ underway = NoBuffer /\ begun = {} /\ capturing = FALSE /\ splitNow = FALSE
      /\ disturbed = FALSE /\ initialCapturing = FALSE
      /\ worker = "none" /\ gl = {} /\ analysis = "none" /\ crash = "none"
      /\ scene = "default"
  BY DEF Init, GLInit
<1>2. TypeOK
  BY TypeInit
<1>3. HeldInStage /\ FilesInStage /\ CircularInStage /\ WorkerInStage
  BY <1>1 DEF CircularInStage, HeldInStage, FilesInStage, FilesOpened, WorkerInStage, InCapture,
              AfterJoin, AfterDestroy, AfterPorts
<1>4. GLInStage /\ WithoutFailure /\ QueueInStage /\ CrashOnlyAfterFailure
  BY <1>1 DEF GLInStage, WithoutFailure, QueueInStage, FilesOpened, PortStages,
              InCapture, CrashOnlyAfterFailure
<1>5. SplitInStage
  <2>1. begun \subseteq {0} /\ underway.age <= 0
    BY <1>1 DEF NoBuffer
  <2>2. \E a \in 0 .. 2 : begun \subseteq {a}
    <3>1. 0 \in 0 .. 2 /\ begun \subseteq {0}
      BY <2>1
    <3>2. QED
      BY <3>1, Zenon
  <2>3. main \notin Captured
    BY <1>1 DEF Captured, AfterJoin, AfterDestroy, AfterPorts
  <2>4. main \notin {"toggle", "announce", "wait"} /\ ~initialCapturing
    BY <1>1
  <2>5. QED
    BY <1>1, <2>1, <2>2, <2>3, <2>4, Zenon DEF SplitInStage
<1>6. QED
  BY <1>2, <1>3, <1>4, <1>5 DEF IInv

\* No step breaks the invariant.
LEMMA InvStep == IInv /\ [Next]_vars => IInv'
BY TypeStep, HeldStep, FilesStep, CircularStep, WorkerStep, GLStep, WithoutFailureStep, QueueStep,
   SplitStep, CrashStep
DEF IInv

\* What exists at each stage of main, for every run of the recorder.
THEOREM RecorderInvariant == Spec => []IInv
BY InvInit, InvStep, PTL DEF Spec

\* Types of the recorder's variables.
THEOREM RecorderTypeCorrect == Spec => []TypeOK
<1>1. IInv => TypeOK
  BY DEF IInv
<1>2. QED
  BY <1>1, RecorderInvariant, PTL

\* The files the callback writes to are open as long as its port is.
THEOREM FilesThroughout == Spec => []CallbackHasFiles
<1>1. IInv => CallbackHasFiles
  BY DEF IInv, FilesInStage, FilesOpened, CallbackHasFiles
<1>2. QED
  BY <1>1, RecorderInvariant, PTL

\* A run that is over has given everything back.
THEOREM EverythingGivenBack == Spec => []NothingLeft
<1>1. IInv => NothingLeft
  <2> SUFFICES ASSUME IInv, main = "done" PROVE NothingLeft
    BY DEF NothingLeft
  <2>1. held = {}
    BY DEF IInv, TypeOK, ResourcesOK, HeldInStage, Things, PortStages, InCapture,
           AfterDestroy, AfterPorts
  <2>2. open = {}
    BY DEF IInv, FilesInStage
  <2>3. ASSUME preview_stop # "early"
        PROVE  worker \in {"none", "ended"} /\ gl \subseteq {"element", "vcsm"}
    <3>1. worker \in {"none", "ended"} /\ "display" \notin gl
      BY <2>3 DEF IInv, WorkerInStage, AfterJoin, AfterDestroy, AfterPorts
    <3>2. gl \subseteq {"element", "vcsm"}
      BY <3>1, GLSets DEF IInv, GLInStage, GLThings, TrackerThings, EglThings
    <3>3. QED
      BY <3>1, <3>2
  <2>4. QED
    BY <2>1, <2>2, <2>3 DEF NothingLeft
<1>2. QED
  BY <1>1, RecorderInvariant, PTL

\* The recorder does not use what is not there unless a call has failed, or
\* main refuses the circular buffer or gives it no bytes.
THEOREM NoCrashWithoutFailure == Spec => []CrashOnlyAfterFailure
<1>1. IInv => CrashOnlyAfterFailure
  BY DEF IInv
<1>2. QED
  BY <1>1, RecorderInvariant, PTL

\* With -sp no file holds the beginnings of two captures.
THEOREM OneCapturePerFile == Spec => []OneFilePerStart
<1>1. IInv => OneFilePerStart
  <2> SUFFICES ASSUME IInv, state.splitWait, ~disturbed PROVE Cardinality(begun) <= 1
    BY DEF OneFilePerStart
  <2>1. PICK a \in 0 .. 2 : begun \subseteq {a}
    BY DEF IInv, SplitInStage
  <2>2. begun = {} \/ begun = {a}
    BY <2>1
  <2>3. QED
    <3>1. Cardinality({}) = 0 /\ Cardinality({a}) = 1
      BY FS_EmptySet, FS_Singleton, Zenon
    <3>2. QED
      BY <2>2, <3>1
<1>2. QED
  BY <1>1, RecorderInvariant, PTL

-----------------------------------------------------------------------------
(* The order of the taking down                                             *)

\* A component goes after what hangs on it.
LEMMA ComponentsInOrder ==
  ASSUME IInv, [Next]_vars
  PROVE  /\ "encoder" \in held \ held' =>
              held' \intersect {"encoder_pool", "encoder_port", "connection"} = {}
         /\ "encoder_pool" \in held \ held' => "encoder_port" \notin held'
         /\ "splitter" \in held \ held' =>
              held' \intersect {"splitter_pool", "splitter_port"} = {}
         /\ "camera" \in held \ held' =>
              held' \intersect {"connection", "preview_port"} = {}
<1> USE DEF IInv, HeldInStage, PortStages, InCapture, AfterDestroy, AfterPorts
<1>1. CASE ParseCmdline \/ raspitex_init \/ ConnectPorts \/ OpenFiles \/ CircularBuffer
           \/ EnableEncoderPort \/ raspitex_start
  <2>1. held \subseteq held'
    BY <1>1 DEF ParseCmdline, raspitex_init, ConnectPorts, OpenFiles, CircularBuffer,
                EnableEncoderPort, raspitex_start
  <2>2. QED
    BY <2>1
<1>2. CASE create_camera_component
  <2>1. held = {}
    BY <1>2 DEF create_camera_component
  <2>2. QED
    BY <2>1
<1>3. CASE create_encoder_component \/ create_splitter_component
  <2>1. held' \intersect {"connection", "splitter_port", "encoder_port"} = {}
    BY <1>3 DEF create_encoder_component, create_splitter_component
  <2>2. CASE create_encoder_component
    BY <2>1, <2>2 DEF create_encoder_component
  <2>3. CASE create_splitter_component
    BY <2>1, <2>3 DEF create_splitter_component
  <2>4. QED
    BY <1>3, <2>2, <2>3
<1>4. CASE Capture \/ User
  <2>1. UNCHANGED held
    BY <1>4, CaptureApart
  <2>2. QED
    BY <2>1
<1>5. CASE SaveCircularBuffer \/ raspitex_stop \/ Join \/ raspitex_destroy
  BY <1>5 DEF SaveCircularBuffer, raspitex_stop, Join, raspitex_destroy
<1>6. CASE DisablePorts \/ DestroyConnections \/ CloseFiles
           \/ destroy_encoder_component \/ destroy_splitter_component
           \/ destroy_camera_component
  BY <1>6 DEF DisablePorts, DestroyConnections, CloseFiles, Closing,
              destroy_encoder_component, destroy_splitter_component,
              destroy_camera_component
<1>7. CASE TimePasses \/ Encode \/ encoder_buffer_callback \/ Worker
  BY <1>7, OthersApart
<1>8. CASE UNCHANGED vars
  BY <1>8
<1>9. QED
  BY <1>1, <1>2, <1>3, <1>4, <1>5, <1>6, <1>7, <1>8
  DEF Next, Main, SetUp, CloseDown

\* What only raspitex_destroy gives back is not in use any more.
LEMMA PreviewInOrder ==
  ASSUME IInv, [Next]_vars, preview_stop # "early",
         {"preview_pool", "preview_queue"} \intersect (held \ held') # {}
  PROVE  worker \in {"none", "ended"}
<1> USE DEF IInv, HeldInStage, PortStages, InCapture, AfterDestroy, AfterPorts
<1>1. ASSUME ~raspitex_destroy PROVE {"preview_pool", "preview_queue"} \intersect held \subseteq held'
  <2>1. CASE SetUp
    BY <2>1 DEF SetUp, ParseCmdline, raspitex_init, create_camera_component,
                create_encoder_component, create_splitter_component, ConnectPorts,
                OpenFiles, CircularBuffer, EnableEncoderPort, raspitex_start
  <2>2. CASE Capture \/ User
    BY <2>2, CaptureApart
  <2>3. CASE CloseDown
    BY <1>1, <2>3
    DEF CloseDown, SaveCircularBuffer, raspitex_stop, Join, DisablePorts,
        DestroyConnections, CloseFiles, Closing, destroy_encoder_component,
        destroy_splitter_component, destroy_camera_component
  <2>4. CASE TimePasses \/ Encode \/ encoder_buffer_callback \/ Worker
    BY <2>4, OthersApart
  <2>5. CASE UNCHANGED vars
    BY <2>5
  <2>6. QED
    BY <2>1, <2>2, <2>3, <2>4, <2>5 DEF Next, Main
<1>2. raspitex_destroy
  BY <1>1
<1>3. QED
  BY <1>2 DEF raspitex_destroy, WorkerInStage, AfterJoin

\* Nor is the display, and the tracker's textures go before their context.
LEMMA GLInOrder ==
  ASSUME IInv, [Next]_vars, preview_stop # "early"
  PROVE  /\ "context" \in gl \ gl' => gl' \intersect {"targets", "shaders"} = {}
         /\ "display" \in gl \ gl' => "context" \notin gl'
         /\ analysis = "running" => "pixelbuffers" \in gl' \/ "pixelbuffers" \notin gl
<1> USE GLSets DEF IInv, GLInStage, TrackerThings, EglThings
<1>1. CASE raspitex_init \/ raspitex_start
  BY <1>1 DEF raspitex_init, raspitex_start
<1>2. CASE raspitex_destroy
  <2>1. worker \in {"none", "ended"} /\ gl' = gl \ {"display"}
    BY <1>2 DEF raspitex_destroy, WorkerInStage, AfterJoin
  <2>2. "context" \notin gl
    BY <2>1
  <2>3. QED
    BY <2>1, <2>2
<1>3. CASE create_native_window \/ raspitexutil_gl_common \/ balltrack_core_init
  <2>1. gl \subseteq gl'
    BY <1>3, Zenon DEF create_native_window, raspitexutil_gl_common, balltrack_core_init
  <2>2. QED
    BY <2>1
<1>4. CASE PreviewEnds \/ WorkerEnds \/ StopAnalysis \/ JoinNoAnalysis
  BY <1>4 DEF PreviewEnds, WorkerEnds, WorkerStops, StopAnalysis, JoinNoAnalysis
<1>5. CASE CoreTerm
  BY <1>5 DEF CoreTerm, Joined
<1>6. CASE GlTerm
  BY <1>6 DEF GlTerm
<1>7. CASE UNCHANGED <<scene, worker, gl, analysis>>
  BY <1>7
<1>8. QED
  BY <1>1, <1>2, <1>3, <1>4, <1>5, <1>6, <1>7, GLSettled
  DEF Worker, WorkerSetUp, WorkerTakeDown

\* Nothing goes before what hangs on it.
THEOREM TakenDownInOrder == Spec => ReleasedInOrder
<1> DEFINE InOrder ==
      preview_stop # "early" =>
        /\ \A p \in HangsOn :
             p[1] \in (held \union gl) \ (held' \union gl') => p[2] \notin held' \union gl'
        /\ analysis = "running" => "pixelbuffers" \in gl' \/ "pixelbuffers" \notin gl
        /\ {"preview_pool", "preview_queue"} \intersect (held \ held') # {} =>
             worker \in {"none", "ended"}
<1>1. IInv /\ [Next]_vars => InOrder
  <2> SUFFICES ASSUME IInv, [Next]_vars, preview_stop # "early" PROVE InOrder
    OBVIOUS
  <2>1. held \subseteq Things /\ held' \subseteq Things
    BY InvStep DEF IInv, TypeOK, ResourcesOK
  <2>2. gl \subseteq GLThings /\ gl' \subseteq GLThings
    BY InvStep DEF IInv, GLInStage
  <2>3. ASSUME NEW p \in HangsOn, p[1] \in (held \union gl) \ (held' \union gl')
        PROVE  p[2] \notin held' \union gl'
    <3>1. CASE p[1] \in Things
      <4>1. Things \intersect GLThings = {}
        BY GLSets DEF Things, GLThings
      <4>2. p[2] \in Things
        BY <3>1 DEF HangsOn, Things
      <4>3. p[1] \in held \ held' /\ p[2] \notin gl'
        BY <2>1, <2>2, <2>3, <3>1, <4>1, <4>2
      <4>4. QED
        BY <3>1, <4>3, ComponentsInOrder DEF HangsOn, Things
    <3>2. CASE p[1] \notin Things
      <4>1. p[1] \in gl \ gl' /\ p[2] \notin Things
        BY <2>1, <2>3, <3>2 DEF HangsOn, Things
      <4>2. QED
        BY <2>1, <3>2, <4>1, GLInOrder DEF HangsOn, Things
    <3>3. QED
      BY <3>1, <3>2
  <2>4. QED
    BY <2>3, GLInOrder, PreviewInOrder
<1>2. QED
  BY <1>1, RecorderInvariant, PTL DEF Spec, ReleasedInOrder
=============================================================================
