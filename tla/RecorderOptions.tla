--------------------------- MODULE RecorderOptions ---------------------------
(***************************************************************************)
(* The command line of the recorder, as far as it decides what main sets   *)
(* up, when the capture ends and what it writes: parse_cmdline of          *)
(* RaspiVidBalls.c over the defaults of default_status, one action per     *)
(* option, in any order and any number up to MaxArgs.                      *)
(*                                                                         *)
(* Options that only reach the camera, the encoder or the GL window as     *)
(* values are left out.  An option that needs a parameter has one: without *)
(* it the rest of the line is ignored ("we will drop out of the loop"),    *)
(* which parse_ends covers, as it may end after any option.                *)
(***************************************************************************)
EXTENDS Integers

CONSTANTS
  Timeouts,   \* the values of -t, in milliseconds
  Bitrate,    \* the default bit rate
  MaxArgs     \* bound: options on the command line

ASSUME OptionsAssumption ==
  /\ Timeouts \subseteq Nat /\ 0 \in Timeouts
  /\ Bitrate \in Nat \ {0} /\ MaxArgs \in Nat

VARIABLES
  parsing,    \* "options", "parsed" or "usage" (EX_USAGE)
  args,       \* options seen; forgotten when the line has been parsed
  state       \* the fields of RASPIVID_STATE the options set

optionVars == <<parsing, args, state>>

\* timeout = -1 is "not set"; waitMethod is WAIT_METHOD_NONE ... _SIGNAL; a
\* filename is "NULL", "-" for stdout (told apart where it matters) or a name;
\* bCapturing is toggled before the capture, so FALSE is "record".
default_status ==
  [timeout |-> -1, waitMethod |-> "none", demoMode |-> FALSE,
   bCapturing |-> FALSE, splitWait |-> FALSE, bCircularBuffer |-> FALSE,
   bitrate |-> Bitrate, filename |-> "NULL", imv_filename |-> "NULL",
   inlineMotionVectors |-> FALSE, pts_filename |-> "NULL", save_pts |-> FALSE,
   raw_output |-> FALSE]

OptionsInit == parsing = "options" /\ args = 0 /\ state = default_status

Option(new) ==
  /\ parsing = "options" /\ args < MaxArgs
  /\ args' = args + 1 /\ state' = new
  /\ UNCHANGED parsing

\* -t: "Ensure that if previously selected a waitMethod we don't overwrite it".
MethodFor(t, method) == IF t = 0 /\ method = "none" THEN "forever" ELSE method
CommandTimeout ==
  \E t \in Timeouts :
    Option([state EXCEPT !.timeout = t, !.waitMethod = MethodFor(t, @)])

\* -td, -k and -s cycle between capture and pause, without end by default.
Unlimited == IF state.timeout = -1 THEN 0 ELSE state.timeout
CommandWait ==
  \E method \in {"timed", "keypress", "signal"} :
    Option([state EXCEPT !.waitMethod = method, !.timeout = Unlimited])

CommandDemoMode == Option([state EXCEPT !.demoMode = TRUE])
CommandInitialState == \E b \in BOOLEAN : Option([state EXCEPT !.bCapturing = b])
CommandSplitWait == Option([state EXCEPT !.splitWait = TRUE])
CommandCircular == Option([state EXCEPT !.bCircularBuffer = TRUE])
CommandBitrate == \E b \in {0, Bitrate} : Option([state EXCEPT !.bitrate = b])
CommandOutput == Option([state EXCEPT !.filename = "name"])
CommandIMV ==
  \E f \in {"-", "name"} :
    Option([state EXCEPT !.imv_filename = f, !.inlineMotionVectors = TRUE])
CommandSavePTS == Option([state EXCEPT !.pts_filename = "name", !.save_pts = TRUE])
CommandRaw == Option([state EXCEPT !.raw_output = TRUE])

Invalid ==
  /\ parsing = "options" /\ parsing' = "usage" /\ UNCHANGED <<args, state>>

\* The line ends; main then replaces a timeout nobody set.
parse_ends ==
  /\ parsing = "options" /\ parsing' = "parsed"
  /\ state' = [state EXCEPT !.timeout = IF @ = -1 THEN 5000 ELSE @]
  /\ args' = 0

parse_cmdline ==
  \/ CommandTimeout \/ CommandWait \/ CommandDemoMode \/ CommandInitialState
  \/ CommandSplitWait \/ CommandCircular \/ CommandBitrate \/ CommandOutput
  \/ CommandIMV \/ CommandSavePTS \/ CommandRaw \/ Invalid \/ parse_ends
=============================================================================
