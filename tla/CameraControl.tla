---------------------------- MODULE CameraControl ----------------------------
(***************************************************************************)
(* What the recorder asks of the camera while it runs (RaspiCamControl.c): *)
(* the zoom keys, and the demo mode that cycles through the settings, one  *)
(* at a time, and leaves each at its default.  The camera starts with what *)
(* the command line asks for (raspicamcontrol_set_all_parameters).         *)
(*                                                                         *)
(* A mode of a table is the number of its entry; the entry past the end,   *)
(* which the cycle also reads, is one more.  The camera (MMAL, external)   *)
(* takes every setting, but no crop that reaches out of the picture, and   *)
(* may refuse any crop.  Lengths are 16.16 fractions of the picture; an    *)
(* unsigned int wraps at Word, 2^32 in the code.                           *)
(***************************************************************************)
EXTENDS Integers, Sequences

CONSTANTS Word,          \* the values of an unsigned int are 0 .. Word - 1
          InitialCrops,  \* the -roi a run may start with
          UserSettings   \* the settings it may start with: a subset of those
                         \* with a value for each name of Defaults

Unit == 65536            \* the whole picture
Increment == 6553        \* zoom_increment_16P16
Smallest == 9830         \* zoom_full_16P16

ASSUME WordAssumption == Word \in Nat /\ Word > 4 * Unit

VARIABLES
  parameter, option,  \* the statics parameter and parameter_option
  setting,            \* the camera's settings
  given,              \* history: the settings the run was started with
  wrapped,            \* history: the cycle went through all its parameters
  crop, roi           \* its crop, and what the parameter block says of it

cycleVars == <<parameter, option, setting, given, wrapped>>
zoomVars == <<crop, roi>>

Reset == -99999
NoColour == [enable |-> 0, u |-> 128, v |-> 128]

-----------------------------------------------------------------------------
(* Demo mode                                                                *)

Cycled(name, min, max, increment, default) ==
  [setting |-> name, min |-> min, max |-> max, increment |-> increment,
   default |-> default]
\* Parameters 0 to 7; the last three go through the tables of modes.
Cycle == <<
  Cycled("sharpness", -100, 100, 10, 0),
  Cycled("contrast", -100, 100, 10, 0),
  Cycled("brightness", 0, 100, 10, 50),
  Cycled("saturation", -100, 100, 10, 0),
  Cycled("ev", -10, 10, 4, 0),
  Cycled("exposure", 0, 13, 1, 1),
  Cycled("awb", 0, 10, 1, 1),
  Cycled("imagefx", 0, 20, 1, 0)>>

\* What raspicamcontrol_set_defaults gives.
Defaults ==
  [sharpness |-> 0, contrast |-> 0, brightness |-> 50, saturation |-> 0,
   ev |-> 0, exposure |-> 1, awb |-> 1, imagefx |-> 0, colour |-> NoColour,
   rotation |-> 0, flips |-> {}]

ASSUME SettingsAssumption == \A s \in UserSettings : DOMAIN s = DOMAIN Defaults

At(p, o, s) == [parameter |-> p, option |-> o, setting |-> s]
Demo == At(parameter, option, setting)
Set(s, name, value) == [s EXCEPT ![name] = value]

NotSetBack(d) ==
  LET c == Cycle[d.parameter + 1]
      next == IF d.option = Reset THEN c.min ELSE d.option + c.increment
  IN  IF next > c.max THEN At(d.parameter + 1, Reset, d.setting)
      ELSE At(d.parameter, next, Set(d.setting, c.setting, next))
\* update_cycle_parameter, and the setting with its next value or its default.
update_cycle_parameter(d) ==
  LET c == Cycle[d.parameter + 1]
      next == IF d.option = Reset THEN c.min ELSE d.option + c.increment
  IN  IF next > c.max
      THEN At(d.parameter + 1, Reset, Set(d.setting, c.setting, c.default))
      ELSE At(d.parameter, next, Set(d.setting, c.setting, next))

\* The colour effect is never enabled.
Colours(d) ==
  LET Coloured(u, v) == Set(d.setting, "colour", [enable |-> 0, u |-> u, v |-> v])
  IN  CASE d.option = Reset -> At(d.parameter, 1, Coloured(128, 128))
        [] d.option = 1 -> At(d.parameter, 2, Coloured(100, 200))
        [] d.option = 2 -> At(d.parameter + 1, Reset, Coloured(0, 0))

Rotated(s, angle) == Set(s, "rotation", angle)
Flipped(s, flips) == Set(s, "flips", flips)
Orientation(d) ==
  CASE d.option = Reset -> At(d.parameter, 1, Rotated(d.setting, 90))
    [] d.option = 1 -> At(d.parameter, 2, Rotated(d.setting, 180))
    [] d.option = 2 -> At(d.parameter, 3, Rotated(d.setting, 270))
    [] d.option = 3 -> At(d.parameter, 4, Flipped(Rotated(d.setting, 0), {"h"}))
    [] d.option = 4 -> At(d.parameter, 5, Flipped(d.setting, {"v"}))
    [] d.option = 5 -> At(d.parameter, 6, Flipped(d.setting, {"h", "v"}))
    [] d.option = 6 -> At(d.parameter + 1, Reset, Flipped(d.setting, {}))

\* Parameters 0 to 6 are one chain of else-if; what follows it sees what the
\* chain has done, so that a call may do the end of one cycle and the begin
\* of the next.
Chain(d) == IF d.parameter <= 6 THEN update_cycle_parameter(d) ELSE d
Effects(d) == IF d.parameter = 7 THEN update_cycle_parameter(d) ELSE d
Colour(d) == IF d.parameter = 8 THEN Colours(d) ELSE d
Turned(d) == IF d.parameter = 9 THEN Orientation(d) ELSE d
Again(d) == IF d.parameter = 10 THEN At(1, d.option, d.setting) ELSE d

raspicamcontrol_cycle_test ==
  LET turned == Turned(Colour(Effects(Chain(Demo))))
      d == Again(turned)
  IN  /\ parameter' = d.parameter /\ option' = d.option /\ setting' = d.setting
      /\ wrapped' = (wrapped \/ turned.parameter = 10)
      /\ UNCHANGED given

Settings == <<{"sharpness"}, {"contrast"}, {"brightness"}, {"saturation"}, {"ev"},
              {"exposure"}, {"awb"}, {"imagefx"}, {"colour"}, {"rotation", "flips"}>>
\* The effects have no default colour, only one to be switched off.
AtDefault(s, name) ==
  IF name = "colour" THEN s.colour.enable = 0 ELSE s[name] = Defaults[name]

\* "This will override any user supplied parameters" (RaspiCamControl.c:259):
\* every setting the demo has gone through is at its default, whatever the call
\* went on to do, and stays there when the cycle begins again; what the user
\* asked for lasts until its turn comes, and the setting the cycle is at may
\* have any value (RaspiCamControl.c:267-444).
DemoOverrides ==
  \A p \in 0 .. 9 \ {parameter} : \A name \in Settings[p + 1] :
    IF wrapped \/ p < parameter THEN AtDefault(setting, name)
    ELSE setting[name] = given[name]

-----------------------------------------------------------------------------
(* Zoom keys                                                                *)

Minus(a, b) == (a - b) % Word
Resized(c, command) ==
  CASE command = "in" /\ c.width <= Smallest + Increment ->
         [width |-> Smallest, height |-> Smallest]
    [] command = "in" /\ c.width > Smallest + Increment ->
         [width |-> Minus(c.width, Increment), height |-> Minus(c.height, Increment)]
    [] command = "out" /\ (c.width + Increment) % Word < c.width ->
         [width |-> Unit, height |-> Unit]
    [] command = "out" ->
         [width |-> (c.width + Increment) % Word, height |-> (c.width + Increment) % Word]
    [] command = "reset" -> [width |-> Unit, height |-> Unit]

Centred(c, command) ==
  LET size == Resized(c, command)
      at == IF command = "reset" THEN 0 ELSE Minus(Unit, size.width) \div 2
  IN  [x |-> at, y |-> at, width |-> size.width, height |-> size.height]

Inside(c) ==
  /\ c.width > 0 /\ c.height > 0
  /\ c.x + c.width <= Unit /\ c.y + c.height <= Unit

\* The camera tells its crop and takes the new one, or the key does nothing.
raspicamcontrol_zoom_in_zoom_out(command) ==
  \/ /\ Inside(Centred(crop, command))
     /\ crop' = Centred(crop, command)
     /\ roi' = [x |-> crop'.x, y |-> crop'.x, width |-> crop'.width, height |-> crop'.width]
  \/ UNCHANGED zoomVars

CameraInit ==
  /\ parameter = 0 /\ option = Reset /\ wrapped = FALSE
  /\ given \in UserSettings /\ setting = given
  /\ crop \in InitialCrops /\ roi = crop
=============================================================================
