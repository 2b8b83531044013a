------------------------------- MODULE Player -------------------------------
(***************************************************************************)
(* The player (src/src/player): the decoder thread that feeds a file to    *)
(* OpenMAX and loops it (video_decode_test), the OpenMAX callback and the  *)
(* GL thread that share one texture through two semaphores (video.c:78-93, *)
(* triangle.c:211-249).                                                    *)
(*                                                                         *)
(* OpenMAX is external: it takes the input buffers in order, announces the *)
(* port settings after the first, makes one frame of each and writes it to *)
(* the texture when it has been asked to.  Calls of it whose failure ends  *)
(* the process (exit(1)) succeed.  Frames are numbered modulo Frames.      *)
(***************************************************************************)
EXTENDS Integers

CONSTANTS
  InputBuffers,    \* buffers of the decoder's input port
  AllocLen,        \* bytes of an input buffer, in units
  FileLen,         \* lengths the file may have, in the same unit
  Frames           \* frame numbers wrap here

ASSUME PlayerAssumption ==
  /\ InputBuffers \in Nat \ {0} /\ AllocLen \in Nat \ {0}
  /\ FileLen \subseteq Nat
  /\ Frames \in Nat /\ Frames > InputBuffers + 4

VARIABLES
  semNewFrame, semFinishedFrame,
  gl, callback, decoder,       \* program counters of the three threads
  fileLen, pos, feof,          \* the file: its length and the stdio state
  data_len, port_settings_changed,
  free, full,                  \* input buffers: empty ones, and submitted ones
  announced,                   \* the PortSettingsChanged event is pending
  decoded,                     \* frames decoded and not yet written
  fill,                        \* egl_render: "none", "asked" or "writing"
  texture, written,            \* frame in the texture; frame written last
  reading, shown               \* frame the GL thread began to read; shown last

fileVars == <<fileLen, pos, feof, data_len>>
omxVars == <<free, full, announced, decoded>>
texVars == <<fill, texture, written>>
glVars == <<reading, shown>>
semVars == <<semNewFrame, semFinishedFrame>>
vars == <<semVars, gl, callback, decoder, fileVars, port_settings_changed,
          omxVars, texVars, glVars>>

Init ==
  /\ semNewFrame = 0 /\ semFinishedFrame = 1      \* triangle.c:293, 298
  /\ gl = "wait" /\ callback = "idle" /\ decoder = "get"
  /\ fileLen \in FileLen /\ pos = 0 /\ feof = FALSE /\ data_len = 0
  /\ port_settings_changed = FALSE
  /\ free = InputBuffers /\ full = 0 /\ announced = FALSE /\ decoded = 0
  /\ fill = "none" /\ texture = 0 /\ written = 0
  /\ reading = 0 /\ shown = 0

Up(f) == (f + 1) % Frames

-----------------------------------------------------------------------------
(* The decoder thread: video_decode_test                                    *)

\* ilclient_get_input_buffer blocks until a buffer is empty.
GetInputBuffer ==
  /\ decoder = "get" /\ free > 0
  /\ free' = free - 1 /\ decoder' = "read"
  /\ UNCHANGED <<semVars, gl, callback, fileVars, port_settings_changed, full,
                 announced, decoded, texVars, glVars>>

\* rewind at end of file, then fread: what is left, at most a buffer.  The end
\* of file is noticed only by a read that wants more than is left.
Read ==
  LET from == IF feof THEN 0 ELSE pos
      n == IF fileLen - from < AllocLen THEN fileLen - from ELSE AllocLen
  IN  /\ decoder = "read"
      /\ data_len' = n /\ pos' = from + n /\ feof' = (n < AllocLen)
      /\ decoder' = "settings"
      /\ UNCHANGED <<semVars, gl, callback, fileLen, port_settings_changed,
                     omxVars, texVars, glVars>>

\* The event is removed if it is there: tunnels are set up, which may fail, and
\* egl_render is asked for a frame.  With no data the wait times out.
PortSettings ==
  /\ decoder = "settings"
  /\ IF announced /\ ~port_settings_changed
     THEN /\ announced' = FALSE /\ port_settings_changed' = TRUE
          /\ \/ fill' = "asked" /\ decoder' = "submit"
             \/ decoder' = "teardown" /\ UNCHANGED fill
     ELSE /\ decoder' = "submit"
          /\ UNCHANGED <<announced, port_settings_changed, fill>>
  /\ UNCHANGED <<semVars, gl, callback, fileVars, free, full, decoded, texture,
                 written, glVars>>

\* Submit what was read, if anything; OpenMAX may refuse it.
Submit ==
  /\ decoder = "submit"
  /\ \/ /\ data_len = 0
        /\ decoder' = "teardown" /\ UNCHANGED <<data_len, full>>
     \/ /\ data_len # 0 /\ data_len' = 0
        /\ \/ decoder' = "get" /\ full' = full + 1
           \/ decoder' = "teardown" /\ UNCHANGED full
  /\ UNCHANGED <<semVars, gl, callback, fileLen, pos, feof, port_settings_changed,
                 free, announced, decoded, texVars, glVars>>

\* Flush and disable the tunnels and components; the thread returns.
TearDown ==
  /\ decoder = "teardown"
  /\ decoder' = "done" /\ full' = 0 /\ decoded' = 0 /\ fill' = "none"
  /\ UNCHANGED <<semVars, gl, callback, fileVars, port_settings_changed, free,
                 announced, texture, written, glVars>>

Decoder == GetInputBuffer \/ Read \/ PortSettings \/ Submit \/ TearDown

-----------------------------------------------------------------------------
(* OpenMAX                                                                  *)

\* A submitted buffer is decoded; the first announces the port settings.
Decode ==
  /\ full > 0 /\ decoded <= 1
  /\ full' = full - 1 /\ free' = free + 1 /\ decoded' = decoded + 1
  /\ announced' = (announced \/ ~port_settings_changed)
  /\ UNCHANGED <<semVars, gl, callback, decoder, fileVars, port_settings_changed,
                 texVars, glVars>>

BeginWrite ==
  /\ fill = "asked" /\ decoded > 0
  /\ fill' = "writing" /\ decoded' = decoded - 1
  /\ texture' = Up(written)
  /\ UNCHANGED <<semVars, gl, callback, decoder, fileVars, port_settings_changed,
                 free, full, announced, written, glVars>>

EndWrite ==
  /\ fill = "writing" /\ callback = "idle"
  /\ fill' = "none" /\ written' = texture
  /\ callback' = "notify"
  /\ UNCHANGED <<semVars, gl, decoder, fileVars, port_settings_changed, omxVars,
                 texture, glVars>>

OpenMAX == Decode \/ BeginWrite \/ EndWrite

-----------------------------------------------------------------------------
(* The callback: my_fill_buffer_done                                        *)

Notify ==
  /\ callback = "notify" /\ callback' = "wait"
  /\ semNewFrame' = semNewFrame + 1
  /\ UNCHANGED <<semFinishedFrame, gl, decoder, fileVars, port_settings_changed,
                 omxVars, texVars, glVars>>

MayFillAlways == TRUE
MayFill == semFinishedFrame > 0
WaitFinished ==
  /\ callback = "wait" /\ MayFill
  /\ semFinishedFrame' = semFinishedFrame - 1
  /\ callback' = "fill"
  /\ UNCHANGED <<semNewFrame, gl, decoder, fileVars, port_settings_changed,
                 omxVars, texVars, glVars>>

FillThisBuffer ==
  /\ callback = "fill" /\ callback' = "idle"
  /\ fill' = IF decoder = "done" THEN "none" ELSE "asked"
  /\ UNCHANGED <<semVars, gl, decoder, fileVars, port_settings_changed, omxVars,
                 texture, written, glVars>>

Callback == Notify \/ WaitFinished \/ FillThisBuffer

-----------------------------------------------------------------------------
(* The GL thread: redraw_scene                                              *)

WaitNewFrame ==
  /\ gl = "wait" /\ semNewFrame > 0
  /\ semNewFrame' = semNewFrame - 1
  /\ gl' = "read" /\ reading' = texture
  /\ UNCHANGED <<semFinishedFrame, callback, decoder, fileVars,
                 port_settings_changed, omxVars, texVars, shown>>

\* balltrack_core_process_image and eglSwapBuffers.
ProcessImage ==
  /\ gl = "read" /\ gl' = "finished" /\ shown' = reading
  /\ UNCHANGED <<semVars, callback, decoder, fileVars, port_settings_changed,
                 omxVars, texVars, reading>>

FinishedNever == UNCHANGED semFinishedFrame
FinishedTwice == semFinishedFrame' = semFinishedFrame + 2
Finished == semFinishedFrame' = semFinishedFrame + 1
PostFinished ==
  /\ gl = "finished" /\ gl' = "wait" /\ Finished
  /\ UNCHANGED <<semNewFrame, callback, decoder, fileVars, port_settings_changed,
                 omxVars, texVars, glVars>>

redraw_scene == WaitNewFrame \/ ProcessImage \/ PostFinished

-----------------------------------------------------------------------------
Next == Decoder \/ OpenMAX \/ Callback \/ redraw_scene

\* Three threads and the decoder hardware, each scheduled forever.
Spec == Init /\ [][Next]_vars
FairSpec ==
  Spec /\ WF_vars(Decoder) /\ WF_vars(Decode) /\ WF_vars(BeginWrite)
       /\ WF_vars(EndWrite) /\ WF_vars(Callback) /\ WF_vars(redraw_scene)

-----------------------------------------------------------------------------
(* Properties                                                               *)

Behind(f, g) == (f - g + Frames) % Frames   \* frames g is behind f

\* Every notification is answered once: what the callback has announced is in
\* semNewFrame, with the GL thread, or back in semFinishedFrame, which starts
\* with one too many, so that two frames can be under way (triangle.c:293-298).
TokensConserved ==
  semNewFrame + (IF gl = "wait" THEN 0 ELSE 1) + semFinishedFrame
    = 1 + (IF callback = "wait" THEN 1 ELSE 0)

\* The picture never goes back: what the GL thread shows is the frame it showed
\* before or a later one, and it is never more than two frames behind what has
\* begun to be written, however the two threads are scheduled (video.c:77-93,
\* triangle.c:240-248).
ShowsRecent ==
  [][Behind(shown', shown) <= 3 /\ Behind(texture', shown') <= 2]_vars

\* The two semaphores never leave both threads waiting: until the decoder
\* thread gives up, frames are drawn forever.
PlaysForever == <>(decoder \in {"teardown", "done"}) \/ []<><<ProcessImage>>_vars
=============================================================================
