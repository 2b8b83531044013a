-------------------------- MODULE CircularRecording --------------------------
(***************************************************************************)
(* The recorder in circular buffer mode (-c): encoder_buffer_callback puts *)
(* the stream into a buffer of cb_len bytes and notes where key frames     *)
(* begin; when main is triggered it saves what the buffer holds, from the  *)
(* oldest key frame on (src/src/recorder/RaspiVidBalls.c).                 *)
(*                                                                         *)
(* Lengths and positions are in units of bytes; what is written to the     *)
(* buffer is the number of the unit in the stream and whether a key frame  *)
(* begins with it.  The callback runs in a thread of the encoder, between  *)
(* any two steps of main.  Every frames_per_key-th frame is a key frame;   *)
(* each output buffer of a key frame says so.  Buffers are no longer than  *)
(* cb_len.                                                                 *)
(***************************************************************************)
EXTENDS Integers, Sequences, SequencesExt

CONSTANTS
    cb_len,           \* bitrate * (timeout / 1000) / 8
    IFRAME_BUFSIZE,   \* entries of iframe_buff
    HEADER_SIZE,      \* sizeof(header_bytes)
    MaxLength,        \* units of one output buffer of the encoder
    MinKey,           \* the least of them that begin a key frame
    KeyFrameBuffers,  \* output buffers of a key frame; others come in one
    frames_per_key,   \* intraperiod
    MaxUnits,         \* bound: length of the stream
    InFlight          \* bound: buffers the encoder delivers while main saves

ASSUME CircularAssumption ==
    /\ {cb_len, IFRAME_BUFSIZE, MaxLength, KeyFrameBuffers, frames_per_key}
         \subseteq Nat \ {0}
    /\ {HEADER_SIZE, MaxUnits, InFlight} \subseteq Nat
    /\ MaxLength <= cb_len /\ MinKey \in 1..MaxLength

VARIABLES
    saving,           \* main: "waiting" for the trigger, then what it does
    bCapturing,       \* the capture is on
    inFlight,         \* buffers that may still come
    pushed,             \* units of the stream so far
    frame,            \* frames since the last key frame began
    parts,            \* buffers of the frame so far; 0: the next begins one
    frame_start,      \* where the frame begins in cb_buff, or -1
    cb_buff, cb_wptr, cb_wrap,
    iframe_buff, iframe_buff_rpos, iframe_buff_wpos,
    header_wptr,      \* units in header_bytes
    copy_from_end, copy_from_start,
    file,             \* what has been saved after the header
    late              \* history: buffers came after main read the positions

bufferVars == <<cb_buff, cb_wptr, cb_wrap>>
iframeVars == <<iframe_buff, iframe_buff_rpos, iframe_buff_wpos>>
partVars == <<pushed, frame, parts, frame_start>>
saveVars == <<copy_from_end, copy_from_start, file>>
circularVars == <<saving, bCapturing, inFlight, partVars, bufferVars, iframeVars,
          header_wptr, saveVars, late>>

\* State when the port is enabled; state is zero before that.
CircularInit ==
    /\ saving = "waiting" /\ bCapturing = TRUE /\ inFlight = InFlight
    /\ pushed = 0 /\ frame = 0 /\ parts = 0 /\ frame_start = -1
    /\ cb_buff = [p \in 0..cb_len - 1 |-> [unit |-> -1, key |-> FALSE]]
    /\ cb_wptr = 0 /\ cb_wrap = FALSE
    /\ iframe_buff = [i \in 0..IFRAME_BUFSIZE - 1 |-> 0]
    /\ iframe_buff_rpos = 0 /\ iframe_buff_wpos = 0
    /\ header_wptr = 0
    /\ copy_from_end = 0 /\ copy_from_start = 0 /\ file = <<>>
    /\ late = FALSE

-----------------------------------------------------------------------------
(* encoder_buffer_callback                                                 *)

\* What has been captured before a pause is still delivered; without a pause the
\* stream goes on.
MayCome == IF saving = "waiting" THEN inFlight' = inFlight
           ELSE inFlight > 0 /\ inFlight' = inFlight - 1

\* A CONFIG buffer is kept while header_bytes has room for it.
Header ==
    /\ pushed = 0 /\ saving # "done" /\ MayCome
    /\ \E length \in 1..MaxLength :
         /\ header_wptr + length <= HEADER_SIZE
         /\ header_wptr' = header_wptr + length
    /\ UNCHANGED <<saving, bCapturing, partVars, bufferVars, iframeVars,
                   saveVars, late>>

\* The write pointer passes position p, in this lap or the next.
OvertakesThisLap(p, length) == cb_wptr <= p /\ cb_wptr + length > p
Overtakes(p, length) ==
    \/ cb_wptr <= p /\ cb_wptr + length > p
    \/ cb_wptr > p /\ cb_wptr + length > p + cb_len

\* Entries from rpos on are dropped while they are overtaken, if there are two
\* or more; the search does not stop at wpos.
After(i) == (i + 1) % IFRAME_BUFSIZE
FirstKept(entries, rpos, length) ==
    LET Entry(k) == entries[(rpos + k) % IFRAME_BUFSIZE]
        kept == {k \in 0..IFRAME_BUFSIZE - 1 : ~Overtakes(Entry(k), length)}
        k == CHOOSE k \in kept : \A l \in kept : k <= l
    IN  (rpos + k) % IFRAME_BUFSIZE
MoveReadPosition(entries, wpos, length) ==
    iframe_buff_rpos' =
        IF After(iframe_buff_rpos) = wpos THEN iframe_buff_rpos
        ELSE FirstKept(entries, iframe_buff_rpos, length)

\* The bytes go to the end of the buffer and, what does not fit, to its start.
Wrapped(length) == cb_wptr + length > cb_len
Put(length, key) ==
    /\ cb_buff' = [p \in 0..cb_len - 1 |->
                    LET k == (p - cb_wptr) % cb_len
                    IN  IF k < length THEN [unit |-> pushed + k, key |-> key /\ k = 0]
                        ELSE cb_buff[p]]
    /\ cb_wptr' = (cb_wptr + length) % cb_len
    /\ cb_wrap' = (cb_wrap \/ Wrapped(length))

Lengths == IF frame = 0 /\ parts = 0 THEN MinKey..MaxLength ELSE 1..MaxLength
FrameStart == IF frame_start = -1 THEN cb_wptr ELSE frame_start
Push ==
    /\ saving # "done" /\ MayCome
    /\ \E length \in Lengths :
         LET key == frame = 0
             frame_end == parts + 1 = (IF key THEN KeyFrameBuffers ELSE 1)
             start == FrameStart
             entries == IF key THEN [iframe_buff EXCEPT ![iframe_buff_wpos] = start]
                        ELSE iframe_buff
             wpos == IF key THEN After(iframe_buff_wpos) ELSE iframe_buff_wpos
         IN  /\ pushed + length <= MaxUnits
             /\ iframe_buff' = entries /\ iframe_buff_wpos' = wpos
             /\ frame_start' = IF frame_end THEN -1 ELSE start
             /\ MoveReadPosition(entries, wpos, length)
             /\ Put(length, key /\ parts = 0)
             /\ pushed' = pushed + length
             /\ parts' = IF frame_end THEN 0 ELSE parts + 1
             /\ frame' = IF frame_end THEN (frame + 1) % frames_per_key ELSE frame
    /\ late' = (late \/ saving \in {"end", "start"})
    /\ UNCHANGED <<saving, bCapturing, header_wptr, saveVars>>

-----------------------------------------------------------------------------
(* main                                                                     *)

\* The next key or signal pauses the capture; an X, or one after the timeout,
\* ends the loop with the capture on.
Trigger ==
    /\ saving = "waiting" /\ saving' = "positions"
    /\ bCapturing' \in BOOLEAN
    /\ UNCHANGED <<inFlight, partVars, bufferVars, iframeVars, header_wptr,
                   saveVars, late>>

Newest == iframe_buff[(iframe_buff_wpos - 1) % IFRAME_BUFSIZE]
Oldest == iframe_buff[iframe_buff_rpos]
FromStart(end) == IF cb_wptr < cb_len - end THEN cb_wptr ELSE cb_len - end
ReadPositions ==
    /\ saving = "positions" /\ saving' = "end"
    /\ IF cb_wrap
       THEN copy_from_end' = cb_len - Oldest /\ copy_from_start' = FromStart(cb_len - Oldest)
       ELSE copy_from_end' = 0 /\ copy_from_start' = cb_wptr
    /\ UNCHANGED <<bCapturing, inFlight, partVars, bufferVars, iframeVars,
                   header_wptr, file, late>>

\* What lies behind the end of the buffer when the oldest key frame has changed
\* is unknown.
Bytes(from, n) ==
    [k \in 1..n |-> IF from + k - 1 < cb_len THEN cb_buff[from + k - 1]
                    ELSE [unit |-> -1, key |-> FALSE]]
SaveEnd ==
    /\ saving = "end" /\ saving' = "start"
    /\ file' = Bytes(Oldest, copy_from_end)
    /\ UNCHANGED <<bCapturing, inFlight, partVars, bufferVars, iframeVars,
                   header_wptr, copy_from_end, copy_from_start, late>>

SaveStart ==
    /\ saving = "start" /\ saving' = "done"
    /\ file' = file \o Bytes(0, copy_from_start)
    /\ UNCHANGED <<bCapturing, inFlight, partVars, bufferVars, iframeVars,
                   header_wptr, copy_from_end, copy_from_start, late>>

CircularNext ==
    Header \/ Push \/ Trigger \/ ReadPositions \/ SaveEnd \/ SaveStart

-----------------------------------------------------------------------------
(* Properties                                                               *)

\* The list of key frames is true: every entry is where a key frame begins in
\* the buffer, and each of them has its entry ("Error in iframe list",
\* RaspiVidBalls.c:1327-1334).
Live == {iframe_buff[i] : i \in
          {i \in 0..IFRAME_BUFSIZE - 1 :
            (i - iframe_buff_rpos) % IFRAME_BUFSIZE
              < (iframe_buff_wpos - iframe_buff_rpos) % IFRAME_BUFSIZE}}
IframeListTrue == Live = {p \in 0..cb_len - 1 : cb_buff[p].key}

\* What is saved begins with the oldest key frame that is in the buffer and has
\* everything since, if no output came between and unless the buffer was filled
\* to the last byte but never beyond, which cb_wrap does not know
\* (RaspiVidBalls.c:1322, 2927-2945).
Follows(n) == \A k \in 2..n : file[k].unit = file[k - 1].unit + 1
Saved == saving = "done" /\ pushed > 0 /\ ~late /\ (pushed >= cb_len => cb_wrap)
SavedFromOldestKey ==
    Saved => /\ file # <<>> /\ file[1].key
             /\ \A p \in 0..cb_len - 1 : cb_buff[p].key => cb_buff[p].unit >= file[1].unit
             /\ pushed - file[1].unit <= Len(file) /\ Follows(pushed - file[1].unit)

\* What is saved is what has run through the buffer, in the order it came: "Run
\* encoded data through circular buffer until triggered then save"
\* (RaspiVidBalls.c:336).  Where the oldest key frame lies before the write
\* pointer, though, main copies to the end of the buffer (2931-2943), past the
\* newest output to what is left of the lap before.
SavedNothingStale == Saved => Follows(Len(file))
=============================================================================
