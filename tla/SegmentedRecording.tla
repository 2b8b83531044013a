------------------------- MODULE SegmentedRecording -------------------------
(***************************************************************************)
(* The recorder in segment mode, as run-camera.sh starts it, and the       *)
(* script that makes a replay of its files.                                *)
(*                                                                         *)
(* The encoder hands its output buffers to encoder_buffer_callback         *)
(* (RaspiVidBalls.c), which appends them to the file of the current        *)
(* segment; main waits for an abort, disables the port and closes the      *)
(* file.  generate-replay.sh lists the files by modification time, drops   *)
(* the latest and concatenates the few before it, while the recorder goes  *)
(* on writing.  The web proxy may kill and restart the recorder.           *)
(*                                                                         *)
(* A buffer is its position in the stream.  The stream is a sequence of    *)
(* groups of GroupLength buffers: a header (CONFIG), a key frame, frames   *)
(* that depend on the one before.  stdio may keep the last buffer written  *)
(* in memory: tail is what fwrite accepted and the file does not have yet. *)
(***************************************************************************)
EXTENDS Integers, Sequences, SequencesExt

CONSTANTS
    Wrap,           \* -wr: the segment number after which 1 follows
    GroupLength,    \* buffers from one header to the next (-g)
    ReplayChunks,   \* replay_chunks of the script
    IgnoreRecent,   \* ignore_recent_chunks of the script
    PoolSize,       \* buffers of the encoder's pool
    MaxBuffers,     \* bound of the model: length of the stream
    MaxFaults,      \* bound: failed opens, writes and returns of a buffer
    MaxRestarts     \* bound: restarts of the recorder

(* A group has a header and at least the key frame.                         *)
ASSUME SegmentsAssumption ==
    /\ Wrap \in Nat \ {0} /\ GroupLength \in Nat \ {0, 1} /\ PoolSize \in Nat \ {0}
    /\ ReplayChunks \in Nat /\ IgnoreRecent \in Nat
    /\ MaxBuffers \in Nat /\ MaxFaults \in Nat /\ MaxRestarts \in Nat

VARIABLES
    main,           \* main of the recorder, "dead" when there is no process
    abort,          \* callback_data.abort
    callback,       \* where the encoder callback is
    sent,           \* the stream so far: the next buffer of the encoder
    due,            \* current_time > base_time + segmentSize
    segmentNumber,
    handle,         \* the segment whose file file_handle writes
    flush_buffers,  \* -fl: every write goes to the file at once
    tail,           \* what is in the stdio buffer of file_handle
    disk,           \* content of the file of each segment
    byTime,         \* the files that exist, the latest modified last
    atPort,         \* output buffers the encoder has
    script,         \* generate-replay.sh
    listed,         \* the files it has still to concatenate
    replay,         \* replay.h264
    lost,           \* history: the buffers whose write failed
    reopened,       \* history: segments begun since the script listed the files
    faults, restarts

processVars == <<flush_buffers, main, abort, restarts>>
streamVars == <<sent, due, atPort, lost>>
fileVars == <<segmentNumber, handle, tail, disk, byTime>>
scriptVars == <<script, listed, replay>>
recorderVars == <<processVars, callback, streamVars, fileVars, faults>>
vars == <<recorderVars, scriptVars, reopened>>

Segments == 1..Wrap
IsHeader(b) == b % GroupLength = 0

(* The files by modification time after that of segment s was modified.    *)
Touched(s) == Append(RemoveFirst(byTime, s), s)

NextNumber == IF segmentNumber + 1 > Wrap THEN 1 ELSE segmentNumber + 1

(* A segment ends only at a header, so that the next begins with one.      *)
SplitAnywhere == due
SplitHere == due /\ IsHeader(sent)

(* The output port is enabled until main has disabled it.                  *)
PortOpen == main \in {"capturing", "stopping"}

(* The files once fclose has written what stdio still has.                 *)
NotClosed == disk
Closed == [disk EXCEPT ![handle] = @ \o tail]

-----------------------------------------------------------------------------

(* run-camera.sh has never run before: no files and no replay.             *)
Init ==
    /\ main = "dead" /\ abort = FALSE /\ callback = "idle"
    /\ sent = 0 /\ due = FALSE /\ flush_buffers \in BOOLEAN
    /\ segmentNumber = 1 /\ handle = 1 /\ tail = <<>>
    /\ disk = [s \in Segments |-> <<>>] /\ byTime = <<>>
    /\ atPort = 0 /\ lost = {}
    /\ script = "idle" /\ listed = <<>> /\ replay = <<>>
    /\ reopened = 0 /\ faults = 0 /\ restarts = 0

(* main up to its loop.  Every run begins with segment 1, over the file an *)
(* earlier run may have left.  When it cannot be opened the recorder goes  *)
(* on without: the encoder gets no buffers.                                *)
Start ==
    /\ main = "dead" /\ restarts <= MaxRestarts
    /\ restarts' = restarts + 1
    /\ main' = "capturing" /\ abort' = FALSE /\ due' = FALSE
    /\ segmentNumber' = 1 /\ handle' = 1 /\ tail' = <<>>
    /\ sent' = sent + ((-sent) % GroupLength)
    /\ \/ /\ disk' = [disk EXCEPT ![1] = <<>>]
          /\ byTime' = Touched(1)
          /\ atPort' = PoolSize
          /\ UNCHANGED faults
       \/ /\ faults < MaxFaults /\ faults' = faults + 1
          /\ atPort' = 0
          /\ UNCHANGED <<disk, byTime>>
    /\ reopened' = IF script = "cat" THEN reopened + 1 ELSE 0
    /\ UNCHANGED <<flush_buffers, callback, lost, scriptVars>>

(* More than segmentSize has passed since base_time.                       *)
Tick ==
    /\ main = "capturing" /\ ~due
    /\ due' = TRUE
    /\ UNCHANGED <<callback, sent, atPort, lost, reopened, faults,
                   processVars, fileVars, scriptVars>>

(* The encoder calls back with the next buffer.                            *)
Deliver ==
    /\ PortOpen /\ callback = "idle"
    /\ atPort > 0 /\ sent < MaxBuffers
    /\ atPort' = atPort - 1
    /\ IF SplitHere
       THEN /\ due' = FALSE
            /\ segmentNumber' = NextNumber
            /\ callback' = "open"
       ELSE /\ callback' = "write"
            /\ UNCHANGED <<due, segmentNumber>>
    /\ UNCHANGED <<sent, handle, tail, disk, byTime, lost, reopened, faults,
                   processVars, scriptVars>>

(* open_filename empties the file of the new segment; if it fails the old  *)
(* file is written on.                                                     *)
OpenNext ==
    /\ callback = "open"
    /\ reopened' = IF script = "cat" THEN reopened + 1 ELSE 0
    /\ \/ /\ disk' = [disk EXCEPT ![segmentNumber] = <<>>]
          /\ byTime' = Touched(segmentNumber)
          /\ callback' = "close"
          /\ UNCHANGED faults
       \/ /\ faults < MaxFaults /\ faults' = faults + 1
          /\ callback' = "write"
          /\ UNCHANGED <<disk, byTime>>
    /\ UNCHANGED <<segmentNumber, handle, tail, processVars, streamVars,
                   scriptVars>>

(* fclose of the old file writes what stdio still has, after the new file  *)
(* has been created: the old one is then the latest modified.              *)
CloseOld ==
    /\ callback = "close"
    /\ disk' = Closed
    /\ byTime' = IF tail = <<>> THEN byTime ELSE Touched(handle)
    /\ handle' = segmentNumber
    /\ tail' = <<>>
    /\ callback' = "write"
    /\ UNCHANGED <<segmentNumber, reopened, faults, processVars, streamVars,
                   scriptVars>>

(* The buffer is written: to the file with -fl, else the end of it only to *)
(* stdio's buffer; or the write falls short and the capture is to be       *)
(* aborted.                                                                *)
Write ==
    /\ callback = "write"
    /\ callback' = "return"
    /\ sent' = sent + 1
    /\ \/ LET written == IF flush_buffers THEN <<sent>> ELSE tail
          IN /\ disk' = [disk EXCEPT ![handle] = @ \o written]
             /\ tail' = IF flush_buffers THEN <<>> ELSE <<sent>>
             /\ byTime' = IF written = <<>> THEN byTime ELSE Touched(handle)
             /\ UNCHANGED <<abort, lost, faults>>
       \/ /\ faults < MaxFaults /\ faults' = faults + 1
          /\ abort' = TRUE
          /\ lost' = lost \cup {sent}
          /\ UNCHANGED <<disk, tail, byTime>>
    /\ UNCHANGED <<flush_buffers, main, due, segmentNumber, handle, atPort,
                   reopened, restarts, scriptVars>>

(* The callback ends: a buffer goes back to the port if it is still open,  *)
(* and is lost to the encoder if the port refuses it.                      *)
ReturnBuffer ==
    /\ callback = "return"
    /\ callback' = "idle"
    /\ \/ /\ atPort' = atPort + 1
          /\ UNCHANGED faults
       \/ /\ faults < MaxFaults /\ faults' = faults + 1
          /\ UNCHANGED atPort
    /\ UNCHANGED <<sent, due, lost, reopened, processVars, fileVars,
                   scriptVars>>

-----------------------------------------------------------------------------

(* wait_for_next_change without a time limit looks for an abort every      *)
(* tenth of a second; main then leaves its loop and stops the preview.     *)
NoticeAbort ==
    /\ main = "capturing" /\ abort
    /\ main' = "stopping"
    /\ UNCHANGED <<flush_buffers, abort, callback, faults, restarts, reopened,
                   streamVars, fileVars, scriptVars>>

(* Disabling the port waits for a callback that is under way.              *)
DisablePort ==
    /\ main = "stopping" /\ callback = "idle"
    /\ main' = "disabled"
    /\ UNCHANGED <<flush_buffers, abort, callback, faults, restarts, reopened,
                   streamVars, fileVars, scriptVars>>

(* main closes the file and ends.                                          *)
Close ==
    /\ main = "disabled"
    /\ main' = "dead"
    /\ disk' = Closed
    /\ byTime' = IF tail = <<>> THEN byTime ELSE Touched(handle)
    /\ tail' = <<>>
    /\ UNCHANGED <<flush_buffers, abort, callback, segmentNumber, handle,
                   faults, restarts, reopened, streamVars, scriptVars>>

(* stopTracking, or run-camera.sh before the next start, terminates the    *)
(* process wherever it is; what stdio had is lost.                         *)
Kill ==
    /\ main # "dead"
    /\ main' = "dead" /\ callback' = "idle" /\ tail' = <<>>
    /\ UNCHANGED <<flush_buffers, abort, segmentNumber, handle, disk, byTime,
                   faults, restarts, reopened, streamVars, scriptVars>>

-----------------------------------------------------------------------------

(* ls -tr | head -n-1 | tail -n14: the files, the latest modified left     *)
(* out, and of those the last few.  Without files the old replay is kept.  *)
CandidatesLatestFirst == SubSeq(Reverse(byTime), 1 + IgnoreRecent, Len(byTime))
Candidates == SubSeq(byTime, 1, Len(byTime) - IgnoreRecent)

ListFiles ==
    /\ script = "idle" /\ Candidates # <<>>
    /\ script' = "cat"
    /\ listed' = SubSeq(Candidates, 1 + IF Len(Candidates) > ReplayChunks
                                        THEN Len(Candidates) - ReplayChunks ELSE 0,
                        Len(Candidates))
    /\ replay' = <<>>
    /\ reopened' = 0
    /\ UNCHANGED recorderVars

(* cat reads the next file, with what the recorder has put into it by now. *)
Concatenate ==
    /\ script = "cat" /\ listed # <<>>
    /\ replay' = replay \o disk[Head(listed)]
    /\ listed' = Tail(listed)
    /\ UNCHANGED <<recorderVars, script, reopened>>

(* The replay is complete and goes to the player; the model forgets it.    *)
Finish ==
    /\ script = "cat" /\ listed = <<>>
    /\ script' = "idle" /\ replay' = <<>> /\ reopened' = 0
    /\ UNCHANGED <<recorderVars, listed>>

-----------------------------------------------------------------------------

Callback == Deliver \/ OpenNext \/ CloseOld \/ Write \/ ReturnBuffer
Main == NoticeAbort \/ DisablePort \/ Close
Script == ListFiles \/ Concatenate \/ Finish

Next == Start \/ Tick \/ Callback \/ Main \/ Kill \/ Script

Spec == Init /\ [][Next]_vars

-----------------------------------------------------------------------------

(* In a replay every frame follows the one it depends on, and that its     *)
(* header, unless the write of that failed: segments begin with a header   *)
(* however the files were switched, killed, reused or cut off while read,  *)
(* as long as fewer of them could not be opened than there are: the number *)
(* of a file that was not opened is skipped, and once round it would be    *)
(* that of the file which is still written.                                *)
ReplayDecodable ==
    faults + 1 < Wrap => \A i \in DOMAIN replay :
        \/ IsHeader(replay[i])
        \/ i > 1 /\ replay[i - 1] = replay[i] - 1
        \/ replay[i] - 1 \in lost

(* In one run of the recorder, while its writes succeed, a replay shows    *)
(* the stream in its order, as long as the recorder begins fewer segments  *)
(* while the script works than -wr leaves beside the chunks it lists.  The *)
(* latest must not be one of them: just after a switch that is the old     *)
(* file, which is closed when the new one has been made.                   *)
ReplayInOrder ==
    (/\ restarts <= 1 /\ lost = {} /\ IgnoreRecent > 0
     /\ reopened + faults + IgnoreRecent <= Wrap - ReplayChunks) =>
        \A i, j \in DOMAIN replay : i < j => replay[i] < replay[j]

(* Without a fault the files and stdio hold every buffer since the oldest  *)
(* they have, each in one place: switching files neither loses the end of  *)
(* the old segment nor writes it to the new one.                           *)
Content(s) == IF s = handle THEN disk[s] \o tail ELSE disk[s]
NothingLost ==
    main \in {"capturing", "stopping"} /\ faults = 0 /\ restarts <= 1 =>
        \A s \in Segments : \A b \in ToSet(Content(s)) :
            /\ b + 1 = sent \/ \E t \in Segments : b + 1 \in ToSet(Content(t))
            /\ \A t \in Segments \ {s} : b \notin ToSet(Content(t))
=============================================================================
