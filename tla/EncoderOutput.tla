---------------------------- MODULE EncoderOutput ----------------------------
(***************************************************************************)
(* What encoder_buffer_callback makes of the encoder's output              *)
(* (src/src/recorder/RaspiVidBalls.c): with a circular buffer it fills     *)
(* that, else it appends to the file of the current segment.  A recorder   *)
(* does one of the two for its whole life.                                 *)
(***************************************************************************)
EXTENDS SegmentedRecording, CircularRecording

VARIABLE bCircularBuffer       \* pData->cb_buff is there (-c)

outputVars == <<vars, circularVars, bCircularBuffer>>

OutputInit == bCircularBuffer \in BOOLEAN /\ Init /\ CircularInit

OutputNext ==
    \/ ~bCircularBuffer /\ Next /\ UNCHANGED <<circularVars, bCircularBuffer>>
    \/ bCircularBuffer /\ CircularNext /\ UNCHANGED <<vars, bCircularBuffer>>

OutputSpec == OutputInit /\ [][OutputNext]_outputVars
=============================================================================
