---------------------------- MODULE AnalysisQueue ----------------------------
(***************************************************************************)
(* The hand-over of pixel buffers from the GL thread to the analysis       *)
(* thread of the tracker (src/src/tracker/core.cpp): balltrack_core_init,  *)
(* send_buffer_to_analysis, analysis_thread and balltrack_core_term.       *)
(*                                                                         *)
(* A semaphore operation synchronises the two threads; the code between    *)
(* two of them touches the pixel buffers without a lock.  An action ends   *)
(* at each semaphore operation and at each access to a pixel buffer, so    *)
(* that "GL owns slot i" and "analysis owns slot i" are state predicates   *)
(* and a data race on a slot is a state in which both hold.                *)
(*                                                                         *)
(* The pixels of a buffer are abstracted to the number of the send that    *)
(* copied them; 0 stands for the indeterminate contents malloc returns.    *)
(***************************************************************************)
EXTENDS Integers, Sequences

CONSTANTS PIXELBUFFER_COUNT, \* slots of the ring (core.cpp:94)
          MaxSends           \* bound: buffers the GL thread sends

ASSUME QueueAssumption ==
  /\ PIXELBUFFER_COUNT \in Nat \ {0}
  /\ MaxSends \in Nat

PixelBufferType == {"BALL", "FIELD"}
Slot == 0 .. PIXELBUFFER_COUNT - 1
FREED == -1                          \* contents of a buffer after free()
Message == [type : PixelBufferType, pixels : 0 .. MaxSends]

VARIABLES
  semEmptyCount, semFullCount,       \* the two counting semaphores
  nextEmptyBuffer, nextFullBuffer,   \* ring positions of writer and reader
  pixelbufferType, pixelbuffers,     \* the ring itself
  allInitialized, analysis_stop,     \* flags shared by the threads
  glPc, glBuffer, glType,            \* GL thread: control and locals
  anPc, anBuffer, anType,            \* analysis thread: control and locals
  claims,                            \* history: number of claimed slots
  copied,                          \* history: sends whose copy took place
  sent, analysed                     \* history: messages posted and analysed

semVars == <<semEmptyCount, semFullCount>>
ringVars == <<nextEmptyBuffer, nextFullBuffer, pixelbufferType, pixelbuffers>>
flagVars == <<allInitialized, analysis_stop>>
glVars == <<glPc, glBuffer, glType>>
anVars == <<anPc, anBuffer, anType>>
history == <<claims, copied, sent, analysed>>
vars == <<semVars, ringVars, flagVars, glVars, anVars, history>>

\* Slips in the arithmetic of the ring that the properties are tried on.
AdvanceEarly(i) == IF i + 2 >= PIXELBUFFER_COUNT THEN 0 ELSE i + 1

\* The successor of a ring index, wrapping at the last slot.
Advance(i) == IF i + 1 = PIXELBUFFER_COUNT THEN 0 ELSE i + 1

Init ==
  /\ semEmptyCount = 0 /\ semFullCount = 0
  /\ nextEmptyBuffer = 0 /\ nextFullBuffer = 0
  /\ pixelbufferType = [i \in Slot |-> "BALL"]
  /\ pixelbuffers = [i \in Slot |-> 0]
  /\ allInitialized = FALSE /\ analysis_stop = 0
  /\ glPc = "start" /\ glBuffer = 0 /\ glType = "BALL"
  /\ anPc = "none" /\ anBuffer = 0 /\ anType = "BALL"
  /\ claims = 0 /\ copied = {}
  /\ sent = <<>> /\ analysed = <<>>

-----------------------------------------------------------------------------
(* GL thread: set-up and tear-down                                          *)

\* The initial value of semEmptyCount: every slot is empty.
EmptySlotsOneTooMany == PIXELBUFFER_COUNT + 1
EmptySlots == PIXELBUFFER_COUNT

\* balltrack_core_init runs to its end: semaphores, thread, flag.
CoreInit ==
  /\ glPc = "start"
  /\ glPc' = "idle"
  /\ semFullCount' = 0
  /\ semEmptyCount' = EmptySlots
  /\ anPc' = "test"
  /\ allInitialized' = TRUE
  /\ UNCHANGED <<ringVars, analysis_stop, glBuffer, glType, anBuffer, anType,
                 history>>

\* One of its early returns: the flag stays FALSE and no thread exists.
CoreInitFails ==
  /\ glPc = "start"
  /\ glPc' = "initFailed"
  /\ UNCHANGED <<semVars, ringVars, flagVars, glBuffer, glType, anVars,
                 history>>

\* balltrack_core_term up to the join.  The preview worker calls it after a
\* failed initialisation as well.
CoreTerm ==
  /\ glPc \in {"idle", "initFailed"}
  /\ allInitialized' = FALSE
  /\ analysis_stop' = 1
  /\ glPc' = "join"
  /\ UNCHANGED <<semVars, ringVars, glBuffer, glType, anVars, history>>

\* vcos_thread_join returns once the thread's function has returned.
JoinDetached == anPc # "none"
JoinReturns == anPc = "ended"

\* After the join the rest of the function frees
\* the buffers and deletes the semaphores.
CoreTermJoined ==
  /\ glPc = "join"
  /\ JoinReturns
  /\ pixelbuffers' = [i \in Slot |-> FREED]
  /\ glPc' = "terminated"
  /\ UNCHANGED <<semVars, nextEmptyBuffer, nextFullBuffer, pixelbufferType,
                 flagVars, glBuffer, glType, anVars, history>>

\* Joining the zeroed handle of a thread that was never created is undefined:
\* the process dies in pthread_join or the call fails and tear-down goes on.
CoreTermJoinsNothing ==
  /\ glPc = "join"
  /\ anPc = "none"
  /\ \/ glPc' = "crashed" /\ UNCHANGED pixelbuffers
     \/ glPc' = "terminated" /\ pixelbuffers' = [i \in Slot |-> FREED]
  /\ UNCHANGED <<semVars, nextEmptyBuffer, nextFullBuffer, pixelbufferType,
                 flagVars, glBuffer, glType, anVars, history>>

-----------------------------------------------------------------------------
(* GL thread: send_buffer_to_analysis                                       *)

\* balltrack_core_process_image calls it for a ball or a field texture.
SendBegin(type) ==
  /\ glPc = "idle"
  /\ allInitialized
  /\ claims < MaxSends
  /\ glType' = type
  /\ glPc' = "waitEmpty"
  /\ UNCHANGED <<semVars, ringVars, flagVars, glBuffer, anVars, history>>

\* Wait for an empty buffer and claim it: label the slot, step the position.
ClaimBuffer ==
  /\ glPc = "waitEmpty"
  /\ semEmptyCount > 0
  /\ semEmptyCount' = semEmptyCount - 1
  /\ glBuffer' = nextEmptyBuffer
  /\ pixelbufferType' = [pixelbufferType EXCEPT ![nextEmptyBuffer] = glType]
  /\ nextEmptyBuffer' = Advance(nextEmptyBuffer)
  /\ claims' = claims + 1
  /\ glPc' = "copy"
  /\ UNCHANGED <<semFullCount, nextFullBuffer, pixelbuffers, flagVars, glType,
                 anVars, copied, sent, analysed>>

\* The VCSM memory could be locked: its rows are copied into the buffer.
CopyTexture ==
  /\ glPc = "copy"
  /\ pixelbuffers' = [pixelbuffers EXCEPT ![glBuffer] = claims]
  /\ copied' = copied \union {claims}
  /\ glPc' = "post"
  /\ UNCHANGED <<semVars, nextEmptyBuffer, nextFullBuffer, pixelbufferType,
                 flagVars, glBuffer, glType, anVars, claims, sent, analysed>>

\* vcsm_lock_cache failed: an error is printed and the buffer keeps what it
\* held, but it is posted all the same.
LockFails ==
  /\ glPc = "copy"
  /\ glPc' = "post"
  /\ UNCHANGED <<semVars, ringVars, flagVars, glBuffer, glType, anVars,
                 history>>

PostFull ==
  /\ glPc = "post"
  /\ semFullCount' = semFullCount + 1
  /\ sent' = Append(sent, [type |-> glType, pixels |-> pixelbuffers[glBuffer]])
  /\ glPc' = "idle"
  /\ UNCHANGED <<semEmptyCount, ringVars, flagVars, glBuffer, glType, anVars,
                 claims, copied, analysed>>

-----------------------------------------------------------------------------
(* Analysis thread                                                          *)

\* The loop condition is read once per buffer.
LoopTest ==
  /\ anPc = "test"
  /\ anPc' = IF analysis_stop = 0 THEN "waitFull" ELSE "ended"
  /\ UNCHANGED <<semVars, ringVars, flagVars, glVars, anBuffer, anType,
                 history>>

TakeBuffer ==
  /\ anPc = "waitFull"
  /\ semFullCount > 0
  /\ semFullCount' = semFullCount - 1
  /\ anType' = pixelbufferType[nextFullBuffer]
  /\ anBuffer' = nextFullBuffer
  /\ nextFullBuffer' = Advance(nextFullBuffer)
  /\ anPc' = "process"
  /\ UNCHANGED <<semEmptyCount, nextEmptyBuffer, pixelbufferType, pixelbuffers,
                 flagVars, glVars, history>>

\* analysis_process_ball_buffer or _field_buffer has read the whole buffer.
ProcessBuffer ==
  /\ anPc = "process"
  /\ analysed' = Append(analysed,
                        [type |-> anType, pixels |-> pixelbuffers[anBuffer]])
  /\ anPc' = "post"
  /\ UNCHANGED <<semVars, ringVars, flagVars, glVars, anBuffer, anType, claims,
                 copied, sent>>

\* vcos_semaphore_post(&semEmptyCount), after a buffer of either type.
ReleaseBallOnly ==
  semEmptyCount' = semEmptyCount + IF anType = "BALL" THEN 1 ELSE 0
Release == semEmptyCount' = semEmptyCount + 1

PostEmpty ==
  /\ anPc = "post"
  /\ Release
  /\ anPc' = "test"
  /\ UNCHANGED <<semFullCount, ringVars, flagVars, glVars, anBuffer, anType,
                 history>>

-----------------------------------------------------------------------------
GLSetup == CoreInit \/ CoreInitFails
GLTeardown == CoreTerm \/ CoreTermJoined \/ CoreTermJoinsNothing
GLSend == ClaimBuffer \/ CopyTexture \/ LockFails \/ PostFull
GLThread == GLSetup \/ GLTeardown \/ GLSend
            \/ \E type \in PixelBufferType : SendBegin(type)

AnalysisThread == LoopTest \/ TakeBuffer \/ ProcessBuffer \/ PostEmpty

Next == GLThread \/ AnalysisThread

Spec == Init /\ [][Next]_vars

\* Both threads run whenever they can.  When frames arrive and when the
\* program is closed is up to the environment: SendBegin and CoreTerm are not
\* fair.
Fairness ==
  /\ WF_vars(GLSend)
  /\ WF_vars(CoreTermJoined)
  /\ WF_vars(AnalysisThread)

FairSpec == Spec /\ Fairness
-----------------------------------------------------------------------------
(* Properties                                                               *)

\* Types of the variables; both semaphores count slots of the ring.
TypeOK ==
  /\ semEmptyCount \in 0 .. PIXELBUFFER_COUNT
  /\ semFullCount \in 0 .. PIXELBUFFER_COUNT
  /\ nextEmptyBuffer \in Slot
  /\ nextFullBuffer \in Slot
  /\ pixelbufferType \in [Slot -> PixelBufferType]
  /\ pixelbuffers \in [Slot -> (0 .. MaxSends) \union {FREED}]
  /\ allInitialized \in BOOLEAN
  /\ analysis_stop \in {0, 1}
  /\ glPc \in {"start", "idle", "initFailed", "waitEmpty", "copy", "post",
               "join", "terminated", "crashed"}
  /\ glBuffer \in Slot
  /\ glType \in PixelBufferType
  /\ anPc \in {"none", "test", "waitFull", "process", "post", "ended"}
  /\ anBuffer \in Slot
  /\ anType \in PixelBufferType
  /\ claims \in 0 .. MaxSends
  /\ copied \in SUBSET (1 .. MaxSends)
  /\ sent \in Seq(Message)
  /\ analysed \in Seq(Message)

glOwns == IF glPc \in {"copy", "post"} THEN {glBuffer} ELSE {}
anOwns == IF anPc \in {"process", "post"} THEN {anBuffer} ELSE {}

\* The GL thread never writes the label or the pixels of a slot while the
\* analysis thread reads it: the unlocked code between the semaphore
\* operations of the two threads never works on the same buffer.
NoBufferRace == glOwns \intersect anOwns = {}

\* A failed VCSM lock leaves old pixels in the buffer, under the new label.
\* The damage is bounded: the k-th buffer sent holds the k-th texture, or the
\* last one that was copied into the same slot, whole rounds of the ring ago.
StaleOnlyAfterLockFailure ==
  \A k \in 1 .. Len(sent) :
    LET sameSlot == {j \in copied : j <= k /\ (k - j) % PIXELBUFFER_COUNT = 0}
    IN  /\ sent[k].pixels \in sameSlot \union {0}
        /\ \A j \in sameSlot : j <= sent[k].pixels

\* balltrack_core_term frees the buffers and deletes the semaphores only when
\* no thread can touch them any more, whatever was queued when it was called.
TornDownAfterThread ==
  (\E i \in Slot : pixelbuffers[i] = FREED) =>
    /\ anPc \in {"none", "ended"}
    /\ glOwns = {}

\* The ring with its semaphores is a bounded FIFO channel: each buffer is
\* analysed once, in order, with the pixels and the label it was posted with,
\* and all of them are analysed as long as analysis_stop is not set.
Channel ==
  INSTANCE BufferChannel WITH Capacity <- PIXELBUFFER_COUNT,
                              delivered <- analysed, open <- (analysis_stop = 0)
ImplementsChannel == Channel!Spec

\* A GL thread that waits for an empty buffer gets one and returns to
\* rendering: the two threads never wait for each other.
RenderingContinues == glPc = "waitEmpty" ~> glPc = "idle"

\* core.cpp:371 says of the join "Wait for analysis thread to finish": the
\* thread finishes and tear-down completes.  It does not when the thread is
\* blocked on semFullCount, which nobody posts any more.
ShutdownCompletes ==
  (glPc = "join" /\ anPc # "none") ~> glPc = "terminated"
=============================================================================
