------------------------- MODULE AnalysisQueueProofs -------------------------
(***************************************************************************)
(* Proofs about AnalysisQueue, for every number of slots and of sends.     *)
(*                                                                         *)
(* None of the invariants is inductive alone.  Two facts carry them: the   *)
(* semaphores and the hands of the two threads account for every slot of   *)
(* the ring (Accounting), and the positions, the buffer in the GL thread's *)
(* hand and the queued buffers lie on the ring in that order (Layout).     *)
(* QueueContents then says that what lies in the ring is what was sent.    *)
(***************************************************************************)
EXTENDS AnalysisQueue, TLAPS

\* How many slots each thread holds.
GlHand == IF glPc \in {"copy", "post"} THEN 1 ELSE 0
AnHand == IF anPc \in {"process", "post"} THEN 1 ELSE 0

\* A ring position that ran at most one round past the last slot.
Wrap(i) == IF i >= PIXELBUFFER_COUNT THEN i - PIXELBUFFER_COUNT ELSE i

\* How many messages the analysis thread has taken from the ring.
Taken == Len(analysed) + IF anPc = "process" THEN 1 ELSE 0

\* Which stages of the two threads' lives go together.
Lifecycle ==
  /\ glPc \in {"start", "initFailed"} => anPc = "none"
  /\ glPc \in {"idle", "waitEmpty", "copy", "post"} => anPc # "none"
  /\ analysis_stop = 0 <=> glPc \notin {"join", "terminated", "crashed"}
  /\ glPc \in {"terminated", "crashed"} => anPc \in {"none", "ended"}
  /\ anPc = "ended" => analysis_stop = 1
  /\ glPc # "terminated" => \A i \in Slot : pixelbuffers[i] # FREED

\* Every slot is empty, full, or in the hand of exactly one thread.
Accounting ==
  /\ anPc # "none" =>
       semEmptyCount + semFullCount + GlHand + AnHand = PIXELBUFFER_COUNT
  /\ anPc = "none" => semEmptyCount = 0 /\ semFullCount = 0 /\ GlHand = 0
  /\ Len(sent) = Taken + semFullCount
  /\ claims = Len(sent) + GlHand
  /\ glPc = "waitEmpty" => claims < MaxSends

\* Around the ring: the slot in the analysis thread's hand, the full slots,
\* the slot in the GL thread's hand, the next empty slot.
Layout ==
  /\ nextEmptyBuffer = Wrap(nextFullBuffer + semFullCount + GlHand)
  /\ GlHand = 1 => glBuffer = Wrap(nextFullBuffer + semFullCount)
  /\ AnHand = 1 => nextFullBuffer = Advance(anBuffer)

\* The full slots and the one being analysed hold what was sent, in order.
QueueContents ==
  /\ GlHand = 1 => pixelbufferType[glBuffer] = glType
  /\ \A j \in 1 .. semFullCount :
       glPc # "terminated" =>
         /\ pixelbufferType[Wrap(nextFullBuffer + (j - 1))] = sent[Taken + j].type
         /\ pixelbuffers[Wrap(nextFullBuffer + (j - 1))] = sent[Taken + j].pixels
  /\ anPc = "process" =>
       /\ anType = sent[Taken].type
       /\ pixelbuffers[anBuffer] = sent[Taken].pixels

IInv == TypeOK /\ Lifecycle /\ Accounting /\ Layout /\ QueueContents

USE DEF Slot, FREED

-----------------------------------------------------------------------------
(* Ring arithmetic                                                          *)

\* Going one slot round the ring is adding one to the position, wrapped.
LEMMA AdvanceIsWrap ==
  ASSUME NEW i \in Slot
  PROVE  Advance(i) = Wrap(i + 1) /\ Advance(i) \in Slot
BY QueueAssumption DEF Advance, Wrap

\* Moving the origin one slot on and the offset one slot back changes nothing.
LEMMA WrapShift ==
  ASSUME NEW i \in Slot, NEW d \in 0 .. PIXELBUFFER_COUNT - 1
  PROVE  Wrap(Advance(i) + d) = Wrap(i + (d + 1))
BY QueueAssumption DEF Advance, Wrap

\* Two offsets that differ by less than a round are different slots.
LEMMA WrapInjective ==
  ASSUME NEW i \in Slot, NEW d \in 0 .. PIXELBUFFER_COUNT,
         NEW e \in 0 .. PIXELBUFFER_COUNT, d < e, e < d + PIXELBUFFER_COUNT
  PROVE  Wrap(i + d) # Wrap(i + e)
BY QueueAssumption DEF Wrap

LEMMA WrapInSlot ==
  ASSUME NEW i \in Slot, NEW d \in 0 .. PIXELBUFFER_COUNT
  PROVE  Wrap(i + d) \in Slot
BY QueueAssumption DEF Wrap

-----------------------------------------------------------------------------
(* The invariant                                                            *)

LEMMA InitIInv == Init => IInv
<1> SUFFICES ASSUME Init PROVE IInv
  OBVIOUS
<1> USE QueueAssumption DEF Init
<1>1. TypeOK
  BY DEF TypeOK, PixelBufferType, Message
<1>2. Lifecycle
  BY DEF Lifecycle
<1>3. Accounting /\ Layout /\ QueueContents
  BY DEF Accounting, Layout, QueueContents, Taken, GlHand, AnHand, Wrap
<1>4. QED
  BY <1>1, <1>2, <1>3 DEF IInv

LEMMA SetupKeepsIInv == IInv /\ GLSetup => IInv'
<1> USE QueueAssumption DEF IInv, semVars, ringVars, flagVars, anVars, history
<1>1. ASSUME IInv, CoreInit PROVE IInv'
  <2>1. TypeOK'
    BY <1>1 DEF CoreInit, TypeOK, EmptySlots
  <2>2. Lifecycle'
    BY <1>1 DEF CoreInit, Lifecycle
  <2>3. Accounting'
    BY <1>1 DEF CoreInit, TypeOK, Lifecycle, Accounting, GlHand, AnHand,
                Taken, EmptySlots
  <2>4. Layout' /\ QueueContents'
    BY <1>1 DEF CoreInit, TypeOK, Lifecycle, Accounting, Layout,
                QueueContents, GlHand, AnHand, Taken, Wrap, Advance
  <2>5. QED
    BY <2>1, <2>2, <2>3, <2>4
<1>2. ASSUME IInv, CoreInitFails PROVE IInv'
  <2>1. TypeOK' /\ Lifecycle' /\ Accounting'
    BY <1>2 DEF CoreInitFails, TypeOK, Lifecycle, Accounting, GlHand, AnHand,
                Taken
  <2>2. Layout' /\ QueueContents'
    BY <1>2 DEF CoreInitFails, TypeOK, Lifecycle, Accounting, Layout,
                QueueContents, GlHand, AnHand, Taken, Wrap, Advance
  <2>3. QED
    BY <2>1, <2>2
<1>3. QED
  BY <1>1, <1>2 DEF GLSetup

LEMMA TeardownKeepsIInv == IInv /\ GLTeardown => IInv'
<1> USE QueueAssumption
    DEF IInv, semVars, ringVars, flagVars, anVars, history
<1>1. ASSUME IInv, CoreTerm PROVE IInv'
  <2>1. TypeOK'
    BY <1>1 DEF CoreTerm, TypeOK
  <2>2. Lifecycle'
    BY <1>1 DEF CoreTerm, TypeOK, Lifecycle
  <2>3. Accounting' /\ Layout' /\ QueueContents'
    BY <1>1 DEF CoreTerm, Accounting, Layout, QueueContents, GlHand, AnHand,
                Taken, Wrap, Advance
  <2>4. QED
    BY <2>1, <2>2, <2>3
<1>2. ASSUME IInv, CoreTermJoined \/ CoreTermJoinsNothing PROVE IInv'
  <2>1. /\ glPc = "join" /\ glPc' \in {"terminated", "crashed"}
        /\ anPc \in {"none", "ended"}
        /\ glPc' = "crashed" => pixelbuffers' = pixelbuffers
        /\ glPc' = "terminated" => pixelbuffers' = [i \in Slot |-> FREED]
        /\ UNCHANGED <<semVars, nextEmptyBuffer, nextFullBuffer,
                       pixelbufferType, flagVars, glBuffer, glType, anVars,
                       history>>
    BY <1>2 DEF CoreTermJoined, CoreTermJoinsNothing, JoinReturns
  <2>2. TypeOK'
    BY <1>2, <2>1 DEF TypeOK
  <2>3. Lifecycle'
    BY <1>2, <2>1 DEF Lifecycle, TypeOK
  <2>4. Accounting' /\ Layout'
    BY <1>2, <2>1 DEF Accounting, Layout, TypeOK, GlHand, AnHand, Taken, Wrap,
                      Advance
  <2>5. QueueContents'
    BY <1>2, <2>1 DEF QueueContents, GlHand, AnHand, Taken, Wrap
  <2>6. QED
    BY <2>2, <2>3, <2>4, <2>5
<1>3. QED
  BY <1>1, <1>2 DEF GLTeardown

LEMMA SendKeepsIInv ==
  IInv /\ (GLSend \/ \E type \in PixelBufferType : SendBegin(type)) => IInv'
<1> USE QueueAssumption
    DEF IInv, semVars, ringVars, flagVars, anVars, history
<1>1. ASSUME IInv, NEW type \in PixelBufferType, SendBegin(type) PROVE IInv'
  BY <1>1 DEF SendBegin, TypeOK, Lifecycle, Accounting, Layout, QueueContents,
              GlHand, AnHand, Taken, Wrap, Advance
<1>2. ASSUME IInv, ClaimBuffer PROVE IInv'
  <2>1. semFullCount \in 0 .. PIXELBUFFER_COUNT - 1 /\ AnHand \in {0, 1}
    BY <1>2 DEF ClaimBuffer, TypeOK, Lifecycle, Accounting, GlHand, AnHand
  <2>2. TypeOK'
    <3>1. claims < MaxSends /\ Advance(nextEmptyBuffer) \in Slot
      BY <1>2, AdvanceIsWrap DEF ClaimBuffer, TypeOK, Accounting
    <3>2. QED
      BY <1>2, <3>1 DEF ClaimBuffer, TypeOK
  <2>7. Lifecycle'
    BY <1>2 DEF ClaimBuffer, TypeOK, Lifecycle
  <2>3. Accounting'
    <3>1. GlHand = 0 /\ GlHand' = 1 /\ AnHand' = AnHand /\ Taken' = Taken
      BY <1>2 DEF ClaimBuffer, GlHand, AnHand, Taken
    <3>2. Taken \in Nat /\ Len(sent) \in Nat
      BY <1>2 DEF TypeOK, Taken
    <3>3. /\ semEmptyCount \in Nat /\ claims \in Nat
          /\ anPc # "none" /\ anPc' = anPc
          /\ semEmptyCount' = semEmptyCount - 1 /\ semFullCount' = semFullCount
          /\ sent' = sent /\ claims' = claims + 1 /\ glPc' = "copy"
      BY <1>2 DEF ClaimBuffer, TypeOK, Lifecycle
    <3>4. QED
      BY <1>2, <2>1, <3>1, <3>2, <3>3 DEF Accounting
  <2>4. Layout'
    BY <1>2, <2>1, AdvanceIsWrap
       DEF ClaimBuffer, TypeOK, Layout, GlHand, AnHand, Wrap, Advance
  <2>5. QueueContents'
    <3>1. GlHand = 0 /\ GlHand' = 1 /\ Taken' = Taken
      BY <1>2 DEF ClaimBuffer, GlHand, Taken
    <3>2. nextEmptyBuffer = Wrap(nextFullBuffer + semFullCount)
      BY <1>2, <3>1 DEF Layout, TypeOK
    <3>3. pixelbufferType'[glBuffer'] = glType'
      BY <1>2 DEF ClaimBuffer, TypeOK
    <3>4. ASSUME NEW j \in 1 .. semFullCount
          PROVE  LET i == Wrap(nextFullBuffer + (j - 1))
                 IN  /\ i \in Slot
                     /\ pixelbufferType'[i] = pixelbufferType[i]
      <4> DEFINE d == j - 1
      <4>0. /\ nextFullBuffer \in Slot
            /\ d \in 0 .. PIXELBUFFER_COUNT
            /\ semFullCount \in 0 .. PIXELBUFFER_COUNT
            /\ d < semFullCount /\ semFullCount < d + PIXELBUFFER_COUNT
        BY <1>2, <2>1 DEF TypeOK
      <4> HIDE DEF d
      <4>1. Wrap(nextFullBuffer + d) # nextEmptyBuffer
        BY <4>0, <3>2, WrapInjective
      <4>2. Wrap(nextFullBuffer + d) \in Slot
        BY <4>0, WrapInSlot
      <4>3. QED
        BY <1>2, <4>1, <4>2 DEF ClaimBuffer, TypeOK, d
    <3>5. QED
      BY <1>2, <3>1, <3>3, <3>4 DEF ClaimBuffer, QueueContents, Wrap
  <2>6. QED
    BY <2>2, <2>3, <2>4, <2>5, <2>7
<1>3. ASSUME IInv, CopyTexture PROVE IInv'
  <2>1. claims \in 1 .. MaxSends /\ GlHand = 1 /\ GlHand' = 1
        /\ AnHand' = AnHand /\ Taken' = Taken
    BY <1>3 DEF CopyTexture, TypeOK, Accounting, GlHand, AnHand, Taken
  <2>2. TypeOK' /\ Lifecycle'
    BY <1>3, <2>1 DEF CopyTexture, TypeOK, Lifecycle
  <2>3. Accounting' /\ Layout'
    BY <1>3, <2>1 DEF CopyTexture, Lifecycle, Accounting, Layout, Wrap, Advance
  <2>4. QueueContents'
    <3>1. /\ semFullCount \in 0 .. PIXELBUFFER_COUNT - 1
          /\ glBuffer = Wrap(nextFullBuffer + semFullCount)
          /\ AnHand = 1 => semFullCount < PIXELBUFFER_COUNT - 1
      <4>1. /\ semEmptyCount \in Nat /\ semFullCount \in Nat
            /\ anPc # "none" /\ AnHand \in {0, 1}
        BY <1>3 DEF CopyTexture, TypeOK, Lifecycle, AnHand
      <4>2. semEmptyCount + semFullCount + 1 + AnHand = PIXELBUFFER_COUNT
        BY <1>3, <2>1, <4>1 DEF Accounting
      <4>3. glBuffer = Wrap(nextFullBuffer + semFullCount)
        BY <1>3, <2>1 DEF Layout
      <4>4. QED
        BY <4>1, <4>2, <4>3
    <3>2. ASSUME NEW j \in 1 .. semFullCount
          PROVE  LET i == Wrap(nextFullBuffer + (j - 1))
                 IN  pixelbuffers'[i] = pixelbuffers[i]
      <4> DEFINE d == j - 1
      <4>0. /\ nextFullBuffer \in Slot
            /\ d \in 0 .. PIXELBUFFER_COUNT
            /\ semFullCount \in 0 .. PIXELBUFFER_COUNT
            /\ d < semFullCount /\ semFullCount < d + PIXELBUFFER_COUNT
        BY <1>3, <3>1 DEF TypeOK
      <4> HIDE DEF d
      <4>1. Wrap(nextFullBuffer + d) # glBuffer
        BY <4>0, <3>1, WrapInjective
      <4>2. Wrap(nextFullBuffer + d) \in Slot
        BY <4>0, WrapInSlot
      <4>3. QED
        BY <1>3, <4>1, <4>2 DEF CopyTexture, TypeOK, d
    <3>3. ASSUME anPc = "process" PROVE pixelbuffers'[anBuffer] = pixelbuffers[anBuffer]
      <4>1. AnHand = 1
        BY <3>3 DEF AnHand
      <4>2. anBuffer # glBuffer
        BY <1>3, <3>1, <4>1, <2>1 DEF TypeOK, Layout, Wrap, Advance
      <4>3. QED
        BY <1>3, <4>2 DEF CopyTexture, TypeOK
    <3>4. QED
      BY <1>3, <2>1, <3>2, <3>3 DEF CopyTexture, QueueContents, Wrap
  <2>5. QED
    BY <2>2, <2>3, <2>4
<1>4. ASSUME IInv, LockFails PROVE IInv'
  <2>1. TypeOK' /\ Lifecycle'
    BY <1>4 DEF LockFails, TypeOK, Lifecycle
  <2>2. Accounting' /\ Layout' /\ QueueContents'
    BY <1>4 DEF LockFails, Accounting, Layout, QueueContents, GlHand, AnHand,
                Taken, Wrap, Advance
  <2>3. QED
    BY <2>1, <2>2
<1>5. ASSUME IInv, PostFull PROVE IInv'
  <2> DEFINE m == [type |-> glType, pixels |-> pixelbuffers[glBuffer]]
  <2>1. /\ GlHand = 1 /\ GlHand' = 0
        /\ AnHand' = AnHand /\ AnHand \in {0, 1}
        /\ Taken' = Taken /\ Taken \in Nat
        /\ anPc # "none" /\ anPc' = anPc
        /\ semFullCount \in 0 .. PIXELBUFFER_COUNT - 1
        /\ semFullCount' = semFullCount + 1 /\ semEmptyCount' = semEmptyCount
    BY <1>5 DEF PostFull, TypeOK, Lifecycle, Accounting, GlHand, AnHand, Taken
  <2>2. /\ m \in Message
        /\ sent' = Append(sent, m) /\ sent \in Seq(Message)
        /\ sent' \in Seq(Message)
        /\ Len(sent') = Len(sent) + 1 /\ Len(sent) \in Nat
        /\ \A k \in 1 .. Len(sent) : sent'[k] = sent[k]
        /\ sent'[Len(sent) + 1] = m
    <3>1. glPc = "post" /\ sent' = Append(sent, m) /\ sent \in Seq(Message)
      BY <1>5 DEF PostFull, TypeOK
    <3>2. pixelbuffers[glBuffer] \in 0 .. MaxSends /\ glType \in PixelBufferType
      BY <1>5, <3>1 DEF TypeOK, Lifecycle
    <3>3. m \in Message
      BY <3>2 DEF Message
    <3>4. QED
      BY <3>1, <3>3
  <2> HIDE DEF m
  <2>3. TypeOK'
    BY <1>5, <2>1, <2>2 DEF PostFull, TypeOK
  <2>4. Lifecycle'
    BY <1>5 DEF PostFull, TypeOK, Lifecycle
  <2>5. Accounting'
    <3>1. claims' = claims /\ claims = Len(sent) + 1 /\ glPc' = "idle"
          /\ Len(sent) = Taken + semFullCount
          /\ semEmptyCount \in Nat
          /\ semEmptyCount + semFullCount + 1 + AnHand = PIXELBUFFER_COUNT
      BY <1>5, <2>1 DEF PostFull, TypeOK, Accounting
    <3>2. QED
      BY <2>1, <2>2, <3>1 DEF Accounting
  <2>6. Layout'
    BY <1>5, <2>1 DEF PostFull, TypeOK, Layout, Wrap, Advance
  <2>7. QueueContents'
    <3>1. /\ glBuffer = Wrap(nextFullBuffer + semFullCount)
          /\ Taken + semFullCount = Len(sent)
          /\ pixelbufferType[glBuffer] = glType
          /\ nextFullBuffer' = nextFullBuffer
          /\ pixelbufferType' = pixelbufferType /\ pixelbuffers' = pixelbuffers
          /\ anBuffer' = anBuffer /\ anType' = anType
          /\ glPc # "terminated"
      BY <1>5, <2>1 DEF PostFull, Layout, Accounting, QueueContents
    <3>2. ASSUME NEW j \in 1 .. semFullCount + 1
          PROVE  LET i == Wrap(nextFullBuffer + (j - 1))
                 IN  /\ pixelbufferType[i] = sent'[Taken + j].type
                     /\ pixelbuffers[i] = sent'[Taken + j].pixels
      <4>1. CASE j = semFullCount + 1
        BY <2>1, <2>2, <3>1, <4>1 DEF m
      <4>2. CASE j \in 1 .. semFullCount
        <5>1. Taken + j \in 1 .. Len(sent)
          BY <2>1, <2>2, <3>1, <4>2
        <5>2. QED
          BY <1>5, <2>2, <3>1, <4>2, <5>1 DEF QueueContents
      <4>3. QED
        BY <4>1, <4>2, <2>1
    <3>3. anPc = "process" => Taken \in 1 .. Len(sent)
      BY <1>5, <2>1, <2>2, <3>1 DEF Taken, TypeOK
    <3>4. QED
      BY <1>5, <2>1, <2>2, <3>1, <3>2, <3>3 DEF QueueContents, Wrap
  <2>8. QED
    BY <2>3, <2>4, <2>5, <2>6, <2>7
<1>6. QED
  BY <1>1, <1>2, <1>3, <1>4, <1>5 DEF GLSend

LEMMA AnalysisKeepsIInv == IInv /\ AnalysisThread => IInv'
<1> USE QueueAssumption
    DEF IInv, semVars, ringVars, flagVars, glVars, history
<1>1. ASSUME IInv, LoopTest PROVE IInv'
  <2>1. TypeOK' /\ Lifecycle'
    BY <1>1 DEF LoopTest, TypeOK, Lifecycle
  <2>2. /\ AnHand = 0 /\ AnHand' = 0 /\ GlHand' = GlHand /\ Taken' = Taken
        /\ anPc # "none" /\ anPc' # "none" /\ anPc' # "process"
    BY <1>1 DEF LoopTest, GlHand, AnHand, Taken
  <2>3. Accounting' /\ Layout' /\ QueueContents'
    BY <1>1, <2>2 DEF LoopTest, Accounting, Layout, QueueContents, Wrap
  <2>4. QED
    BY <2>1, <2>3
<1>2. ASSUME IInv, TakeBuffer PROVE IInv'
  <2>1. /\ AnHand = 0 /\ AnHand' = 1
        /\ GlHand' = GlHand /\ GlHand \in {0, 1}
        /\ Taken = Len(analysed) /\ Taken' = Taken + 1
        /\ Taken \in Nat /\ Len(sent) \in Nat
        /\ semFullCount \in 1 .. PIXELBUFFER_COUNT
        /\ semFullCount' = semFullCount - 1 /\ semEmptyCount' = semEmptyCount
        /\ semEmptyCount \in Nat
        /\ anPc # "none" /\ anPc' = "process"
        /\ anBuffer' = nextFullBuffer
        /\ nextFullBuffer \in Slot /\ nextFullBuffer' = Advance(nextFullBuffer)
        /\ nextEmptyBuffer' = nextEmptyBuffer /\ glBuffer' = glBuffer
        /\ pixelbufferType' = pixelbufferType /\ pixelbuffers' = pixelbuffers
        /\ sent' = sent /\ claims' = claims /\ glPc' = glPc /\ glType' = glType
        /\ anType' = pixelbufferType[nextFullBuffer]
    BY <1>2 DEF TakeBuffer, TypeOK, GlHand, AnHand, Taken
  <2>2. TypeOK'
    <3>1. /\ Advance(nextFullBuffer) \in Slot
          /\ pixelbufferType[nextFullBuffer] \in PixelBufferType
      BY <1>2, <2>1, AdvanceIsWrap DEF TypeOK
    <3>2. QED
      BY <1>2, <2>1, <3>1 DEF TakeBuffer, TypeOK
  <2>3. Lifecycle'
    BY <1>2 DEF TakeBuffer, TypeOK, Lifecycle
  <2>4. Accounting'
    BY <1>2, <2>1 DEF Accounting
  <2>5. semFullCount + GlHand \in 1 .. PIXELBUFFER_COUNT
    BY <1>2, <2>1 DEF Accounting
  <2>6. \A e \in 1 .. PIXELBUFFER_COUNT :
          Wrap(nextFullBuffer' + (e - 1)) = Wrap(nextFullBuffer + e)
    BY <2>1 DEF Wrap, Advance
  <2>7. Layout'
    <3>1. nextEmptyBuffer' = Wrap(nextFullBuffer' + semFullCount' + GlHand')
      BY <1>2, <2>1, <2>5, <2>6 DEF Layout, Wrap, Advance
    <3>2. GlHand' = 1 => glBuffer' = Wrap(nextFullBuffer' + semFullCount')
      BY <1>2, <2>1, <2>5, <2>6 DEF Layout, Wrap, Advance
    <3>3. nextFullBuffer' = Advance(anBuffer')
      BY <2>1
    <3>4. QED
      BY <3>1, <3>2, <3>3 DEF Layout, Wrap, Advance
  <2>8. QueueContents'
    <3>1. glPc # "terminated"
      BY <1>2 DEF TakeBuffer, Lifecycle
    <3>2. ASSUME NEW j \in 1 .. semFullCount - 1
          PROVE  LET i == Wrap(nextFullBuffer' + (j - 1))
                 IN  /\ pixelbufferType[i] = sent[Taken + 1 + j].type
                     /\ pixelbuffers[i] = sent[Taken + 1 + j].pixels
      <4> DEFINE k == j + 1
      <4>1. /\ k \in 1 .. semFullCount /\ k - 1 = j /\ Taken + k = Taken + 1 + j
            /\ j \in 1 .. PIXELBUFFER_COUNT
        BY <2>1
      <4>2. /\ pixelbufferType[Wrap(nextFullBuffer + (k - 1))] = sent[Taken + k].type
            /\ pixelbuffers[Wrap(nextFullBuffer + (k - 1))] = sent[Taken + k].pixels
        BY <1>2, <3>1, <4>1 DEF QueueContents
      <4>3. QED
        BY <2>6, <4>1, <4>2
    <3>3. /\ pixelbufferType[nextFullBuffer] = sent[Taken + 1].type
          /\ pixelbuffers[nextFullBuffer] = sent[Taken + 1].pixels
      <4>1. 1 \in 1 .. semFullCount /\ Wrap(nextFullBuffer + (1 - 1)) = nextFullBuffer
        BY <2>1 DEF Wrap
      <4>2. QED
        BY <1>2, <3>1, <4>1 DEF QueueContents
    <3>4. QED
      BY <1>2, <2>1, <3>2, <3>3 DEF QueueContents, Wrap
  <2>9. QED
    BY <2>2, <2>3, <2>4, <2>7, <2>8
<1>3. ASSUME IInv, ProcessBuffer PROVE IInv'
  <2> DEFINE m == [type |-> anType, pixels |-> pixelbuffers[anBuffer]]
  <2>1. /\ AnHand = 1 /\ AnHand' = 1 /\ GlHand' = GlHand
        /\ anPc = "process" /\ anPc' = "post"
        /\ analysed' = Append(analysed, m) /\ analysed \in Seq(Message)
    BY <1>3 DEF ProcessBuffer, TypeOK, GlHand, AnHand
  <2>2. m \in Message
    <3>1. anType \in PixelBufferType /\ pixelbuffers[anBuffer] \in 0 .. MaxSends
      BY <1>3, <2>1 DEF TypeOK, Lifecycle
    <3>2. QED
      BY <3>1 DEF Message
  <2> HIDE DEF m
  <2>3. /\ analysed' \in Seq(Message)
        /\ Len(analysed') = Len(analysed) + 1 /\ Len(analysed) \in Nat
    BY <2>1, <2>2
  <2>4. Taken' = Taken
    BY <2>1, <2>3 DEF Taken
  <2>5. TypeOK' /\ Lifecycle'
    BY <1>3, <2>3 DEF ProcessBuffer, TypeOK, Lifecycle
  <2>6. Accounting' /\ Layout' /\ QueueContents'
    BY <1>3, <2>1, <2>4 DEF ProcessBuffer, Accounting, Layout, QueueContents,
                            Wrap, Advance
  <2>7. QED
    BY <2>5, <2>6
<1>4. ASSUME IInv, PostEmpty PROVE IInv'
  <2>1. /\ AnHand = 1 /\ AnHand' = 0 /\ GlHand' = GlHand /\ GlHand \in {0, 1}
        /\ Taken' = Taken /\ anPc = "post" /\ anPc' = "test"
        /\ semEmptyCount' = semEmptyCount + 1 /\ semFullCount' = semFullCount
        /\ semEmptyCount \in Nat /\ semFullCount \in Nat
    BY <1>4 DEF PostEmpty, Release, TypeOK, GlHand, AnHand, Taken
  <2>2. semEmptyCount + semFullCount + GlHand + 1 = PIXELBUFFER_COUNT
    BY <1>4, <2>1 DEF Accounting
  <2>3. TypeOK'
    BY <1>4, <2>1, <2>2 DEF PostEmpty, TypeOK
  <2>4. Lifecycle'
    BY <1>4 DEF PostEmpty, TypeOK, Lifecycle
  <2>5. Accounting' /\ Layout' /\ QueueContents'
    BY <1>4, <2>1, <2>2 DEF PostEmpty, Accounting, Layout, QueueContents, Wrap,
                            Advance
  <2>6. QED
    BY <2>3, <2>4, <2>5
<1>5. QED
  BY <1>1, <1>2, <1>3, <1>4 DEF AnalysisThread

\* The invariant holds of every behaviour.
THEOREM Invariance == Spec => []IInv
<1>1. IInv /\ UNCHANGED vars => IInv'
  <2> SUFFICES ASSUME IInv, UNCHANGED vars PROVE IInv'
    OBVIOUS
  <2> USE DEF vars, semVars, ringVars, flagVars, glVars, anVars, history
  <2>1. TypeOK' /\ Lifecycle'
    BY DEF IInv, TypeOK, Lifecycle
  <2>2. GlHand' = GlHand /\ AnHand' = AnHand /\ Taken' = Taken
    BY DEF GlHand, AnHand, Taken
  <2>3. Accounting' /\ Layout' /\ QueueContents'
    BY <2>2 DEF IInv, Accounting, Layout, QueueContents, Wrap, Advance
  <2>4. QED
    BY <2>1, <2>3 DEF IInv
<1>2. IInv /\ [Next]_vars => IInv'
  BY <1>1, SetupKeepsIInv, TeardownKeepsIInv, SendKeepsIInv, AnalysisKeepsIInv
     DEF Next, GLThread
<1>3. QED
  BY InitIInv, <1>2, PTL DEF Spec

-----------------------------------------------------------------------------
(* What follows from it                                                     *)

\* The variables keep their types; in particular neither semaphore ever
\* counts more than the slots of the ring, and no index leaves the ring.
THEOREM TypeCorrect == Spec => []TypeOK
BY Invariance, PTL DEF IInv

\* For any number of slots the GL thread and the analysis thread never work
\* on the same pixel buffer.
THEOREM NoRace == Spec => []NoBufferRace
<1>1. IInv => NoBufferRace
  <2> SUFFICES ASSUME IInv, GlHand = 1, AnHand = 1 PROVE glBuffer # anBuffer
    BY DEF NoBufferRace, glOwns, anOwns, GlHand, AnHand
  <2>1. semFullCount \in 0 .. PIXELBUFFER_COUNT - 2
    BY QueueAssumption DEF IInv, TypeOK, Accounting, AnHand
  <2>2. QED
    BY <2>1, QueueAssumption DEF IInv, TypeOK, Layout, Wrap, Advance
<1>2. QED
  BY <1>1, Invariance, PTL

\* The pixel buffers are freed only when no thread can touch them any more.
THEOREM TearDownIsLast == Spec => []TornDownAfterThread
<1>1. IInv => TornDownAfterThread
  BY DEF IInv, Lifecycle, TornDownAfterThread, glOwns
<1>2. QED
  BY <1>1, Invariance, PTL

-----------------------------------------------------------------------------
(* The ring implements the channel                                          *)

LEMMA InitImplements == Init => Channel!Init
BY DEF Init, Channel!Init

LEMMA StepImplements ==
  IInv /\ [Next]_vars => [Channel!Next]_(Channel!vars)
<1> SUFFICES ASSUME IInv, [Next]_vars PROVE [Channel!Next]_(Channel!vars)
  OBVIOUS
<1> USE QueueAssumption
    DEF Channel!vars, semVars, ringVars, flagVars, glVars, anVars, history
<1>1. CASE PostFull
  <2>1. Len(sent) = Taken + semFullCount
        /\ semEmptyCount + semFullCount + 1 + AnHand = PIXELBUFFER_COUNT
    BY <1>1 DEF IInv, PostFull, Lifecycle, Accounting, GlHand
  <2>2. Len(sent) - Len(analysed) < PIXELBUFFER_COUNT
    BY <2>1 DEF IInv, TypeOK, Taken, AnHand
  <2>3. [type |-> glType, pixels |-> pixelbuffers[glBuffer]] \in Message
    <3>1. glType \in PixelBufferType /\ pixelbuffers[glBuffer] \in 0 .. MaxSends
      BY <1>1 DEF PostFull, IInv, TypeOK, Lifecycle
    <3>2. QED
      BY <3>1 DEF Message
  <2>4. analysis_stop = 0 /\ analysis_stop' = analysis_stop /\ analysed' = analysed
    BY <1>1 DEF PostFull, IInv, Lifecycle
  <2>5. Channel!Send([type |-> glType, pixels |-> pixelbuffers[glBuffer]])
    BY <1>1, <2>2, <2>4 DEF PostFull, Channel!Send
  <2>6. QED
    BY <2>3, <2>5 DEF Channel!Next
<1>2. CASE ProcessBuffer
  <2>1. /\ Taken = Len(analysed) + 1 /\ Taken <= Len(sent)
        /\ Len(analysed) \in Nat /\ Len(sent) \in Nat
    BY <1>2 DEF ProcessBuffer, IInv, TypeOK, Accounting, Taken
  <2>2. /\ anType = sent[Taken].type
        /\ pixelbuffers[anBuffer] = sent[Taken].pixels
        /\ sent[Taken] \in Message
    BY <1>2, <2>1 DEF ProcessBuffer, IInv, TypeOK, QueueContents
  <2>3. [type |-> anType, pixels |-> pixelbuffers[anBuffer]] = sent[Taken]
    BY <2>2 DEF Message
  <2>4. Channel!Deliver
    BY <1>2, <2>1, <2>3 DEF ProcessBuffer, Channel!Deliver
  <2>5. QED
    BY <2>4 DEF Channel!Next
<1>3. CASE CoreTerm
  <2>1. Channel!Close
    BY <1>3 DEF CoreTerm, IInv, Lifecycle, Channel!Close
  <2>2. QED
    BY <2>1 DEF Channel!Next
<1>4. CASE CoreInit \/ CoreInitFails \/ CoreTermJoined \/ CoreTermJoinsNothing
  BY <1>4 DEF CoreInit, CoreInitFails, CoreTermJoined, CoreTermJoinsNothing
<1>5. CASE ClaimBuffer \/ CopyTexture \/ LockFails
           \/ \E type \in PixelBufferType : SendBegin(type)
  BY <1>5 DEF ClaimBuffer, CopyTexture, LockFails, SendBegin
<1>6. CASE LoopTest \/ TakeBuffer \/ PostEmpty
  BY <1>6 DEF LoopTest, TakeBuffer, PostEmpty
<1>7. CASE UNCHANGED vars
  BY <1>7 DEF vars
<1>8. QED
  BY <1>1, <1>2, <1>3, <1>4, <1>5, <1>6, <1>7
     DEF Next, GLThread, GLSetup, GLTeardown, GLSend, AnalysisThread

\* Whatever the number of slots, buffers are analysed once each and in the
\* order they were sent, with the label and the pixels they were sent with,
\* and never more than the ring holds are under way.
THEOREM Refinement == Spec => Channel!Init /\ [][Channel!Next]_(Channel!vars)
BY InitImplements, StepImplements, Invariance, PTL DEF Spec

-----------------------------------------------------------------------------
(***************************************************************************)
(* What a failed lock of the texture memory can do to the buffers.         *)
(*                                                                         *)
(* The ring is walked with a comparison and a reset; which sends share a   *)
(* slot is said with a remainder.  The first part connects the two, the    *)
(* second adds to the invariant which copy each slot holds.                *)
(***************************************************************************)


-----------------------------------------------------------------------------
(* Remainders                                                               *)

LEMMA Division ==
  ASSUME NEW a \in Int
  PROVE  /\ a % PIXELBUFFER_COUNT \in 0 .. PIXELBUFFER_COUNT - 1
         /\ a \div PIXELBUFFER_COUNT \in Int
         /\ a = PIXELBUFFER_COUNT * (a \div PIXELBUFFER_COUNT)
                  + (a % PIXELBUFFER_COUNT)
BY QueueAssumption

\* Two multiples less than a round apart are the same.
LEMMA MultiplesApart ==
  ASSUME NEW q \in Int, NEW p \in Int,
         PIXELBUFFER_COUNT * q - PIXELBUFFER_COUNT * p > -PIXELBUFFER_COUNT,
         PIXELBUFFER_COUNT * q - PIXELBUFFER_COUNT * p < PIXELBUFFER_COUNT
  PROVE  q = p
BY QueueAssumption

\* Quotient and remainder are the only numbers of their kind.
LEMMA DivisionUnique ==
  ASSUME NEW a \in Int, NEW q \in Int, NEW r \in 0 .. PIXELBUFFER_COUNT - 1,
         a = PIXELBUFFER_COUNT * q + r
  PROVE  a % PIXELBUFFER_COUNT = r
<1> DEFINE d == a \div PIXELBUFFER_COUNT
           m == a % PIXELBUFFER_COUNT
<1>1. d \in Int /\ m \in 0 .. PIXELBUFFER_COUNT - 1
      /\ a = PIXELBUFFER_COUNT * d + m
  BY Division
<1> HIDE DEF d, m
<1>2. q = d
  BY <1>1, QueueAssumption, MultiplesApart
<1>3. QED
  BY <1>1, <1>2, QueueAssumption DEF m

\* The slot of the next send is the next slot of the ring.
LEMMA NextRemainder ==
  ASSUME NEW c \in Nat
  PROVE  (c + 1) % PIXELBUFFER_COUNT = Advance(c % PIXELBUFFER_COUNT)
<1> DEFINE d == c \div PIXELBUFFER_COUNT
           m == c % PIXELBUFFER_COUNT
<1>1. d \in Int /\ m \in 0 .. PIXELBUFFER_COUNT - 1
      /\ c = PIXELBUFFER_COUNT * d + m
  BY Division
<1> HIDE DEF d, m
<1>2. CASE m + 1 = PIXELBUFFER_COUNT
  <2>1. c + 1 = PIXELBUFFER_COUNT * (d + 1) + 0
    BY <1>1, <1>2, QueueAssumption
  <2>2. c + 1 \in Int /\ d + 1 \in Int /\ 0 \in 0 .. PIXELBUFFER_COUNT - 1
    BY <1>1, QueueAssumption
  <2>3. (c + 1) % PIXELBUFFER_COUNT = 0
    BY <2>1, <2>2, DivisionUnique
  <2>4. QED
    BY <2>3, <1>2 DEF Advance, m
<1>3. CASE m + 1 # PIXELBUFFER_COUNT
  <2>1. c + 1 = PIXELBUFFER_COUNT * d + (m + 1)
    BY <1>1, QueueAssumption
  <2>2. c + 1 \in Int /\ m + 1 \in 0 .. PIXELBUFFER_COUNT - 1
    BY <1>1, <1>3, QueueAssumption
  <2>3. (c + 1) % PIXELBUFFER_COUNT = m + 1
    BY <2>1, <2>2, <1>1, DivisionUnique
  <2>4. QED
    BY <2>3, <1>3 DEF Advance, m
<1>4. QED
  BY <1>2, <1>3

\* Two sends a whole number of rounds apart use the same slot.
LEMMA SameRemainder ==
  ASSUME NEW a \in Int, NEW b \in Int
  PROVE  (b - a) % PIXELBUFFER_COUNT = 0
           <=> a % PIXELBUFFER_COUNT = b % PIXELBUFFER_COUNT
<1> DEFINE da == a \div PIXELBUFFER_COUNT
           ma == a % PIXELBUFFER_COUNT
           db == b \div PIXELBUFFER_COUNT
           mb == b % PIXELBUFFER_COUNT
           dd == (b - a) \div PIXELBUFFER_COUNT
           md == (b - a) % PIXELBUFFER_COUNT
<1>1. /\ da \in Int /\ ma \in 0 .. PIXELBUFFER_COUNT - 1
      /\ a = PIXELBUFFER_COUNT * da + ma
      /\ db \in Int /\ mb \in 0 .. PIXELBUFFER_COUNT - 1
      /\ b = PIXELBUFFER_COUNT * db + mb
  BY Division
<1>2. /\ b - a \in Int /\ dd \in Int /\ md \in 0 .. PIXELBUFFER_COUNT - 1
      /\ b - a = PIXELBUFFER_COUNT * dd + md
  BY Division
<1> HIDE DEF da, ma, db, mb, dd, md
<1>3. ASSUME ma = mb PROVE md = 0
  <2>1. b - a = PIXELBUFFER_COUNT * (db - da) + 0
    BY <1>1, <1>3, QueueAssumption
  <2>2. db - da \in Int /\ 0 \in 0 .. PIXELBUFFER_COUNT - 1
    BY <1>1, QueueAssumption
  <2>3. QED
    BY <2>1, <2>2, <1>2, DivisionUnique DEF md
<1>4. ASSUME md = 0 PROVE ma = mb
  <2>1. b = PIXELBUFFER_COUNT * (da + dd) + ma
    BY <1>1, <1>2, <1>4, QueueAssumption
  <2>2. da + dd \in Int
    BY <1>1, <1>2
  <2>3. QED
    BY <2>1, <2>2, <1>1, DivisionUnique DEF mb
<1>5. QED
  BY <1>3, <1>4 DEF ma, mb, md

-----------------------------------------------------------------------------
(* Which copy each slot holds                                               *)

\* The sends that were copied into slot i.
CopiedTo(i) == {j \in copied : (j - 1) % PIXELBUFFER_COUNT = i}

\* The k-th buffer that is claimed is slot k - 1, counted round the ring.
ClaimOrder ==
  /\ copied \subseteq 1 .. claims
  /\ glPc = "copy" => claims \notin copied
  /\ nextEmptyBuffer = claims % PIXELBUFFER_COUNT
  /\ GlHand = 1 => glBuffer = (claims - 1) % PIXELBUFFER_COUNT

\* A slot holds the last send that was copied into it.
LastCopy ==
  glPc # "terminated" =>
    \A i \in Slot : /\ pixelbuffers[i] \in CopiedTo(i) \union {0}
                    /\ \A j \in CopiedTo(i) : j <= pixelbuffers[i]

LockInv == ClaimOrder /\ LastCopy /\ StaleOnlyAfterLockFailure

-----------------------------------------------------------------------------
(* The invariant                                                            *)

LEMMA InitLockInv == Init => LockInv
<1> SUFFICES ASSUME Init PROVE LockInv
  OBVIOUS
<1>1. 0 % PIXELBUFFER_COUNT = 0
  <2>1. 0 = PIXELBUFFER_COUNT * 0 + 0 /\ 0 \in 0 .. PIXELBUFFER_COUNT - 1
    BY QueueAssumption
  <2>2. QED
    BY <2>1, DivisionUnique
<1>2. ClaimOrder
  BY <1>1 DEF Init, ClaimOrder, GlHand
<1>3. LastCopy
  BY DEF Init, LastCopy, CopiedTo
<1>4. StaleOnlyAfterLockFailure
  BY DEF Init, StaleOnlyAfterLockFailure
<1>5. QED
  BY <1>2, <1>3, <1>4 DEF LockInv

\* Where nothing is claimed, copied, posted or freed all of it stays as it is.
LEMMA QuietKeepsLockInv ==
  ASSUME LockInv,
         UNCHANGED <<copied, claims, sent, nextEmptyBuffer, glBuffer, pixelbuffers>>,
         GlHand' = 1 => GlHand = 1,
         glPc' = "copy" => glPc = "copy",
         glPc = "terminated" => glPc' = "terminated"
  PROVE  LockInv'
<1>1. ClaimOrder'
  BY DEF LockInv, ClaimOrder
<1>2. LastCopy'
  BY DEF LockInv, LastCopy, CopiedTo
<1>3. StaleOnlyAfterLockFailure'
  BY DEF LockInv, StaleOnlyAfterLockFailure
<1>4. QED
  BY <1>1, <1>2, <1>3 DEF LockInv

LEMMA ClaimKeepsLockInv == IInv /\ LockInv /\ ClaimBuffer => LockInv'
<1> SUFFICES ASSUME IInv, LockInv, ClaimBuffer PROVE LockInv'
  OBVIOUS
<1>1. claims \in Nat /\ claims' = claims + 1 /\ copied' = copied
      /\ copied \subseteq 1 .. claims
  BY DEF IInv, TypeOK, LockInv, ClaimOrder, ClaimBuffer
<1>2. ClaimOrder'
  <2>1. nextEmptyBuffer' = claims' % PIXELBUFFER_COUNT
    BY <1>1, NextRemainder DEF LockInv, ClaimOrder, ClaimBuffer
  <2>2. glBuffer' = (claims' - 1) % PIXELBUFFER_COUNT
    <3>1. claims' - 1 = claims
      BY <1>1
    <3>2. QED
      BY <3>1 DEF LockInv, ClaimOrder, ClaimBuffer
  <2>3. copied' \subseteq 1 .. claims' /\ claims' \notin copied'
    BY <1>1
  <2>4. QED
    BY <2>1, <2>2, <2>3 DEF ClaimOrder
<1>3. LastCopy'
  BY DEF LockInv, LastCopy, CopiedTo, ClaimBuffer
<1>4. StaleOnlyAfterLockFailure'
  BY DEF LockInv, StaleOnlyAfterLockFailure, ClaimBuffer
<1>5. QED
  BY <1>2, <1>3, <1>4 DEF LockInv

LEMMA CopyKeepsLockInv == IInv /\ LockInv /\ CopyTexture => LockInv'
<1> SUFFICES ASSUME IInv, LockInv, CopyTexture PROVE LockInv'
  OBVIOUS
<1>1. /\ GlHand = 1 /\ claims = Len(sent) + 1 /\ claims \in Nat
      /\ sent' = sent /\ claims' = claims /\ copied' = copied \union {claims}
      /\ Len(sent) \in Nat
  BY DEF IInv, TypeOK, Accounting, GlHand, CopyTexture
<1>2. /\ copied \subseteq 1 .. claims /\ glBuffer \in Slot
      /\ glBuffer = (claims - 1) % PIXELBUFFER_COUNT
      /\ pixelbuffers \in [Slot -> (0 .. MaxSends) \union {FREED}]
      /\ pixelbuffers' = [pixelbuffers EXCEPT ![glBuffer] = claims]
  BY <1>1 DEF IInv, TypeOK, LockInv, ClaimOrder, CopyTexture
<1>3. ClaimOrder'
  <2>1. copied' \subseteq 1 .. claims'
    <3>1. claims \in 1 .. claims
      BY <1>1
    <3>2. QED
      BY <3>1, <1>1, <1>2, Zenon
  <2>2. glPc' = "post" /\ UNCHANGED <<nextEmptyBuffer, glBuffer, claims>>
    BY DEF CopyTexture
  <2>3. nextEmptyBuffer = claims % PIXELBUFFER_COUNT
    BY DEF LockInv, ClaimOrder
  <2>4. QED
    BY <2>1, <2>2, <2>3, <1>2 DEF ClaimOrder
<1>4. LastCopy'
  <2>1. SUFFICES ASSUME NEW i \in Slot
                 PROVE  /\ pixelbuffers'[i] \in CopiedTo(i)' \union {0}
                        /\ \A j \in CopiedTo(i)' : j <= pixelbuffers'[i]
    BY DEF LastCopy
  <2>2. CASE i = glBuffer
    BY <1>1, <1>2, <2>2 DEF CopiedTo
  <2>3. CASE i # glBuffer
    <3>1. CopiedTo(i)' = CopiedTo(i) /\ pixelbuffers'[i] = pixelbuffers[i]
      BY <1>1, <1>2, <2>3 DEF CopiedTo
    <3>2. glPc # "terminated"
      BY DEF CopyTexture
    <3>3. QED
      BY <3>1, <3>2 DEF LockInv, LastCopy
  <2>4. QED
    BY <2>2, <2>3
<1>5. StaleOnlyAfterLockFailure'
  BY <1>1 DEF LockInv, StaleOnlyAfterLockFailure
<1>6. QED
  BY <1>3, <1>4, <1>5 DEF LockInv

LEMMA PostKeepsLockInv == IInv /\ LockInv /\ PostFull => LockInv'
<1> SUFFICES ASSUME IInv, LockInv, PostFull PROVE LockInv'
  OBVIOUS
<1>1. /\ GlHand = 1 /\ claims = Len(sent) + 1 /\ Len(sent) \in Nat
      /\ claims' = claims /\ copied' = copied /\ pixelbuffers' = pixelbuffers
      /\ sent \in Seq(Message)
  <2>1. glPc = "post" /\ UNCHANGED <<claims, copied, pixelbuffers>>
    BY DEF PostFull, ringVars
  <2>2. GlHand = 1
    BY <2>1 DEF GlHand
  <2>3. sent \in Seq(Message) /\ claims = Len(sent) + GlHand
    BY DEF IInv, TypeOK, Accounting
  <2>4. QED
    BY <2>1, <2>2, <2>3
<1>2. copied \subseteq 1 .. claims /\ glBuffer \in Slot
      /\ glBuffer = (claims - 1) % PIXELBUFFER_COUNT
  BY <1>1 DEF IInv, TypeOK, LockInv, ClaimOrder
<1>3. ClaimOrder' /\ LastCopy'
  <2>1. /\ glPc = "post" /\ glPc' = "idle"
        /\ UNCHANGED <<claims, copied, pixelbuffers, nextEmptyBuffer, glBuffer>>
    BY DEF PostFull, ringVars
  <2>2. ClaimOrder'
    BY <2>1 DEF LockInv, ClaimOrder, GlHand
  <2>3. LastCopy'
    BY <2>1 DEF LockInv, LastCopy, CopiedTo
  <2>4. QED
    BY <2>2, <2>3
<1>4. StaleOnlyAfterLockFailure'
  <2>1. /\ Len(sent') = claims
        /\ sent'[claims].pixels = pixelbuffers[glBuffer]
        /\ \A k \in 1 .. Len(sent) : sent'[k] = sent[k]
    BY <1>1 DEF PostFull
  <2>2. {j \in copied : j <= claims /\ (claims - j) % PIXELBUFFER_COUNT = 0}
          = CopiedTo(glBuffer)
    <3>1. ASSUME NEW j \in copied
          PROVE  /\ j <= claims
                 /\ (claims - j) % PIXELBUFFER_COUNT = 0
                      <=> (j - 1) % PIXELBUFFER_COUNT = glBuffer
      <4>1. j \in Int /\ claims \in Int /\ j <= claims
            /\ j - 1 \in Int /\ claims - 1 \in Int
            /\ (claims - 1) - (j - 1) = claims - j
        BY <1>1, <1>2
      <4>2. ((claims - 1) - (j - 1)) % PIXELBUFFER_COUNT = 0
              <=> (j - 1) % PIXELBUFFER_COUNT = (claims - 1) % PIXELBUFFER_COUNT
        BY <4>1, SameRemainder
      <4>3. QED
        BY <4>1, <4>2, <1>2
    <3>2. QED
      BY <3>1 DEF CopiedTo
  <2>3. /\ pixelbuffers[glBuffer] \in CopiedTo(glBuffer) \union {0}
        /\ \A j \in CopiedTo(glBuffer) : j <= pixelbuffers[glBuffer]
    BY <1>2 DEF LockInv, LastCopy, PostFull
  <2>4. ASSUME NEW k \in 1 .. Len(sent')
        PROVE  LET same == {j \in copied : j <= k
                                    /\ (k - j) % PIXELBUFFER_COUNT = 0}
               IN  /\ sent'[k].pixels \in same \union {0}
                   /\ \A j \in same : j <= sent'[k].pixels
    <3>1. CASE k = claims
      BY <2>1, <2>2, <2>3, <3>1
    <3>2. CASE k # claims
      <4>1. k \in 1 .. Len(sent)
        BY <1>1, <2>1, <3>2
      <4>2. QED
        BY <4>1, <2>1 DEF LockInv, StaleOnlyAfterLockFailure
    <3>3. QED
      BY <3>1, <3>2
  <2>5. QED
    BY <2>4, <1>1 DEF StaleOnlyAfterLockFailure
<1>5. QED
  BY <1>3, <1>4 DEF LockInv

LEMMA StepKeepsLockInv == IInv /\ LockInv /\ [Next]_vars => LockInv'
<1> SUFFICES ASSUME IInv, LockInv, [Next]_vars PROVE LockInv'
  OBVIOUS
<1> USE DEF semVars, ringVars, flagVars, glVars, anVars, history
<1>1. CASE GLSetup
  BY <1>1, QuietKeepsLockInv DEF GLSetup, CoreInit, CoreInitFails, GlHand
<1>2. CASE GLTeardown
  <2>1. CASE CoreTerm
    BY <2>1, QuietKeepsLockInv DEF CoreTerm, GlHand
  <2>2. CASE CoreTermJoined \/ CoreTermJoinsNothing
    <3>1. /\ UNCHANGED <<copied, claims, sent, nextEmptyBuffer>>
          /\ glPc' \in {"terminated", "crashed"}
          /\ glPc' = "terminated" \/ UNCHANGED pixelbuffers
          /\ glPc = "join"
      BY <2>2 DEF CoreTermJoined, CoreTermJoinsNothing
    <3>2. ClaimOrder'
      BY <3>1 DEF LockInv, ClaimOrder, GlHand
    <3>3. LastCopy'
      BY <3>1 DEF LockInv, LastCopy, CopiedTo
    <3>4. StaleOnlyAfterLockFailure'
      BY <3>1 DEF LockInv, StaleOnlyAfterLockFailure
    <3>5. QED
      BY <3>2, <3>3, <3>4 DEF LockInv
  <2>3. QED
    BY <1>2, <2>1, <2>2 DEF GLTeardown
<1>3. CASE \E type \in PixelBufferType : SendBegin(type)
  BY <1>3, QuietKeepsLockInv DEF SendBegin, GlHand
<1>4. CASE GLSend
  <2>1. CASE LockFails
    BY <2>1, QuietKeepsLockInv DEF LockFails, GlHand
  <2>2. QED
    BY <1>4, <2>1, ClaimKeepsLockInv, CopyKeepsLockInv, PostKeepsLockInv DEF GLSend
<1>5. CASE AnalysisThread
  BY <1>5, QuietKeepsLockInv
     DEF AnalysisThread, LoopTest, TakeBuffer, ProcessBuffer, PostEmpty, GlHand
<1>6. CASE UNCHANGED vars
  BY <1>6, QuietKeepsLockInv DEF vars, GlHand
<1>7. QED
  BY <1>1, <1>2, <1>3, <1>4, <1>5, <1>6 DEF Next, GLThread

\* When the texture memory cannot be locked the slot is posted all the same
\* (core.cpp:462).  For every size of the ring the buffer then shows the last
\* texture that was copied into its slot, whole rounds ago, or nothing yet.
THEOREM StaleBounded == Spec => []StaleOnlyAfterLockFailure
<1>1. Init => IInv /\ LockInv
  BY InitIInv, InitLockInv
<1>2. Spec => []IInv
  BY Invariance
<1>3. Spec => []LockInv
  BY <1>1, <1>2, StepKeepsLockInv, PTL DEF Spec
<1>4. LockInv => StaleOnlyAfterLockFailure
  BY DEF LockInv
<1>5. QED
  BY <1>3, <1>4, PTL
=============================================================================
