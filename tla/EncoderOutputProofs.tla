------------------------- MODULE EncoderOutputProofs -------------------------
(***************************************************************************)
(* Theorems about EncoderOutput.  With files, for every number of files,   *)
(* size of the groups, length of a replay and number of faults and         *)
(* restarts:                                                               *)
(*                                                                         *)
(*   ReplayAlwaysDecodable: every frame of a replay has what it depends on *)
(*   before it, from the invariant DecodeInv, which says so of every file  *)
(*   and of what is written of the current one, and that the next buffer   *)
(*   fits its end;                                                         *)
(*                                                                         *)
(*   NoBufferLost: without a fault the files hold the stream without a     *)
(*   gap, from the invariant KeptInv, which orders the segments by age;    *)
(*                                                                         *)
(*   ReplayAlwaysInOrder: a replay shows the stream in its order, from     *)
(*   FilesInv, the files by time are in the order of the stream and a      *)
(*   file's number is about as old as its time, and ListInv, what is still *)
(*   to be read follows what has been and is not emptied before.           *)
(*                                                                         *)
(* With a circular buffer, for every length of it, of its list of key      *)
(* frames and of what the encoder delivers, if two key frames fit:         *)
(*                                                                         *)
(*   KeyFramesListed: the list has exactly the key frames in the buffer,   *)
(*   from RingInv, which says where in the ring each unit of the stream is *)
(*   and that the list is in the order of the stream;                      *)
(*                                                                         *)
(*   SaveBeginsWithKey: what is saved begins with the oldest key frame and *)
(*   has all since, from SaveInv, what main has chosen to copy.            *)
(***************************************************************************)
EXTENDS EncoderOutput, SequenceTheorems, WellFoundedInduction, TLAPS

-----------------------------------------------------------------------------
(* Sequences of buffers, and what can be decoded of them                    *)

\* Every buffer has what it depends on before it, unless that was lost.
Follow(f, i, failed) ==
  \/ IsHeader(f[i])
  \/ i > 1 /\ f[i - 1] = f[i] - 1
  \/ f[i] - 1 \in failed
Decodable(f, failed) == \A i \in 1 .. Len(f) : Follow(f, i, failed)

LEMMA NothingToDecode == ASSUME NEW failed PROVE Decodable(<<>>, failed)
BY DEF Decodable

LEMMA MoreFailed ==
  ASSUME NEW f, NEW failed, NEW more, failed \subseteq more, Decodable(f, failed)
  PROVE  Decodable(f, more)
BY DEF Decodable, Follow

\* Files that can be decoded can be decoded one after the other.
LEMMA DecodeBoth ==
  ASSUME NEW f \in Seq(Nat), NEW g \in Seq(Nat), NEW failed,
         Decodable(f, failed), Decodable(g, failed)
  PROVE  f \o g \in Seq(Nat) /\ Decodable(f \o g, failed)
<1> DEFINE h == f \o g
           m == Len(f)
           n == Len(g)
<1>1. /\ h \in Seq(Nat) /\ Len(h) = m + n /\ m \in Nat /\ n \in Nat
      /\ \A i \in 1 .. m + n : h[i] = IF i <= m THEN f[i] ELSE g[i - m]
  BY ConcatProperties, LenProperties
<1>2. /\ \A i \in 1 .. m : Follow(f, i, failed)
      /\ \A i \in 1 .. n : Follow(g, i, failed)
  BY DEF Decodable
<1> HIDE DEF h, m, n
<1>3. ASSUME NEW i \in 1 .. m PROVE Follow(h, i, failed)
  <2>1. \A j \in 1 .. m : j \in 1 .. m + n /\ h[j] = f[j]
    BY <1>1
  <2>2. i > 1 => i - 1 \in 1 .. m
    BY <1>1
  <2>3. QED
    BY <1>2, <2>1, <2>2 DEF Follow
<1>4. ASSUME NEW i \in 1 .. m + n, i > m PROVE Follow(h, i, failed)
  <2>1. i - m \in 1 .. n /\ h[i] = g[i - m]
    BY <1>1, <1>4
  <2>2. i - m > 1 => /\ i > 1 /\ i - 1 \in 1 .. m + n /\ i - 1 > m
                     /\ (i - 1) - m = (i - m) - 1
    BY <1>1, <1>4
  <2>3. i - m > 1 => i > 1 /\ h[i - 1] = g[(i - m) - 1]
    BY <1>1, <2>2
  <2>4. QED
    BY <1>2, <2>1, <2>3 DEF Follow
<1>5. \A i \in 1 .. m + n : i \in 1 .. m \/ i > m
  BY <1>1
<1>6. Decodable(h, failed)
  BY <1>1, <1>3, <1>4, <1>5 DEF Decodable
<1>7. QED
  BY <1>1, <1>6 DEF h

\* A buffer that belongs after the last one can be appended.
Fits(b, f, failed) ==
  IsHeader(b) \/ b - 1 \in failed \/ (f # <<>> /\ f[Len(f)] = b - 1)

LEMMA DecodeOneMore ==
  ASSUME NEW f \in Seq(Nat), NEW b \in Nat, NEW failed, Decodable(f, failed),
         Fits(b, f, failed)
  PROVE  /\ f \o <<b>> \in Seq(Nat) /\ Decodable(f \o <<b>>, failed)
         /\ f \o <<b>> # <<>> /\ (f \o <<b>>)[Len(f \o <<b>>)] = b
<1> DEFINE h == f \o <<b>>
           m == Len(f)
<1>1. m \in Nat /\ h = Append(f, b)
  BY AppendIsConcat, LenProperties
<1>2. /\ h \in Seq(Nat) /\ Len(h) = m + 1 /\ h[m + 1] = b
      /\ \A i \in 1 .. m : h[i] = f[i]
  BY <1>1, AppendProperties
<1>3. f # <<>> => m \in 1 .. m
  BY EmptySeq, <1>1
<1>4. \A i \in 1 .. m : Follow(f, i, failed)
  BY DEF Decodable
<1> HIDE DEF h
<1>5. ASSUME NEW i \in 1 .. m PROVE Follow(h, i, failed)
  <2>1. i > 1 => i - 1 \in 1 .. m
    BY <1>1
  <2>2. QED
    BY <1>2, <1>4, <2>1 DEF Follow
<1>6. Follow(h, m + 1, failed)
  <2>1. (m + 1) - 1 = m
    BY <1>1
  <2>2. m \in 1 .. m => m + 1 > 1
    BY <1>1
  <2>3. QED
    BY <1>2, <1>3, <2>1, <2>2 DEF Follow, Fits
<1>7. \A i \in 1 .. m + 1 : i \in 1 .. m \/ i = m + 1
  BY <1>1
<1>8. Decodable(h, failed)
  BY <1>2, <1>5, <1>6, <1>7 DEF Decodable
<1>9. h # <<>>
  BY <1>1, <1>2
<1>10. QED
  BY <1>2, <1>8, <1>9 DEF h

-----------------------------------------------------------------------------
(* Arithmetic of headers and segment numbers                                *)

\* A restart begins at a header.
LEMMA NextHeader ==
  ASSUME NEW b \in Nat
  PROVE  b + ((-b) % GroupLength) \in Nat /\ IsHeader(b + ((-b) % GroupLength))
<1> DEFINE d == (-b) \div GroupLength
           m == (-b) % GroupLength
<1>1. GroupLength \in Nat /\ GroupLength > 0
  BY SegmentsAssumption
<1>2. d \in Int /\ m \in 0 .. GroupLength - 1 /\ -b = GroupLength * d + m
  BY <1>1
<1> HIDE DEF d, m
<1>3. b + m = GroupLength * (-d)
  BY <1>1, <1>2
<1>4. (GroupLength * (-d)) % GroupLength = 0
  <2>1. PICK q \in Int : q = -d
    BY <1>2
  <2>2. (GroupLength * q) % GroupLength = 0
    BY <1>1, <2>1
  <2>3. QED
    BY <2>1, <2>2
<1>5. QED
  BY <1>1, <1>2, <1>3, <1>4 DEF IsHeader, m

\* How many numbers the segment's is ahead of the file that is written.
Ahead == IF segmentNumber >= handle THEN segmentNumber - handle
         ELSE segmentNumber - handle + Wrap

LEMMA OneAhead ==
  ASSUME segmentNumber \in Segments, handle \in Segments
  PROVE  /\ NextNumber \in Segments /\ Ahead \in 0 .. Wrap - 1
         /\ Ahead >= 1 => segmentNumber # handle
         /\ segmentNumber' = NextNumber /\ UNCHANGED handle /\ Ahead + 1 < Wrap
              => Ahead' = Ahead + 1
BY SegmentsAssumption DEF Ahead, NextNumber, Segments

-----------------------------------------------------------------------------
(* Every file can be decoded                                                *)

\* What the file that is written will hold when it is closed.
Written == disk[handle] \o tail

FilesType ==
  /\ sent \in Nat /\ faults \in Nat
  /\ segmentNumber \in Segments /\ handle \in Segments
  /\ disk \in [Segments -> Seq(Nat)] /\ tail \in Seq(Nat) /\ byTime \in Seq(Segments)
  /\ replay \in Seq(Nat) /\ listed \in Seq(Segments)

\* A file is opened where a header comes, a callback ends before the port does,
\* and with -fl stdio holds nothing.
AtHeader == callback \in {"open", "close"} => IsHeader(sent)
NoCallback == ~PortOpen => callback = "idle"
Stdio == flush_buffers => tail = <<>>

\* Each file that could not be opened leaves the number one more ahead.
BehindNumber ==
  main # "dead" => IF callback \in {"open", "close"} THEN Ahead \in 1 .. faults + 1
                   ELSE Ahead <= faults

FilesDecodable ==
  /\ \A s \in Segments : Decodable(disk[s], lost)
  /\ main # "dead" => Decodable(Written, lost) /\ Fits(sent, Written, lost)
  /\ Decodable(replay, lost)

DecodeInv ==
  /\ FilesType /\ AtHeader /\ NoCallback /\ Stdio
  /\ faults + 1 < Wrap => BehindNumber /\ FilesDecodable

LEMMA DecodeInit == Init => DecodeInv
<1> SUFFICES ASSUME Init PROVE DecodeInv
  OBVIOUS
<1>1. 1 \in Segments
  BY SegmentsAssumption DEF Segments
<1>2. \A s \in Segments : disk[s] = <<>>
  BY DEF Init
<1>3. FilesType /\ AtHeader /\ NoCallback /\ Stdio
  BY <1>1 DEF Init, FilesType, AtHeader, NoCallback, Stdio
<1>4. BehindNumber /\ FilesDecodable
  BY <1>2, NothingToDecode DEF Init, BehindNumber, FilesDecodable
<1>5. QED
  BY <1>3, <1>4 DEF DecodeInv

\* While fewer than Wrap - 1 faults have happened.
LEMMA LessFaults ==
  ASSUME FilesType, faults' \in Nat, faults' >= faults, faults' + 1 < Wrap
  PROVE  faults + 1 < Wrap
<1>1. faults \in Nat
  BY DEF FilesType
<1>2. \A x, y \in Nat : y >= x /\ y + 1 < Wrap => x + 1 < Wrap
  BY SegmentsAssumption
<1>3. QED
  BY <1>1, <1>2, Zenon

LEMMA SoFar ==
  ASSUME DecodeInv, faults' \in Nat, faults' >= faults, faults' + 1 < Wrap
  PROVE  faults + 1 < Wrap /\ BehindNumber /\ FilesDecodable
BY LessFaults DEF DecodeInv

\* Steps that leave the files, the stream and the number alone.
LEMMA DecodeSettled ==
  ASSUME DecodeInv, UNCHANGED <<sent, fileVars, lost, flush_buffers>>,
         UNCHANGED <<replay, listed>>, faults' \in Nat, faults' >= faults,
         main' = main \/ main # "dead", NoCallback',
         callback' \in {"open", "close"} => callback' = callback,
         callback \in {"open", "close"} => callback' = callback \/ main' = "dead"
  PROVE  DecodeInv'
<1>1. FilesType' /\ AtHeader' /\ Stdio'
  BY DEF DecodeInv, FilesType, AtHeader, Stdio, fileVars
<1>2. ASSUME faults' + 1 < Wrap PROVE BehindNumber' /\ FilesDecodable'
  <2>1. faults + 1 < Wrap
    BY <1>2, LessFaults DEF DecodeInv
  <2>2. BehindNumber /\ FilesDecodable /\ Ahead \in Int /\ faults \in Nat
    BY <2>1, OneAhead, SegmentsAssumption DEF DecodeInv, FilesType
  <2>3. Ahead' = Ahead /\ Written' = Written
    BY DEF Ahead, Written, fileVars
  <2>4. BehindNumber'
    <3>1. main' # "dead" => main # "dead"
      OBVIOUS
    <3>2. CASE callback' \in {"open", "close"}
      <4>1. callback' = callback
        BY <3>2
      <4>2. main' # "dead" => Ahead \in 1 .. faults + 1
        BY <2>2, <3>1, <3>2, <4>1 DEF BehindNumber
      <4>3. \A x, y \in Nat : y >= x => \A a \in 1 .. x + 1 : a \in 1 .. y + 1
        OBVIOUS
      <4>4. \A x \in 1 .. faults + 1 : x \in 1 .. faults' + 1
        BY <2>2, <4>3, Zenon
      <4>5. QED
        BY <2>3, <3>2, <4>2, <4>4 DEF BehindNumber
    <3>3. CASE callback' \notin {"open", "close"}
      <4>1. main' # "dead" => callback \notin {"open", "close"}
        BY <3>3
      <4>2. main' # "dead" => Ahead <= faults
        BY <2>2, <3>1, <4>1 DEF BehindNumber
      <4>3. Ahead <= faults => Ahead <= faults'
        BY <2>2
      <4>4. QED
        BY <2>3, <3>3, <4>2, <4>3 DEF BehindNumber
    <3>4. QED
      BY <3>2, <3>3
  <2>5. FilesDecodable'
    BY <2>2, <2>3 DEF FilesDecodable, fileVars
  <2>6. QED
    BY <2>4, <2>5
<1>3. QED
  BY <1>1, <1>2 DEF DecodeInv

\* The number of faults never falls.
LEMMA FaultsGrow ==
  FilesType /\ [Next]_vars => faults' \in Nat /\ faults' >= faults
BY DEF FilesType, Next, Start, Tick, Callback, Deliver, OpenNext, CloseOld, Write,
       ReturnBuffer, Main, NoticeAbort, DisablePort, Close, Kill, Script, ListFiles,
       Concatenate, Finish, vars, recorderVars, streamVars, fileVars, scriptVars,
       processVars

LEMMA LeastIndex ==
  ASSUME NEW I \in SUBSET Nat, I # {}
  PROVE  \E m \in I : \A i \in I : m <= i
<1>1. \E x \in I : \A y \in I : ~(<<y, x>> \in OpToRel(<, Nat))
  BY NatLessThanWellFounded, WFMin
<1>2. \A x, y \in Nat : y < x => <<y, x>> \in OpToRel(<, Nat)
  BY DEF OpToRel
<1>3. \A x, y \in Nat : ~(y < x) => x <= y
  OBVIOUS
<1>4. QED
  BY <1>1, <1>2, <1>3

\* A file joins the list by time, or moves to its end.
LEMMA LeastPlace == ASSUME NEW I \in SUBSET Nat, I # {} PROVE Min(I) \in I
BY LeastIndex DEF Min

LEMMA WithoutFirst ==
  ASSUME NEW S, NEW s \in Seq(S), NEW e PROVE RemoveFirst(s, e) \in Seq(S)
<1>1. CASE ~\E i \in 1 .. Len(s) : s[i] = e
  BY <1>1 DEF RemoveFirst
<1>2. CASE \E i \in 1 .. Len(s) : s[i] = e
  <2> DEFINE I == {k \in 1 .. Len(s) : s[k] = e}
             i == IF I # {} THEN Min(I) ELSE 0
             n == Len(s)
  <2>1. RemoveFirst(s, e) = SubSeq(s, 1, i - 1) \o SubSeq(s, i + 1, n)
    BY <1>2 DEF RemoveFirst, RemoveAt, SelectInSeq
  <2>2. n \in Nat /\ i \in 1 .. n
    <3>1. I # {} /\ I \in SUBSET Nat
      BY <1>2
    <3>2. i \in I
      BY <3>1, LeastPlace
    <3>3. QED
      BY <3>2, LenProperties
  <2> HIDE DEF i
  <2>3. SubSeq(s, 1, i - 1) \in Seq(S) /\ SubSeq(s, i + 1, n) \in Seq(S)
    BY <2>2, SubSeqProperties
  <2>4. QED
    BY <2>1, <2>3, ConcatProperties
<1>3. QED
  BY <1>1, <1>2

LEMMA TouchedFiles ==
  ASSUME byTime \in Seq(Segments), NEW s \in Segments PROVE Touched(s) \in Seq(Segments)
<1>1. RemoveFirst(byTime, s) \in Seq(Segments)
  BY WithoutFirst
<1>2. QED
  BY <1>1 DEF Touched

\* A file is emptied, or not.
LEMMA Emptied ==
  ASSUME disk \in [Segments -> Seq(Nat)], NEW s \in Segments,
         disk' = [disk EXCEPT ![s] = <<>>] \/ UNCHANGED disk
  PROVE  disk' \in [Segments -> Seq(Nat)]
<1>1. <<>> \in Seq(Nat)
  BY EmptySeq
<1>2. CASE disk' = [disk EXCEPT ![s] = <<>>]
  BY <1>1, <1>2
<1>3. CASE UNCHANGED disk
  BY <1>3
<1>4. QED
  BY <1>2, <1>3

LEMMA DecodeStart == DecodeInv /\ Start => DecodeInv'
<1> SUFFICES ASSUME DecodeInv, Start PROVE DecodeInv'
  OBVIOUS
<1>0. FilesType /\ NoCallback /\ 1 \in Segments
  BY SegmentsAssumption DEF DecodeInv, Segments
<1>1. /\ main = "dead" /\ main' = "capturing" /\ segmentNumber' = 1 /\ handle' = 1
      /\ tail' = <<>> /\ sent' = sent + ((-sent) % GroupLength)
      /\ disk' = [disk EXCEPT ![1] = <<>>] \/ UNCHANGED disk
      /\ byTime' = Touched(1) \/ UNCHANGED byTime
      /\ faults' = faults \/ faults' = faults + 1
      /\ UNCHANGED <<flush_buffers, callback, lost, replay, listed>>
  BY DEF Start, scriptVars
<1>2. sent' \in Nat /\ IsHeader(sent')
  BY <1>0, <1>1, NextHeader DEF FilesType
<1>3. Touched(1) \in Seq(Segments)
  BY <1>0, TouchedFiles DEF FilesType
<1>4. faults' \in Nat /\ faults' >= faults
  BY <1>0, <1>1 DEF FilesType
<1>5. FilesType'
  <2>1. disk' \in [Segments -> Seq(Nat)]
    BY <1>0, <1>1, Emptied DEF FilesType
  <2>2. byTime' \in Seq(Segments)
    BY <1>0, <1>1, <1>3 DEF FilesType
  <2>3. QED
    BY <1>0, <1>1, <1>2, <1>4, <2>1, <2>2 DEF FilesType
<1>6. callback = "idle"
  BY <1>0, <1>1 DEF NoCallback, PortOpen
<1>7. AtHeader' /\ NoCallback' /\ Stdio'
  BY <1>1, <1>6 DEF AtHeader, NoCallback, Stdio
<1>8. ASSUME faults' + 1 < Wrap PROVE BehindNumber' /\ FilesDecodable'
  <2>1. FilesDecodable
    BY <1>4, <1>8, SoFar
  <2>2. \A s \in Segments : Decodable(disk'[s], lost)
    BY <1>0, <1>1, <2>1, NothingToDecode DEF FilesDecodable, FilesType
  <2>3. Written' = disk'[1]
    <3>1. Written' = disk'[1] \o <<>>
      BY <1>1 DEF Written
    <3>2. QED
      BY <1>0, <1>5, <3>1, ConcatEmptySeq DEF FilesType
  <2>4. FilesDecodable'
    BY <1>0, <1>1, <1>2, <2>1, <2>2, <2>3 DEF FilesDecodable, Fits
  <2>5. BehindNumber'
    BY <1>1, <1>4, <1>6 DEF BehindNumber, Ahead
  <2>6. QED
    BY <2>4, <2>5
<1>9. QED
  BY <1>5, <1>7, <1>8 DEF DecodeInv

LEMMA DecodeDeliver == DecodeInv /\ Deliver => DecodeInv'
<1> SUFFICES ASSUME DecodeInv, Deliver PROVE DecodeInv'
  OBVIOUS
<1>0. FilesType /\ Stdio /\ PortOpen /\ main # "dead" /\ callback = "idle"
  BY DEF DecodeInv, Deliver, PortOpen
<1>1. /\ \/ /\ IsHeader(sent) /\ segmentNumber' = NextNumber /\ callback' = "open"
         \/ UNCHANGED segmentNumber /\ callback' = "write"
      /\ UNCHANGED <<sent, handle, tail, disk, byTime, lost, faults, flush_buffers, main,
                     replay, listed>>
  BY DEF Deliver, SplitHere, processVars, scriptVars
<1>2. FilesType'
  BY <1>0, <1>1, OneAhead DEF FilesType
<1>3. AtHeader' /\ NoCallback' /\ Stdio'
  BY <1>0, <1>1 DEF AtHeader, NoCallback, Stdio, PortOpen
<1>4. ASSUME faults + 1 < Wrap PROVE BehindNumber' /\ FilesDecodable'
  <2>1. BehindNumber /\ FilesDecodable
    BY <1>4 DEF DecodeInv
  <2>2. FilesDecodable'
    BY <1>1, <2>1 DEF FilesDecodable, Written
  <2>3. Ahead <= faults /\ Ahead \in Nat /\ faults \in Nat
    BY <1>0, <2>1, OneAhead DEF BehindNumber, FilesType
  <2>4. CASE segmentNumber' = NextNumber /\ callback' = "open"
    <3>1. Ahead + 1 < Wrap
      BY <1>4, <2>3, SegmentsAssumption
    <3>2. Ahead' = Ahead + 1
      BY <1>0, <1>1, <2>4, <3>1, OneAhead DEF FilesType
    <3>3. Ahead + 1 \in 1 .. faults + 1
      BY <2>3
    <3>4. QED
      BY <1>1, <2>2, <2>4, <3>2, <3>3 DEF BehindNumber
  <2>5. CASE UNCHANGED segmentNumber /\ callback' = "write"
    <3>1. Ahead' = Ahead
      BY <1>1, <2>5 DEF Ahead
    <3>2. QED
      BY <1>1, <2>2, <2>3, <2>5, <3>1 DEF BehindNumber
  <2>6. QED
    BY <1>1, <2>4, <2>5
<1>5. faults' = faults
  BY <1>1
<1>6. QED
  BY <1>2, <1>3, <1>4, <1>5 DEF DecodeInv

LEMMA DecodeOpen == DecodeInv /\ OpenNext => DecodeInv'
<1> SUFFICES ASSUME DecodeInv, OpenNext PROVE DecodeInv'
  OBVIOUS
<1>0. FilesType /\ Stdio /\ PortOpen /\ main # "dead" /\ callback = "open" /\ IsHeader(sent)
  BY DEF DecodeInv, OpenNext, PortOpen, NoCallback, AtHeader
<1>1. /\ \/ /\ disk' = [disk EXCEPT ![segmentNumber] = <<>>] /\ byTime' = Touched(segmentNumber)
            /\ callback' = "close" /\ faults' = faults
         \/ /\ UNCHANGED <<disk, byTime>> /\ callback' = "write" /\ faults' = faults + 1
      /\ UNCHANGED <<segmentNumber, handle, tail, sent, lost, flush_buffers, main,
                     replay, listed>>
  BY DEF OpenNext, processVars, streamVars, scriptVars
<1>2. FilesType'
  <2>1. disk' \in [Segments -> Seq(Nat)]
    BY <1>0, <1>1, Emptied DEF FilesType
  <2>2. byTime' \in Seq(Segments)
    BY <1>0, <1>1, TouchedFiles DEF FilesType
  <2>3. QED
    BY <1>0, <1>1, <2>1, <2>2 DEF FilesType
<1>3. AtHeader' /\ NoCallback' /\ Stdio'
  BY <1>0, <1>1 DEF AtHeader, NoCallback, Stdio, PortOpen
<1>4. faults' \in Nat /\ faults' >= faults
  BY <1>0, <1>1 DEF FilesType
<1>5. ASSUME faults' + 1 < Wrap PROVE BehindNumber' /\ FilesDecodable'
  <2>1. BehindNumber /\ FilesDecodable
    BY <1>4, <1>5, SoFar
  <2>2. Ahead' = Ahead /\ Ahead \in 1 .. faults + 1 /\ faults \in Nat
    BY <1>0, <1>1, <2>1 DEF BehindNumber, Ahead, FilesType
  <2>3. BehindNumber'
    BY <1>1, <2>2 DEF BehindNumber
  <2>4. segmentNumber # handle
    BY <1>0, <2>2, OneAhead DEF FilesType
  <2>5. Written' = Written
    BY <1>0, <1>1, <2>4 DEF Written, FilesType
  <2>6. \A s \in Segments : Decodable(disk'[s], lost)
    BY <1>0, <1>1, <2>1, NothingToDecode DEF FilesDecodable, FilesType
  <2>7. FilesDecodable'
    BY <1>1, <2>1, <2>5, <2>6 DEF FilesDecodable
  <2>8. QED
    BY <2>3, <2>7
<1>6. QED
  BY <1>2, <1>3, <1>5 DEF DecodeInv

LEMMA DecodeClose == DecodeInv /\ (CloseOld \/ Close) => DecodeInv'
<1> SUFFICES ASSUME DecodeInv, CloseOld \/ Close PROVE DecodeInv'
  OBVIOUS
<1>0. FilesType /\ AtHeader /\ NoCallback
  BY DEF DecodeInv
<1>1. /\ disk' = [disk EXCEPT ![handle] = Written] /\ tail' = <<>>
      /\ byTime' = Touched(handle) \/ UNCHANGED byTime
      /\ \/ /\ callback = "close" /\ callback' = "write" /\ handle' = segmentNumber
            /\ UNCHANGED main
         \/ /\ main' = "dead" /\ main = "disabled" /\ UNCHANGED <<callback, handle>>
      /\ UNCHANGED <<segmentNumber, sent, lost, flush_buffers, faults, replay, listed>>
  BY DEF CloseOld, Close, Closed, Written, processVars, streamVars, scriptVars
<1>2. Written \in Seq(Nat)
  BY <1>0, ConcatProperties DEF Written, FilesType
<1>3. FilesType'
  BY <1>0, <1>1, <1>2, TouchedFiles DEF FilesType
<1>4. AtHeader' /\ NoCallback' /\ Stdio'
  BY <1>0, <1>1 DEF AtHeader, NoCallback, Stdio, PortOpen
<1>5. ASSUME faults + 1 < Wrap PROVE BehindNumber' /\ FilesDecodable'
  <2>1. BehindNumber /\ FilesDecodable /\ main # "dead"
    BY <1>0, <1>1, <1>5 DEF DecodeInv, NoCallback, PortOpen
  <2>2. \A s \in Segments : Decodable(disk'[s], lost)
    BY <1>0, <1>1, <2>1 DEF FilesDecodable, FilesType
  <2>3. BehindNumber'
    <3>1. segmentNumber \in Nat /\ faults \in Nat
      BY <1>0 DEF FilesType, Segments
    <3>2. main' # "dead" => Ahead' = 0 /\ callback' = "write"
      BY <1>1, <3>1 DEF Ahead
    <3>3. QED
      BY <1>1, <3>1, <3>2 DEF BehindNumber
  <2>4. main' # "dead" => Written' = disk'[segmentNumber] /\ IsHeader(sent)
    <3>1. main' # "dead" => Written' = disk'[segmentNumber] \o <<>> /\ IsHeader(sent)
      BY <1>0, <1>1 DEF Written, AtHeader
    <3>2. disk'[segmentNumber] \in Seq(Nat)
      BY <1>1, <1>3 DEF FilesType
    <3>3. QED
      BY <3>1, <3>2, ConcatEmptySeq
  <2>5. FilesDecodable'
    BY <1>0, <1>1, <2>1, <2>2, <2>4 DEF FilesDecodable, FilesType, Fits
  <2>6. QED
    BY <2>3, <2>5
<1>6. faults' = faults
  BY <1>1
<1>7. QED
  BY <1>3, <1>4, <1>5, <1>6 DEF DecodeInv

\* Bounds of a part of a list of files.
LEMMA PartOfList ==
  ASSUME NEW S, NEW s \in Seq(S), NEW m \in Nat, m >= 1, NEW n \in Int, n <= Len(s)
  PROVE  SubSeq(s, m, n) \in Seq(S)
BY SubSeqProperties, LenProperties

LEMMA DecodeWrite == DecodeInv /\ Write => DecodeInv'
<1> SUFFICES ASSUME DecodeInv, Write PROVE DecodeInv'
  OBVIOUS
<1> DEFINE Kept == /\ disk' = [disk EXCEPT ![handle] = disk[handle] \o <<sent>>]
                   /\ tail' = <<>> /\ flush_buffers
           Buffered == /\ disk' = [disk EXCEPT ![handle] = Written]
                       /\ tail' = <<sent>> /\ ~flush_buffers
           Good == (Kept \/ Buffered) /\ UNCHANGED <<lost, faults>>
           Bad == UNCHANGED <<disk, tail>> /\ lost' = lost \cup {sent} /\ faults' = faults + 1
<1>0. /\ FilesType /\ Stdio /\ callback = "write" /\ PortOpen /\ main # "dead"
      /\ disk[handle] \in Seq(Nat) /\ tail \in Seq(Nat) /\ Written \in Seq(Nat)
  BY ConcatProperties DEF DecodeInv, Write, NoCallback, PortOpen, FilesType, Written
<1>1. /\ callback' = "return" /\ sent' = sent + 1
      /\ byTime' = Touched(handle) \/ UNCHANGED byTime
      /\ UNCHANGED <<flush_buffers, main, segmentNumber, handle, replay, listed>>
  BY DEF Write, scriptVars
<1>2. Good \/ Bad
  <2>1. CASE flush_buffers
    BY <2>1 DEF Write
  <2>2. CASE ~flush_buffers
    BY <2>2 DEF Write, Written
  <2>3. QED
    BY <2>1, <2>2
<1>3. <<sent>> \in Seq(Nat) /\ disk[handle] \o <<sent>> \in Seq(Nat)
  BY <1>0, ConcatProperties DEF FilesType
<1>4. disk' \in [Segments -> Seq(Nat)] /\ tail' \in Seq(Nat)
  <2>1. CASE Kept
    BY <1>0, <1>3, <2>1, EmptySeq DEF FilesType
  <2>2. CASE Buffered
    BY <1>0, <1>3, <2>2 DEF FilesType
  <2>3. CASE Bad
    BY <1>0, <2>3 DEF FilesType
  <2>4. QED
    BY <1>2, <2>1, <2>2, <2>3
<1>5. FilesType'
  <2>1. byTime' \in Seq(Segments)
    BY <1>0, <1>1, TouchedFiles DEF FilesType
  <2>2. faults' \in Nat
    BY <1>0, <1>2 DEF FilesType
  <2>3. sent' \in Nat
    BY <1>0, <1>1 DEF FilesType
  <2>4. QED
    BY <1>0, <1>1, <1>4, <2>1, <2>2, <2>3 DEF FilesType
<1>6. AtHeader' /\ NoCallback' /\ Stdio'
  BY <1>0, <1>1, <1>2 DEF AtHeader, NoCallback, Stdio, PortOpen
<1>7. faults' \in Nat /\ faults' >= faults
  <2>1. faults' = faults \/ faults' = faults + 1
    BY <1>2
  <2>2. faults \in Nat
    BY <1>0 DEF FilesType
  <2>3. QED
    BY <2>1, <2>2
<1>8. ASSUME faults' + 1 < Wrap PROVE BehindNumber' /\ FilesDecodable'
  <2>1. BehindNumber /\ FilesDecodable
    BY <1>7, <1>8, SoFar
  <2>2. BehindNumber'
    <3>1. Ahead' = Ahead /\ Ahead <= faults /\ Ahead \in Nat /\ faults \in Nat
      BY <1>0, <1>1, <2>1, OneAhead DEF BehindNumber, Ahead, FilesType
    <3>2. Ahead' <= faults'
      BY <1>7, <3>1
    <3>3. QED
      BY <1>1, <3>2 DEF BehindNumber
  <2>3. /\ \A s \in Segments : Decodable(disk[s], lost)
        /\ Decodable(Written, lost) /\ Fits(sent, Written, lost) /\ Decodable(replay, lost)
    BY <1>0, <2>1 DEF FilesDecodable
  <2> DEFINE g == Written \o <<sent>>
  <2>4. /\ g \in Seq(Nat) /\ Decodable(g, lost) /\ g # <<>> /\ g[Len(g)] = sent
    BY <1>0, <2>3, DecodeOneMore DEF FilesType
  <2>5. CASE Good
    <3>1. Written' = g
      <4>1. CASE Kept
        <5>1. tail = <<>> /\ Written = disk[handle]
          BY <1>0, <4>1, ConcatEmptySeq DEF Stdio, Written
        <5>2. Written' = (disk[handle] \o <<sent>>) \o <<>>
          BY <1>0, <1>1, <4>1 DEF Written, FilesType
        <5>3. QED
          BY <1>3, <5>1, <5>2, ConcatEmptySeq
      <4>2. CASE Buffered
        BY <1>0, <1>1, <4>2 DEF Written, FilesType
      <4>3. QED
        BY <2>5, <4>1, <4>2
    <3>2. \A s \in Segments : Decodable(disk'[s], lost)
      <4>1. CASE Kept
        <5>1. tail = <<>> /\ Written = disk[handle]
          BY <1>0, <4>1, ConcatEmptySeq DEF Stdio, Written
        <5>2. disk' = [disk EXCEPT ![handle] = g]
          BY <4>1, <5>1
        <5> HIDE DEF g
        <5>3. QED
          BY <1>0, <5>2, <2>3, <2>4 DEF FilesType
      <4>2. CASE Buffered
        BY <1>0, <4>2, <2>3 DEF FilesType
      <4>3. QED
        BY <2>5, <4>1, <4>2
    <3> HIDE DEF g
    <3>3. Fits(sent', g, lost)
      <4>1. sent' - 1 = sent
        BY <1>0, <1>1 DEF FilesType
      <4>2. QED
        BY <2>4, <4>1 DEF Fits
    <3>4. lost' = lost
      BY <2>5
    <3>5. QED
      BY <1>1, <2>2, <2>3, <2>4, <3>1, <3>2, <3>3, <3>4 DEF FilesDecodable
  <2>6. CASE Bad
    <3>1. lost \subseteq lost' /\ sent' - 1 \in lost'
      BY <1>0, <1>1, <2>6 DEF FilesType
    <3>2. Written' = Written
      BY <1>1, <2>6 DEF Written
    <3>3. Fits(sent', Written, lost')
      BY <3>1 DEF Fits
    <3>4. \A s \in Segments : Decodable(disk'[s], lost')
      BY <2>3, <2>6, <3>1, MoreFailed
    <3>5. Decodable(Written, lost') /\ Decodable(replay', lost')
      BY <1>1, <2>3, <3>1, MoreFailed
    <3>6. QED
      BY <2>2, <3>2, <3>3, <3>4, <3>5 DEF FilesDecodable
  <2>7. QED
    BY <1>2, <2>5, <2>6
<1>9. QED
  BY <1>5, <1>6, <1>8 DEF DecodeInv

\* The script reads files that can be decoded, whatever it finds in them.
LEMMA DecodeScript == DecodeInv /\ Script => DecodeInv'
<1> SUFFICES ASSUME DecodeInv, Script PROVE DecodeInv'
  OBVIOUS
<1>0. FilesType
  BY DEF DecodeInv
<1>1. UNCHANGED recorderVars
  BY DEF Script, ListFiles, Concatenate, Finish
<1>2. /\ UNCHANGED <<sent, faults, segmentNumber, handle, disk, tail, byTime, main, callback,
                     flush_buffers, lost>>
  BY <1>1 DEF recorderVars, processVars, streamVars, fileVars
<1>3. /\ listed' \in Seq(Segments) /\ replay' \in Seq(Nat)
      /\ Decodable(replay, lost) /\ (\A s \in Segments : Decodable(disk[s], lost))
           => Decodable(replay', lost)
  <2>1. CASE ListFiles
    <3>1. Candidates \in Seq(Segments) /\ Len(Candidates) \in Nat
      <4>1. Len(byTime) \in Nat /\ IgnoreRecent \in Nat
        BY <1>0, SegmentsAssumption, LenProperties DEF FilesType
      <4>2. Candidates \in Seq(Segments)
        BY <1>0, <4>1, PartOfList DEF Candidates, FilesType
      <4>3. QED
        BY <4>2, LenProperties
    <3> DEFINE m == 1 + IF Len(Candidates) > ReplayChunks
                        THEN Len(Candidates) - ReplayChunks ELSE 0
    <3>2. m \in Nat /\ m >= 1
      BY <3>1, SegmentsAssumption
    <3>3. listed' = SubSeq(Candidates, m, Len(Candidates)) /\ replay' = <<>>
      BY <2>1 DEF ListFiles
    <3> HIDE DEF m
    <3>4. listed' \in Seq(Segments)
      BY <3>1, <3>2, <3>3, PartOfList
    <3>5. QED
      BY <3>3, <3>4, NothingToDecode, EmptySeq
  <2>2. CASE Concatenate
    <3>1. /\ listed # <<>> /\ replay' = replay \o disk[Head(listed)] /\ listed' = Tail(listed)
      BY <2>2 DEF Concatenate
    <3>2. PICK s : s = Head(listed)
      OBVIOUS
    <3>3. s \in Segments /\ listed' \in Seq(Segments)
      BY <1>0, <3>1, <3>2, HeadTailProperties DEF FilesType
    <3>4. disk[s] \in Seq(Nat) /\ replay' = replay \o disk[s]
      BY <1>0, <3>1, <3>2, <3>3 DEF FilesType
    <3>5. replay' \in Seq(Nat)
      BY <1>0, <3>4, ConcatProperties DEF FilesType
    <3>6. Decodable(replay, lost) /\ Decodable(disk[s], lost) => Decodable(replay', lost)
      BY <1>0, <3>4, DecodeBoth DEF FilesType
    <3>7. QED
      BY <3>3, <3>5, <3>6
  <2>3. CASE Finish
    BY <1>0, <2>3, NothingToDecode, EmptySeq DEF Finish, FilesType
  <2>4. QED
    BY <2>1, <2>2, <2>3 DEF Script
<1>4. FilesType' /\ AtHeader' /\ NoCallback' /\ Stdio'
  BY <1>0, <1>2, <1>3 DEF DecodeInv, FilesType, AtHeader, NoCallback, Stdio, PortOpen
<1>5. faults + 1 < Wrap => BehindNumber' /\ FilesDecodable'
  <2> SUFFICES ASSUME faults + 1 < Wrap PROVE BehindNumber' /\ FilesDecodable'
    OBVIOUS
  <2>1. BehindNumber /\ FilesDecodable
    BY DEF DecodeInv
  <2>2. BehindNumber'
    BY <1>2, <2>1 DEF BehindNumber, Ahead
  <2>3. FilesDecodable'
    BY <1>2, <1>3, <2>1 DEF FilesDecodable, Written
  <2>4. QED
    BY <2>2, <2>3
<1>6. faults' = faults
  BY <1>2
<1>7. QED
  BY <1>4, <1>5, <1>6 DEF DecodeInv

LEMMA DecodeNext == DecodeInv /\ [Next]_vars => DecodeInv'
<1> SUFFICES ASSUME DecodeInv, [Next]_vars PROVE DecodeInv'
  OBVIOUS
<1>0. faults' \in Nat /\ faults' >= faults
  BY FaultsGrow DEF DecodeInv
<1>1. CASE Tick \/ NoticeAbort \/ UNCHANGED vars
  <2>1. /\ UNCHANGED <<sent, fileVars, lost, flush_buffers, replay, listed, callback>>
        /\ PortOpen' = PortOpen /\ (main' = main \/ main # "dead")
    BY <1>1 DEF Tick, NoticeAbort, vars, recorderVars, processVars, streamVars, scriptVars,
                PortOpen
  <2>2. NoCallback'
    BY <2>1 DEF DecodeInv, NoCallback
  <2>3. QED
    BY <1>0, <2>1, <2>2, DecodeSettled
<1>2. CASE ReturnBuffer \/ DisablePort
  <2>1. /\ UNCHANGED <<sent, fileVars, lost, flush_buffers, replay, listed>>
        /\ callback' = "idle" /\ callback \in {"idle", "return"}
        /\ (main' = main \/ main # "dead")
    BY <1>2 DEF ReturnBuffer, DisablePort, processVars, streamVars, scriptVars
  <2>2. NoCallback'
    BY <2>1 DEF NoCallback
  <2>3. QED
    BY <1>0, <2>1, <2>2, DecodeSettled
<1>3. CASE Kill
  <2>1. /\ UNCHANGED <<sent, faults, segmentNumber, handle, disk, byTime, lost, flush_buffers,
                       replay, listed>>
        /\ main' = "dead" /\ callback' = "idle" /\ tail' = <<>>
    BY <1>3 DEF Kill, processVars, streamVars, scriptVars
  <2>2. FilesType' /\ AtHeader' /\ NoCallback' /\ Stdio'
    BY <2>1, EmptySeq DEF DecodeInv, FilesType, AtHeader, NoCallback, Stdio
  <2>3. faults + 1 < Wrap => BehindNumber' /\ FilesDecodable'
    BY <2>1 DEF DecodeInv, BehindNumber, FilesDecodable
  <2>4. faults' = faults
    BY <2>1
  <2>5. QED
    BY <2>2, <2>3, <2>4 DEF DecodeInv
<1>4. QED
  BY <1>1, <1>2, <1>3, DecodeStart, DecodeDeliver, DecodeOpen, DecodeClose, DecodeWrite,
     DecodeScript DEF Next, Callback, Main

-----------------------------------------------------------------------------
\* A recorder with a circular buffer leaves the files alone.
LEMMA OutputIsSegments ==
  (OutputInit => Init) /\ ([OutputNext]_outputVars => [Next]_vars)
BY DEF OutputInit, OutputNext, outputVars

\* In a replay every frame follows the one it depends on or a failed write,
\* however the files were switched, killed, reused or cut off while they were
\* read, for every number of files and of chunks (RaspiVidBalls.c:1343-1362,
\* generate-replay.sh:8-11).
THEOREM ReplayAlwaysDecodable == OutputSpec => []ReplayDecodable
<1>1. DecodeInv => ReplayDecodable
  <2> SUFFICES ASSUME DecodeInv, faults + 1 < Wrap, NEW i \in DOMAIN replay
               PROVE  \/ IsHeader(replay[i])
                      \/ i > 1 /\ replay[i - 1] = replay[i] - 1
                      \/ replay[i] - 1 \in lost
    BY DEF ReplayDecodable
  <2>1. Decodable(replay, lost) /\ i \in 1 .. Len(replay)
    BY DEF DecodeInv, FilesDecodable, FilesType
  <2>2. QED
    BY <2>1 DEF Decodable, Follow
<1>2. OutputInit => DecodeInv
  BY DecodeInit, OutputIsSegments
<1>3. DecodeInv /\ [OutputNext]_outputVars => DecodeInv'
  BY DecodeNext, OutputIsSegments
<1>4. QED
  BY <1>1, <1>2, <1>3, PTL DEF OutputSpec

-----------------------------------------------------------------------------
(* No buffer is lost between two files                                      *)

LEMMA ElementsOfConcat ==
  ASSUME NEW S, NEW f \in Seq(S), NEW g \in Seq(S)
  PROVE  f \o g \in Seq(S) /\ ToSet(f \o g) = ToSet(f) \cup ToSet(g)
<1> DEFINE h == f \o g
           m == Len(f)
           n == Len(g)
<1>1. /\ h \in Seq(S) /\ Len(h) = m + n /\ m \in Nat /\ n \in Nat
      /\ \A i \in 1 .. m + n : h[i] = IF i <= m THEN f[i] ELSE g[i - m]
  BY ConcatProperties, LenProperties
<1>2. /\ ToSet(f) = {f[i] : i \in 1 .. m} /\ ToSet(g) = {g[i] : i \in 1 .. n}
      /\ ToSet(h) = {h[i] : i \in 1 .. m + n}
  BY <1>1 DEF ToSet
<1> HIDE DEF h, m, n
<1>3. /\ \A i \in 1 .. m : i \in 1 .. m + n /\ h[i] = f[i]
      /\ \A i \in 1 .. n : m + i \in 1 .. m + n /\ h[m + i] = g[i]
      /\ \A i \in 1 .. m + n : i \notin 1 .. m => i - m \in 1 .. n /\ h[i] = g[i - m]
  BY <1>1
<1>4. \A x \in ToSet(h) : x \in ToSet(f) \cup ToSet(g)
  BY <1>2, <1>3
<1>5. \A x \in ToSet(f) \cup ToSet(g) : x \in ToSet(h)
  BY <1>2, <1>3
<1>6. QED
  BY <1>1, <1>4, <1>5 DEF h

LEMMA ElementsOfFew ==
  /\ ToSet(<<>>) = {}
  /\ \A b \in Nat : <<b>> \in Seq(Nat) /\ ToSet(<<b>>) = {b}
<1>1. ToSet(<<>>) = {}
  BY DEF ToSet
<1>2. ASSUME NEW b \in Nat PROVE <<b>> \in Seq(Nat) /\ ToSet(<<b>>) = {b}
  <2>1. <<b>> \in Seq(Nat) /\ DOMAIN <<b>> = {1} /\ <<b>>[1] = b
    OBVIOUS
  <2>2. QED
    BY <2>1 DEF ToSet
<1>3. QED
  BY <1>1, <1>2

\* The buffers of a segment, and how many segments ago it was the current one.
Elements(s) == ToSet(Content(s))
Age(s) == IF s <= handle THEN handle - s ELSE handle - s + Wrap
Following(s) == IF s + 1 > Wrap THEN 1 ELSE s + 1

\* What NothingLost speaks about: the first run, without a fault.
FirstRun == PortOpen /\ faults = 0 /\ restarts <= 1

NumberRight ==
  /\ segmentNumber = IF callback \in {"open", "close"} THEN Following(handle) ELSE handle
  /\ callback = "close" => disk[segmentNumber] = <<>>
TailNewest == \A b \in ToSet(tail) : b + 1 = sent
NotYetSent == \A s \in Segments : \A b \in Elements(s) : b < sent
OldestFirst ==
  \A s, t \in Segments : Age(s) > Age(t) =>
    \A a \in Elements(s), b \in Elements(t) : a < b
NextKept ==
  \A s \in Segments : \A b \in Elements(s) :
    b + 1 = sent \/ \E t \in Segments : b + 1 \in Elements(t)

NothingYet ==
  main = "dead" /\ sent = 0 /\ tail = <<>> /\ \A s \in Segments : disk[s] = <<>>

KeptInv ==
  /\ DecodeInv /\ restarts \in Nat
  /\ restarts = 0 => NothingYet
  /\ FirstRun => NumberRight /\ TailNewest /\ NotYetSent /\ OldestFirst /\ NextKept

LEMMA KeptInit == Init => KeptInv
BY DecodeInit DEF Init, KeptInv, NothingYet, FirstRun, PortOpen

\* The contents are what is in the file and, of the current one, in stdio.
Contents ==
  /\ \A s \in Segments : Elements(s) \subseteq Nat
  /\ \A s \in Segments : s # handle => Elements(s) = ToSet(disk[s])
  /\ Elements(handle) = ToSet(disk[handle]) \cup ToSet(tail)

LEMMA ElementsOfSegments == FilesType => Contents
<1> SUFFICES ASSUME FilesType PROVE Contents
  OBVIOUS
<1>1. ASSUME NEW f \in Seq(Nat) PROVE ToSet(f) \subseteq Nat
  BY DEF ToSet
<1>2. /\ handle \in Segments /\ tail \in Seq(Nat) /\ \A s \in Segments : disk[s] \in Seq(Nat)
  BY DEF FilesType
<1>3. Elements(handle) = ToSet(disk[handle]) \cup ToSet(tail)
  BY <1>2, ElementsOfConcat DEF Elements, Content
<1>4. \A s \in Segments : s # handle => Elements(s) = ToSet(disk[s])
  BY DEF Elements, Content
<1>5. QED
  BY <1>1, <1>2, <1>3, <1>4 DEF Contents

LEMMA ElementsAfterwards == FilesType' => Contents'
BY ElementsOfSegments, PTL

\* Steps that leave the contents alone.
LEMMA KeptSettled ==
  ASSUME KeptInv, DecodeInv', UNCHANGED <<sent, handle, tail, disk, restarts>>,
         restarts = 0 => UNCHANGED main, FirstRun' => FirstRun /\ NumberRight'
  PROVE  KeptInv'
<1>1. /\ \A s : Elements(s)' = Elements(s)
      /\ \A s : Age(s)' = Age(s)
  BY DEF Elements, Content, Age
<1>2. restarts' \in Nat /\ (restarts' = 0 => NothingYet')
  BY DEF KeptInv, NothingYet
<1>3. FirstRun' => TailNewest' /\ NotYetSent' /\ OldestFirst' /\ NextKept'
  BY <1>1 DEF KeptInv, TailNewest, NotYetSent, OldestFirst, NextKept
<1>4. QED
  BY <1>2, <1>3 DEF KeptInv

LEMMA Ages ==
  ASSUME FilesType
  PROVE  /\ \A s \in Segments : Age(s) \in 0 .. Wrap - 1
         /\ \A s, t \in Segments : Age(s) = Age(t) => s = t
         /\ \A s \in Segments : s # Following(handle) => Age(s) < Age(Following(handle))
         /\ Following(handle) \in Segments
         /\ Wrap > 1 => Following(handle) # handle
<1>1. Wrap \in Nat /\ Wrap >= 1 /\ handle \in 1 .. Wrap /\ Segments = 1 .. Wrap
  BY SegmentsAssumption DEF FilesType, Segments
<1>2. QED
  BY <1>1 DEF Age, Following

LEMMA KeptStart == KeptInv /\ Start => KeptInv'
<1> SUFFICES ASSUME KeptInv, Start PROVE KeptInv'
  OBVIOUS
<1>1. DecodeInv'
  BY DecodeStart DEF KeptInv
<1>2. FilesType /\ FilesType' /\ restarts \in Nat /\ callback = "idle" /\ 1 \in Segments
  BY <1>1, SegmentsAssumption
     DEF KeptInv, DecodeInv, NoCallback, PortOpen, Start, Segments
<1>3. /\ restarts' = restarts + 1 /\ segmentNumber' = 1 /\ handle' = 1 /\ tail' = <<>>
      /\ callback' = callback /\ sent' = sent + ((-sent) % GroupLength)
      /\ disk' = [disk EXCEPT ![1] = <<>>] \/ UNCHANGED disk
  BY DEF Start
<1>4. restarts' \in Nat /\ restarts' # 0
  BY <1>2, <1>3
<1>5. ASSUME FirstRun'
      PROVE  NumberRight' /\ TailNewest' /\ NotYetSent' /\ OldestFirst' /\ NextKept'
  <2>1. restarts = 0
    BY <1>2, <1>3, <1>5 DEF FirstRun
  <2>2. \A s \in Segments : disk[s] = <<>>
    BY <2>1 DEF KeptInv, NothingYet
  <2>3. \A s \in Segments : disk'[s] = <<>>
    BY <1>2, <1>3, <2>2 DEF FilesType
  <2>4. \A s \in Segments : Elements(s)' = {}
    <3>1. Contents'
      BY <1>2, ElementsAfterwards
    <3>2. QED
      BY <1>3, <2>3, <3>1, ElementsOfFew DEF Contents
  <2>5. NumberRight' /\ TailNewest'
    BY <1>2, <1>3, ElementsOfFew DEF NumberRight, TailNewest
  <2>6. QED
    BY <2>4, <2>5 DEF NotYetSent, OldestFirst, NextKept
<1>6. QED
  BY <1>1, <1>4, <1>5 DEF KeptInv

\* The oldest file is emptied: what is kept is newer.
LEMMA KeptOpen == KeptInv /\ OpenNext => KeptInv'
<1> SUFFICES ASSUME KeptInv, OpenNext PROVE KeptInv'
  OBVIOUS
<1>0. DecodeInv' /\ FilesType /\ FilesType' /\ restarts \in Nat /\ PortOpen /\ callback = "open"
  <2>1. DecodeInv'
    BY DecodeOpen DEF KeptInv
  <2>2. QED
    BY <2>1 DEF KeptInv, DecodeInv, OpenNext, NoCallback
<1>1. /\ \/ /\ disk' = [disk EXCEPT ![segmentNumber] = <<>>]
            /\ callback' = "close" /\ faults' = faults
         \/ faults' = faults + 1
      /\ UNCHANGED <<segmentNumber, handle, tail, sent, main, restarts>>
  BY DEF OpenNext, processVars, streamVars
<1>2. restarts' \in Nat /\ restarts' # 0
  BY <1>0, <1>1 DEF KeptInv, NothingYet, PortOpen
<1>3. ASSUME FirstRun'
      PROVE  NumberRight' /\ TailNewest' /\ NotYetSent' /\ OldestFirst' /\ NextKept'
  <2>0. PICK n : n = segmentNumber
    OBVIOUS
  <2>1. FirstRun /\ callback' = "close" /\ disk' = [disk EXCEPT ![n] = <<>>]
    BY <1>0, <1>1, <1>3, <2>0 DEF FirstRun, FilesType, PortOpen
  <2>2. NumberRight /\ TailNewest /\ NotYetSent /\ OldestFirst /\ NextKept
    BY <2>1 DEF KeptInv
  <2>3. n = Following(handle) /\ n \in Segments
    BY <1>0, <2>0, <2>2 DEF NumberRight, FilesType
  <2>4. NumberRight' /\ TailNewest'
    <3>1. disk'[n] = <<>>
      BY <1>0, <2>1, <2>3 DEF FilesType
    <3>2. NumberRight'
      BY <1>0, <1>1, <2>0, <2>1, <2>2, <3>1 DEF NumberRight, Following
    <3>3. QED
      BY <1>1, <2>2, <3>2 DEF TailNewest
  <2>5. Contents /\ Contents'
    BY <1>0, ElementsOfSegments, ElementsAfterwards
  <2>6. \A s \in Segments : s # n => Elements(s)' = Elements(s)
    BY <1>0, <1>1, <2>1, <2>3, <2>5 DEF Contents, FilesType
  <2>7. /\ Elements(n)' \subseteq Elements(n)
        /\ \A b \in Elements(n)' : b + 1 = sent
    <3>1. disk'[n] = <<>>
      BY <1>0, <2>1, <2>3 DEF FilesType
    <3>2. ToSet(disk'[n]) = {}
      BY <3>1, ElementsOfFew
    <3>3. CASE n # handle
      <4>1. Elements(n)' = {}
        BY <1>1, <2>3, <2>5, <3>2, <3>3 DEF Contents
      <4>2. QED
        BY <4>1
    <3>4. CASE n = handle
      <4>1. Elements(n)' = ToSet(tail)
        BY <1>1, <2>5, <3>2, <3>4 DEF Contents
      <4>2. ToSet(tail) \subseteq Elements(n)
        BY <2>5, <3>4 DEF Contents
      <4>3. QED
        BY <2>2, <4>1, <4>2 DEF TailNewest
    <3>5. QED
      BY <3>3, <3>4
  <2>8. \A s \in Segments : Elements(s)' \subseteq Elements(s) /\ Age(s)' = Age(s)
    BY <1>1, <2>6, <2>7 DEF Age
  <2>9. NotYetSent' /\ OldestFirst'
    BY <1>1, <2>2, <2>8 DEF NotYetSent, OldestFirst
  <2>10. ASSUME NEW s \in Segments, NEW b \in Elements(s)'
         PROVE  b + 1 = sent \/ \E t \in Segments : b + 1 \in Elements(t)'
    <3>1. CASE s = n
      BY <2>7, <2>10, <3>1
    <3>2. CASE s # n
      <4>1. b \in Elements(s) /\ b \in Nat
        BY <2>5, <2>8 DEF Contents
      <4>2. Age(n) > Age(s)
        BY <1>0, <2>3, <3>2, Ages
      <4>3. \A a \in Elements(n) : a < b
        BY <2>2, <2>3, <4>1, <4>2 DEF OldestFirst
      <4>4. b + 1 \notin Elements(n)
        BY <4>1, <4>3
      <4>5. b + 1 = sent \/ \E t \in Segments : b + 1 \in Elements(t)
        BY <2>2, <4>1 DEF NextKept
      <4>6. QED
        BY <2>6, <4>4, <4>5
    <3>3. QED
      BY <3>1, <3>2
  <2>11. NextKept'
    BY <1>1, <2>10 DEF NextKept
  <2>12. QED
    BY <2>4, <2>9, <2>11
<1>4. QED
  BY <1>0, <1>2, <1>3 DEF KeptInv

\* The old file is closed: all contents stay, each is one segment older.
LEMMA KeptClose == KeptInv /\ CloseOld => KeptInv'
<1> SUFFICES ASSUME KeptInv, CloseOld PROVE KeptInv'
  OBVIOUS
<1>0. DecodeInv' /\ FilesType /\ FilesType' /\ restarts \in Nat /\ PortOpen /\ callback = "close"
  <2>1. DecodeInv'
    BY DecodeClose DEF KeptInv
  <2>2. QED
    BY <2>1 DEF KeptInv, DecodeInv, CloseOld, NoCallback
<1>1. /\ disk' = [disk EXCEPT ![handle] = @ \o tail] /\ tail' = <<>> /\ handle' = segmentNumber
      /\ callback' = "write"
      /\ UNCHANGED <<segmentNumber, sent, main, restarts, faults>>
  BY DEF CloseOld, Closed, processVars, streamVars
<1>2. restarts' \in Nat /\ restarts' # 0
  BY <1>0, <1>1 DEF KeptInv, NothingYet, PortOpen
<1>3. ASSUME FirstRun'
      PROVE  NumberRight' /\ TailNewest' /\ NotYetSent' /\ OldestFirst' /\ NextKept'
  <2> DEFINE n == segmentNumber
  <2>1. FirstRun
    BY <1>1, <1>3 DEF FirstRun, PortOpen
  <2>2. NumberRight /\ TailNewest /\ NotYetSent /\ OldestFirst /\ NextKept
    BY <2>1 DEF KeptInv
  <2>3. n = Following(handle) /\ n \in Segments /\ disk[n] = <<>> /\ handle \in Segments
    BY <1>0, <2>2 DEF NumberRight, FilesType
  <2>4. NumberRight' /\ TailNewest'
    BY <1>1, ElementsOfFew DEF NumberRight, TailNewest
  <2>5. Contents /\ Contents'
    BY <1>0, ElementsOfSegments, ElementsAfterwards
  <2>6. ToSet(disk'[handle]) = Elements(handle)
    <3>1. disk[handle] \in Seq(Nat) /\ tail \in Seq(Nat)
      BY <1>0 DEF FilesType
    <3>2. disk'[handle] = disk[handle] \o tail
      BY <1>0, <1>1 DEF FilesType
    <3>3. QED
      BY <2>5, <3>1, <3>2, ElementsOfConcat DEF Contents
  <2>7. \A s \in Segments : Elements(s)' = ToSet(disk'[s])
    BY <1>1, <2>5, ElementsOfFew DEF Contents
  <2>8. \A s \in Segments : Elements(s)' = Elements(s)
    <3>1. \A s \in Segments : s # handle => disk'[s] = disk[s]
      BY <1>0, <1>1 DEF FilesType
    <3>2. QED
      BY <2>5, <2>6, <2>7, <3>1 DEF Contents
  <2>9. n # handle => Elements(n) = {}
    BY <2>3, <2>5, ElementsOfFew DEF Contents
  <2>10. \A s, t \in Segments : Age(s)' > Age(t)' => Age(s) > Age(t) \/ (t = n /\ n # handle)
    <3>1. Wrap \in Nat /\ Wrap >= 1 /\ handle \in 1 .. Wrap /\ Segments = 1 .. Wrap
      BY <1>0, SegmentsAssumption DEF FilesType, Segments
    <3>2. handle' = Following(handle)
      BY <1>1, <2>3
    <3>3. PICK h \in 1 .. Wrap : h = handle'
      BY <1>1, <2>3, <3>1
    <3>4. h = IF handle + 1 > Wrap THEN 1 ELSE handle + 1
      BY <3>2, <3>3 DEF Following
    <3>5. \A s \in Segments : Age(s)' = IF s <= h THEN h - s ELSE h - s + Wrap
      BY <3>3 DEF Age
    <3>6. \A s, t \in 1 .. Wrap :
            (IF s <= h THEN h - s ELSE h - s + Wrap) > (IF t <= h THEN h - t ELSE h - t + Wrap)
              => \/ (IF s <= handle THEN handle - s ELSE handle - s + Wrap)
                      > (IF t <= handle THEN handle - t ELSE handle - t + Wrap)
                 \/ (t = h /\ h # handle)
      BY <3>1, <3>4
    <3>7. \A s \in Segments : Age(s) = IF s <= handle THEN handle - s ELSE handle - s + Wrap
      BY DEF Age
    <3>8. h = n
      BY <2>3, <3>2, <3>3
    <3> HIDE DEF n
    <3>9. QED
      BY <3>1, <3>5, <3>6, <3>7, <3>8
  <2>11. OldestFirst'
    BY <2>2, <2>8, <2>9, <2>10 DEF OldestFirst
  <2>12. NotYetSent' /\ NextKept'
    BY <1>1, <2>2, <2>8 DEF NotYetSent, NextKept
  <2>13. QED
    BY <2>4, <2>11, <2>12
<1>4. QED
  BY <1>0, <1>2, <1>3 DEF KeptInv

\* The newest buffer joins the current segment.
LEMMA KeptWrite == KeptInv /\ Write => KeptInv'
<1> SUFFICES ASSUME KeptInv, Write PROVE KeptInv'
  OBVIOUS
<1>0. DecodeInv' /\ FilesType /\ FilesType' /\ restarts \in Nat /\ PortOpen /\ callback = "write"
      /\ Stdio
  <2>1. DecodeInv'
    BY DecodeWrite DEF KeptInv
  <2>2. QED
    BY <2>1 DEF KeptInv, DecodeInv, Write, NoCallback
<1> DEFINE Kept == /\ disk' = [disk EXCEPT ![handle] = disk[handle] \o <<sent>>]
                   /\ tail' = <<>> /\ flush_buffers
           Buffered == /\ disk' = [disk EXCEPT ![handle] = disk[handle] \o tail]
                       /\ tail' = <<sent>> /\ ~flush_buffers
<1>1. /\ sent' = sent + 1 /\ callback' = "return"
      /\ faults' = faults + 1 \/ ((Kept \/ Buffered) /\ faults' = faults)
      /\ UNCHANGED <<segmentNumber, handle, main, restarts>>
  <2>1. CASE flush_buffers
    BY <2>1 DEF Write
  <2>2. CASE ~flush_buffers
    BY <2>2 DEF Write
  <2>3. QED
    BY <2>1, <2>2
<1>2. restarts' \in Nat /\ restarts' # 0
  BY <1>0, <1>1 DEF KeptInv, NothingYet, PortOpen
<1>3. ASSUME FirstRun'
      PROVE  NumberRight' /\ TailNewest' /\ NotYetSent' /\ OldestFirst' /\ NextKept'
  <2>1. FirstRun /\ (Kept \/ Buffered)
    <3>1. faults' = 0 /\ faults \in Nat
      BY <1>0, <1>3 DEF FirstRun, FilesType
    <3>2. faults' # faults + 1
      BY <3>1
    <3>3. QED
      BY <1>0, <1>1, <1>3, <3>1, <3>2 DEF FirstRun
  <2>2. NumberRight /\ TailNewest /\ NotYetSent /\ OldestFirst /\ NextKept
    BY <2>1 DEF KeptInv
  <2>3. /\ sent \in Nat /\ handle \in Segments /\ disk[handle] \in Seq(Nat) /\ tail \in Seq(Nat)
        /\ <<sent>> \in Seq(Nat) /\ ToSet(<<sent>>) = {sent} /\ ToSet(<<>>) = {}
    BY <1>0, ElementsOfFew DEF FilesType
  <2>4. NumberRight' /\ TailNewest'
    <3>1. NumberRight'
      BY <1>0, <1>1, <2>2 DEF NumberRight
    <3>2. ToSet(tail') \subseteq {sent}
      BY <2>1, <2>3
    <3>3. QED
      BY <1>1, <3>1, <3>2 DEF TailNewest
  <2>5. Contents /\ Contents'
    BY <1>0, ElementsOfSegments, ElementsAfterwards
  <2>5a. PICK h \in Segments : h = handle /\ h = handle'
    BY <1>1, <2>3
  <2>6. Elements(h)' = Elements(h) \cup {sent}
    <3>1. CASE Kept
      <4>1. disk'[handle] = disk[handle] \o <<sent>> /\ tail = <<>> /\ tail' = <<>>
        BY <1>0, <3>1 DEF FilesType, Stdio
      <4>2. ToSet(disk'[handle]) = ToSet(disk[handle]) \cup ToSet(<<sent>>)
        <5>1. PICK w \in Seq(Nat) : w = <<sent>>
          BY <2>3
        <5>2. disk'[handle] = disk[handle] \o w
          BY <4>1, <5>1
        <5>3. ToSet(disk'[handle]) = ToSet(disk[handle]) \cup ToSet(w)
          BY <2>3, <5>2, ElementsOfConcat
        <5>4. QED
          BY <5>1, <5>3
      <4>3. Elements(h) = ToSet(disk[handle])
        BY <2>5a, <2>3, <2>5, <4>1 DEF Contents
      <4>4. Elements(h)' = ToSet(disk'[handle])
        BY <2>5a, <1>1, <2>3, <2>5, <4>1 DEF Contents
      <4>5. QED
        BY <2>3, <4>2, <4>3, <4>4
    <3>2. CASE Buffered
      <4>1. disk'[handle] = disk[handle] \o tail /\ tail' = <<sent>>
        BY <1>0, <3>2 DEF FilesType
      <4>2. ToSet(disk'[handle]) = ToSet(disk[handle]) \cup ToSet(tail)
        BY <2>3, <4>1, ElementsOfConcat
      <4>3. Elements(h) = ToSet(disk[handle]) \cup ToSet(tail)
        BY <2>5, <2>5a DEF Contents
      <4>4. Elements(h)' = ToSet(disk'[handle]) \cup ToSet(<<sent>>)
        BY <2>5, <2>5a, <4>1 DEF Contents
      <4>5. QED
        BY <2>3, <4>2, <4>3, <4>4
    <3>3. QED
      BY <2>1, <3>1, <3>2
  <2>7. \A s \in Segments : s # h => Elements(s)' = Elements(s)
    <3>1. \A s \in Segments : s # h => disk'[s] = disk[s]
      BY <1>0, <2>1, <2>5a DEF FilesType
    <3>2. QED
      BY <2>5, <2>5a, <3>1 DEF Contents
  <2>8. \A s \in Segments : Age(s)' = Age(s)
    BY <1>1 DEF Age
  <2>9. Age(h) = 0 /\ \A s \in Segments : Age(s) >= 0 /\ ~(0 > Age(s))
    <3>1. Age(h) = 0
      <4>1. h \in Int /\ h <= h /\ h - h = 0
        BY SegmentsAssumption DEF Segments
      <4>2. QED
        BY <2>5a, <4>1 DEF Age
    <3>2. \A s \in Segments : Age(s) \in 0 .. Wrap - 1
      BY <1>0, Ages
    <3>3. \A n \in 0 .. Wrap - 1 : n >= 0 /\ ~(0 > n)
      BY SegmentsAssumption
    <3>4. ASSUME NEW s \in Segments PROVE Age(s) >= 0 /\ ~(0 > Age(s))
      <4>1. PICK n \in 0 .. Wrap - 1 : n = Age(s)
        BY <3>2
      <4>2. QED
        BY <3>3, <4>1
    <3>5. QED
      BY <3>1, <3>4
  <2>10. NotYetSent'
    <3>1. sent < sent + 1 /\ \A b \in Nat : b < sent => b < sent + 1
      BY <2>3
    <3>2. ASSUME NEW s \in Segments, NEW b \in Elements(s)' PROVE b < sent + 1
      <4>1. b \in Elements(s) \/ b = sent
        BY <2>6, <2>7, <3>2
      <4>2. CASE b \in Elements(s)
        BY <2>2, <2>5, <3>1, <4>2 DEF NotYetSent, Contents
      <4>3. QED
        BY <3>1, <4>1, <4>2
    <3>3. QED
      BY <1>1, <3>2 DEF NotYetSent
  <2>11. OldestFirst'
    <3> SUFFICES ASSUME NEW s \in Segments, NEW t \in Segments, Age(s) > Age(t),
                        NEW a \in Elements(s)', NEW b \in Elements(t)'
                 PROVE  a < b
      BY <2>8 DEF OldestFirst
    <3>1. s # h
      BY <2>9
    <3>2. a \in Elements(s) /\ a < sent
      BY <2>2, <2>7, <3>1 DEF NotYetSent
    <3>3. b = sent \/ b \in Elements(t)
      <4>1. CASE t = h
        BY <2>6, <4>1
      <4>2. CASE t # h
        BY <2>7, <4>2
      <4>3. QED
        BY <4>1, <4>2
    <3>4. CASE b = sent
      BY <3>2, <3>4
    <3>5. CASE b \in Elements(t)
      BY <2>2, <3>2, <3>5 DEF OldestFirst
    <3>6. QED
      BY <3>3, <3>4, <3>5
  <2>12. ASSUME NEW s \in Segments, NEW b \in Elements(s)'
         PROVE  b + 1 = sent' \/ \E t \in Segments : b + 1 \in Elements(t)'
    <3>1. CASE b = sent
      BY <1>1, <3>1
    <3>2. CASE b # sent
      <4>1. b \in Elements(s)
        <5>1. CASE s = h
          BY <2>6, <2>12, <3>2, <5>1
        <5>2. CASE s # h
          BY <2>7, <2>12, <5>2
        <5>3. QED
          BY <5>1, <5>2
      <4>2. b + 1 = sent \/ \E t \in Segments : b + 1 \in Elements(t)
        BY <2>2, <4>1 DEF NextKept
      <4>3. CASE b + 1 = sent
        <5>1. b + 1 \in Elements(h)'
          BY <2>6, <4>3
        <5>2. QED
          BY <5>1
      <4>4. CASE \E t \in Segments : b + 1 \in Elements(t)
        <5>1. PICK t \in Segments : b + 1 \in Elements(t)
          BY <4>4
        <5>2. CASE t = h
          BY <2>6, <5>1, <5>2
        <5>3. CASE t # h
          BY <2>7, <5>1, <5>3
        <5>4. QED
          BY <5>2, <5>3
      <4>5. QED
        BY <4>2, <4>3, <4>4
    <3>3. QED
      BY <3>1, <3>2
  <2>13. NextKept'
    BY <2>12 DEF NextKept
  <2>14. QED
    BY <2>4, <2>10, <2>11, <2>13
<1>4. QED
  BY <1>0, <1>2, <1>3 DEF KeptInv

LEMMA KeptNext == KeptInv /\ [Next]_vars => KeptInv'
<1> SUFFICES ASSUME KeptInv, [Next]_vars PROVE KeptInv'
  OBVIOUS
<1>0. DecodeInv' /\ FilesType /\ NoCallback /\ restarts \in Nat
  BY DecodeNext DEF KeptInv, DecodeInv
<1>1. CASE Deliver
  <2>1. UNCHANGED <<sent, handle, tail, disk, restarts, main, faults>>
    BY <1>1 DEF Deliver, processVars
  <2>2. FirstRun' => FirstRun
    BY <2>1 DEF FirstRun, PortOpen
  <2>3. FirstRun' => NumberRight'
    <3> SUFFICES ASSUME FirstRun' PROVE NumberRight'
      OBVIOUS
    <3>1. NumberRight /\ segmentNumber = handle
      BY <1>1, <2>2 DEF KeptInv, NumberRight, Deliver
    <3>2. \/ callback' = "open" /\ segmentNumber' = NextNumber
          \/ callback' = "write" /\ segmentNumber' = segmentNumber
      BY <1>1 DEF Deliver
    <3>3. handle' = handle /\ NextNumber = Following(handle)
      BY <2>1, <3>1 DEF NextNumber, Following
    <3>4. CASE callback' = "open" /\ segmentNumber' = NextNumber
      BY <3>3, <3>4 DEF NumberRight, Following
    <3>5. CASE callback' = "write" /\ segmentNumber' = segmentNumber
      BY <3>1, <3>3, <3>5 DEF NumberRight
    <3>6. QED
      BY <3>2, <3>4, <3>5
  <2>4. QED
    BY <1>0, <2>1, <2>2, <2>3, KeptSettled
<1>2. CASE Tick \/ NoticeAbort \/ Script \/ UNCHANGED vars
  <2>1. /\ UNCHANGED <<sent, handle, tail, disk, restarts, segmentNumber, callback, faults>>
        /\ UNCHANGED main \/ (main = "capturing" /\ main' = "stopping")
    BY <1>2 DEF Tick, NoticeAbort, Script, ListFiles, Concatenate, Finish, vars, recorderVars,
                processVars, streamVars, fileVars
  <2>2. FirstRun' => FirstRun
    BY <2>1 DEF FirstRun, PortOpen
  <2>3. FirstRun' => NumberRight'
    BY <2>1, <2>2 DEF KeptInv, NumberRight, Following
  <2>4. restarts = 0 => UNCHANGED main
    BY <2>1 DEF KeptInv, NothingYet
  <2>5. QED
    BY <1>0, <2>1, <2>2, <2>3, <2>4, KeptSettled
<1>3. CASE ReturnBuffer
  <2>1. /\ UNCHANGED <<sent, handle, tail, disk, restarts, segmentNumber, main>>
        /\ callback = "return" /\ callback' = "idle"
        /\ faults' = faults \/ faults' = faults + 1
    BY <1>3 DEF ReturnBuffer, processVars, streamVars, fileVars
  <2>2. FirstRun' => FirstRun
    <3>1. faults \in Nat
      BY <1>0 DEF FilesType
    <3>2. faults' = 0 => faults = 0
      BY <2>1, <3>1
    <3>3. QED
      BY <2>1, <3>2 DEF FirstRun, PortOpen
  <2>3. FirstRun' => NumberRight'
    BY <2>1, <2>2 DEF KeptInv, NumberRight
  <2>4. QED
    BY <1>0, <2>1, <2>2, <2>3, KeptSettled
<1>4. CASE DisablePort \/ Close \/ Kill
  <2>1. /\ main # "dead" /\ main' \in {"disabled", "dead"} /\ restarts' = restarts
    BY <1>4 DEF DisablePort, Close, Kill
  <2>2. restarts' # 0 /\ ~FirstRun'
    BY <2>1 DEF KeptInv, NothingYet, FirstRun, PortOpen
  <2>3. QED
    BY <1>0, <2>1, <2>2 DEF KeptInv
<1>5. QED
  BY <1>1, <1>2, <1>3, <1>4, KeptStart, KeptOpen, KeptClose, KeptWrite DEF Next, Callback, Main

\* Without a fault the files and stdio hold every buffer since the oldest they
\* have, each in one place, for every number of files and whether every write
\* is flushed or not (RaspiVidBalls.c:1343-1375).
THEOREM NoBufferLost == OutputSpec => []NothingLost
<1>1. KeptInv => NothingLost
  <2> SUFFICES ASSUME KeptInv, FirstRun, NEW s \in Segments, NEW b \in Elements(s)
               PROVE  /\ b + 1 = sent \/ \E t \in Segments : b + 1 \in Elements(t)
                      /\ \A t \in Segments \ {s} : b \notin Elements(t)
    BY DEF NothingLost, FirstRun, PortOpen, Elements
  <2>1. FilesType /\ Contents /\ OldestFirst /\ NextKept
    BY ElementsOfSegments DEF KeptInv, DecodeInv
  <2>2. ASSUME NEW t \in Segments \ {s}, b \in Elements(t) PROVE FALSE
    <3>1. b \in Nat /\ ~(b < b)
      BY <2>1 DEF Contents
    <3>2. Age(s) # Age(t) /\ Age(s) \in Int /\ Age(t) \in Int
      BY <2>1, Ages, SegmentsAssumption
    <3>3. Age(s) > Age(t) \/ Age(t) > Age(s)
      BY <3>2
    <3>4. QED
      BY <2>1, <2>2, <3>1, <3>3 DEF OldestFirst
  <2>3. QED
    BY <2>1, <2>2 DEF NextKept
<1>2. OutputInit => KeptInv
  BY KeptInit, OutputIsSegments
<1>3. KeptInv /\ [OutputNext]_outputVars => KeptInv'
  BY KeptNext, OutputIsSegments
<1>4. QED
  BY <1>1, <1>2, <1>3, PTL DEF OutputSpec

-----------------------------------------------------------------------------
(* The replay is in the order of the stream                                 *)

\* A list of files, and what it is after file s, at place p, has been modified.
Once(t) == \A i, j \in 1 .. Len(t) : t[i] = t[j] => i = j
Moves(t, u, s, p) ==
  /\ u \in Seq(Segments) /\ u[Len(u)] = s
  /\ \/ p = Len(t) + 1 /\ s \notin ToSet(t) /\ Len(u) = Len(t) + 1
     \/ p \in 1 .. Len(t) /\ t[p] = s /\ Len(u) = Len(t)
  /\ \A i \in 1 .. Len(u) - 1 : (i < p => u[i] = t[i]) /\ (i >= p => u[i] = t[i + 1])

LEMMA AppendLast ==
  ASSUME NEW S, NEW t \in Seq(S), NEW s \in S
  PROVE  /\ Append(t, s) \in Seq(S) /\ Len(Append(t, s)) = Len(t) + 1
         /\ Append(t, s)[Len(t) + 1] = s
         /\ \A i \in 1 .. Len(t) : Append(t, s)[i] = t[i]
BY AppendProperties, LenProperties

LEMMA TouchedPlaces ==
  ASSUME byTime \in Seq(Segments), NEW s \in Segments
  PROVE  \E p \in 1 .. Len(byTime) + 1 : Moves(byTime, Touched(s), s, p)
<1> DEFINE n == Len(byTime)
           u == Touched(s)
<1>0. n \in Nat
  BY LenProperties
<1>1. CASE ~\E i \in 1 .. n : byTime[i] = s
  <2>1. u = Append(byTime, s)
    BY <1>1 DEF RemoveFirst, Touched
  <2>2. s \notin ToSet(byTime)
    BY <1>1 DEF ToSet
  <2>3. /\ u \in Seq(Segments) /\ Len(u) = n + 1 /\ u[n + 1] = s
        /\ \A i \in 1 .. n : u[i] = byTime[i]
    BY <2>1, AppendLast
  <2> HIDE DEF u
  <2>4. n + 1 \in 1 .. n + 1 /\ \A i \in 1 .. (n + 1) - 1 : i \in 1 .. n /\ i < n + 1 /\ ~(i >= n + 1)
    BY <1>0
  <2>5. Moves(byTime, u, s, n + 1)
    BY <2>2, <2>3, <2>4 DEF Moves
  <2>6. QED
    BY <2>4, <2>5 DEF u
<1>2. CASE \E i \in 1 .. n : byTime[i] = s
  <2> DEFINE I == {k \in 1 .. n : byTime[k] = s}
             p == IF I # {} THEN Min(I) ELSE 0
             f == SubSeq(byTime, 1, p - 1)
             g == SubSeq(byTime, p + 1, n)
  <2>1. u = Append(f \o g, s)
    BY <1>2 DEF RemoveFirst, RemoveAt, SelectInSeq, Touched
  <2>2. p \in 1 .. n /\ byTime[p] = s
    <3>1. I # {} /\ I \in SUBSET Nat
      BY <1>2
    <3>2. p \in I
      BY <3>1, LeastPlace
    <3>3. QED
      BY <3>2
  <2> HIDE DEF p
  <2>3. /\ f \in Seq(Segments) /\ Len(f) = p - 1 /\ \A i \in 1 .. p - 1 : f[i] = byTime[i]
        /\ g \in Seq(Segments) /\ Len(g) = n - p /\ \A i \in 1 .. n - p : g[i] = byTime[p + i]
    BY <1>0, <2>2, SubSeqProperties
  <2> HIDE DEF f, g
  <2>4. /\ f \o g \in Seq(Segments) /\ Len(f \o g) = n - 1
        /\ \A i \in 1 .. n - 1 : (f \o g)[i] = IF i < p THEN byTime[i] ELSE byTime[i + 1]
    <3>1. /\ f \o g \in Seq(Segments) /\ Len(f \o g) = Len(f) + Len(g)
          /\ \A i \in 1 .. Len(f) + Len(g) :
               (f \o g)[i] = IF i <= Len(f) THEN f[i] ELSE g[i - Len(f)]
      BY <2>3, ConcatProperties
    <3>2. Len(f) + Len(g) = n - 1
      BY <1>0, <2>2, <2>3
    <3>3. ASSUME NEW i \in 1 .. n - 1, i < p PROVE (f \o g)[i] = byTime[i]
      <4>1. i <= Len(f) /\ i \in 1 .. p - 1
        BY <1>0, <2>2, <2>3, <3>3
      <4>2. QED
        BY <2>3, <3>1, <3>2, <4>1
    <3>4. ASSUME NEW i \in 1 .. n - 1, ~(i < p) PROVE (f \o g)[i] = byTime[i + 1]
      <4>1. ~(i <= Len(f)) /\ i - Len(f) \in 1 .. n - p /\ p + (i - Len(f)) = i + 1
        BY <1>0, <2>2, <2>3, <3>4
      <4>2. QED
        BY <2>3, <3>1, <3>2, <4>1
    <3>5. QED
      BY <3>1, <3>2, <3>3, <3>4
  <2>5. /\ u \in Seq(Segments) /\ Len(u) = n /\ u[n] = s
        /\ \A i \in 1 .. n - 1 : u[i] = IF i < p THEN byTime[i] ELSE byTime[i + 1]
    <3>1. PICK h \in Seq(Segments) : h = f \o g
      BY <2>4
    <3>2. u = Append(h, s) /\ (n - 1) + 1 = n
      BY <1>0, <2>1, <3>1
    <3>3. QED
      BY <2>4, <3>1, <3>2, AppendLast
  <2> HIDE DEF u
  <2>6. \A i \in 1 .. n - 1 : i >= p => ~(i < p)
    BY <1>0, <2>2
  <2>7. Moves(byTime, u, s, p) /\ p \in 1 .. n + 1
    <3>1. p \in 1 .. n + 1
      BY <1>0, <2>2
    <3>2. \A i \in 1 .. n - 1 : (i < p => u[i] = byTime[i]) /\ (i >= p => u[i] = byTime[i + 1])
      BY <2>5, <2>6
    <3>3. QED
      BY <2>2, <2>5, <3>1, <3>2 DEF Moves
  <2>8. QED
    BY <2>7 DEF u
<1>3. QED
  BY <1>1, <1>2

\* Each file of the new list but the last was in the old one, in the same order.
LEMMA MovedFrom ==
  ASSUME NEW t \in Seq(Segments), NEW u, NEW s, NEW p \in 1 .. Len(t) + 1,
         Once(t), Moves(t, u, s, p)
  PROVE  /\ Len(t) \in Nat /\ Len(u) \in Nat \ {0} /\ Len(u) <= Len(t) + 1
         /\ \E from \in [1 .. Len(u) - 1 -> 1 .. Len(t)] :
              /\ \A i \in 1 .. Len(u) - 1 : u[i] = t[from[i]] /\ u[i] # s
              /\ \A i, j \in 1 .. Len(u) - 1 : i < j => from[i] < from[j]
<1> DEFINE n == Len(t)
           m == Len(u)
           from == [i \in 1 .. m - 1 |-> IF i < p THEN i ELSE i + 1]
<1>1. n \in Nat /\ m \in Nat \ {0} /\ m <= n + 1 /\ p <= n + 1 /\ m >= n /\ m >= 1
  BY LenProperties DEF Moves
<1>2. \A i \in 1 .. m - 1 : /\ from[i] = IF i < p THEN i ELSE i + 1
                            /\ from[i] \in 1 .. n
  <2>1. CASE p = n + 1 /\ m = n + 1
    BY <1>1, <2>1
  <2>2. CASE p \in 1 .. n /\ m = n
    BY <1>1, <2>2
  <2>3. QED
    BY <2>1, <2>2 DEF Moves
<1>3. \A i, j \in 1 .. m - 1 : i < j => from[i] < from[j]
  BY <1>1
<1>4. \A i \in 1 .. m - 1 : u[i] = t[from[i]]
  <2>1. \A i \in 1 .. m - 1 : (i < p => u[i] = t[i]) /\ (i >= p => u[i] = t[i + 1])
    BY DEF Moves
  <2>2. \A i \in 1 .. m - 1 : i < p \/ i >= p
    BY <1>1
  <2>3. \A i \in 1 .. m - 1 : (i < p => from[i] = i) /\ (i >= p => from[i] = i + 1)
    BY <1>1
  <2> HIDE DEF m, from
  <2>4. QED
    BY <2>1, <2>2, <2>3
<1>5. ASSUME NEW i \in 1 .. m - 1 PROVE t[from[i]] # s
  <2>1. CASE p = n + 1 /\ s \notin ToSet(t)
    BY <1>2, <2>1 DEF ToSet
  <2>2. CASE p \in 1 .. n /\ t[p] = s
    <3>1. from[i] # p /\ from[i] \in 1 .. n
      BY <1>1, <1>2
    <3> HIDE DEF from, n, m
    <3>2. QED
      BY <2>2, <3>1 DEF Once, n
  <2>3. QED
    BY <2>1, <2>2 DEF Moves
<1>6. from \in [1 .. m - 1 -> 1 .. n]
  BY <1>2
<1> HIDE DEF from
<1>7. QED
  BY <1>1, <1>3, <1>4, <1>5, <1>6

LEMMA MovedOnce ==
  ASSUME NEW t \in Seq(Segments), NEW u, NEW s, NEW p \in 1 .. Len(t) + 1,
         Once(t), Moves(t, u, s, p)
  PROVE  Once(u) /\ ToSet(u) \subseteq ToSet(t) \cup {s} /\ ToSet(t) \subseteq ToSet(u)
<1> DEFINE n == Len(t)
           m == Len(u)
<1>1. PICK from \in [1 .. m - 1 -> 1 .. n] :
        /\ \A i \in 1 .. m - 1 : u[i] = t[from[i]] /\ u[i] # s
        /\ \A i, j \in 1 .. m - 1 : i < j => from[i] < from[j]
  BY MovedFrom
<1>2. n \in Nat /\ m \in Nat \ {0} /\ u[m] = s /\ ToSet(t) = {t[i] : i \in 1 .. n}
      /\ ToSet(u) = {u[i] : i \in 1 .. m}
  BY MovedFrom DEF Moves, ToSet
<1>3. \A i \in 1 .. m : i \in 1 .. m - 1 \/ i = m
  BY <1>2
<1>4. ASSUME NEW i \in 1 .. m, NEW j \in 1 .. m, u[i] = u[j] PROVE i = j
  <2>1. CASE i \in 1 .. m - 1 /\ j \in 1 .. m - 1
    <3>1. from[i] = from[j]
      BY <1>1, <1>4, <2>1 DEF Once
    <3>2. from[i] \in 1 .. n /\ from[j] \in 1 .. n
      BY <1>1, <2>1
    <3>3. i < j => from[i] < from[j]
      BY <1>1, <2>1
    <3>4. j < i => from[j] < from[i]
      BY <1>1, <2>1
    <3>5. i \in Int /\ j \in Int
      OBVIOUS
    <3>6. QED
      BY <3>1, <3>2, <3>3, <3>4, <3>5
  <2>2. QED
    BY <1>1, <1>2, <1>3, <1>4, <2>1
<1>5. ToSet(u) \subseteq ToSet(t) \cup {s}
  <2>1. ASSUME NEW i \in 1 .. m PROVE u[i] \in ToSet(t) \cup {s}
    <3>1. CASE i \in 1 .. m - 1
      <4>1. from[i] \in 1 .. n
        BY <1>1, <3>1
      <4>2. t[from[i]] \in ToSet(t)
        BY <1>2, <4>1
      <4>3. QED
        BY <1>1, <3>1, <4>2
    <3>2. QED
      BY <1>2, <1>3, <3>1
  <2> HIDE DEF m, n
  <2>2. QED
    BY <1>2, <2>1
<1>6. ASSUME NEW i \in 1 .. n PROVE t[i] \in ToSet(u)
  <2> HIDE DEF n, m
  <2>1. n = Len(t) /\ m = Len(u)
    BY DEF n, m
  <2>2. CASE i < p
    <3>1. CASE i \in 1 .. m - 1
      <4>1. u[i] = t[i] /\ i \in 1 .. m
        BY <1>2, <2>1, <2>2, <3>1 DEF Moves
      <4>2. QED
        BY <1>2, <4>1
    <3>2. CASE i \notin 1 .. m - 1
      <4>1. i = p
        BY <1>2, <1>6, <2>1, <2>2, <3>2 DEF Moves
      <4>2. QED
        BY <2>2, <4>1, <1>2
    <3>3. QED
      BY <3>1, <3>2
  <2>3. CASE ~(i < p)
    <3>1. p \in 1 .. n /\ t[p] = s /\ m = n
      BY <1>2, <2>1, <2>3 DEF Moves
    <3>2. CASE i = p
      <4>1. m \in 1 .. m
        BY <1>2
      <4>2. QED
        BY <1>2, <3>1, <3>2, <4>1
    <3>3. CASE i # p
      <4>1. i - 1 \in 1 .. m - 1 /\ i - 1 >= p /\ (i - 1) + 1 = i /\ i - 1 \in 1 .. m
        BY <1>2, <2>3, <3>1, <3>3
      <4>2. u[i - 1] = t[i]
        <5>1. \A k \in 1 .. m - 1 : k >= p => u[k] = t[k + 1]
          BY <2>1 DEF Moves
        <5>2. QED
          BY <4>1, <5>1
      <4>3. QED
        BY <1>2, <4>1, <4>2
    <3>4. QED
      BY <3>2, <3>3
  <2>4. QED
    BY <2>2, <2>3
<1>7. ToSet(t) \subseteq ToSet(u)
  <2> HIDE DEF m, n
  <2>1. QED
    BY <1>2, <1>6
<1>8. QED
  BY <1>4, <1>5, <1>7 DEF Once

\* Every buffer of one file is before every buffer of another; the files of a
\* list, and the buffers of a file, are in order.
Precede(f, g) == \A a \in ToSet(f), b \in ToSet(g) : a < b
InOrder(t, d) == \A i, j \in 1 .. Len(t) : i < j => Precede(d[t[i]], d[t[j]])
Rising(f) == \A i, j \in 1 .. Len(f) : i < j => f[i] < f[j]

LEMMA EmptyPrecedes ==
  /\ \A f : Precede(<<>>, f) /\ Precede(f, <<>>)
  /\ Rising(<<>>) /\ \A b : Rising(<<b>>)
<1>1. ToSet(<<>>) = {}
  BY ElementsOfFew
<1>2. \A b : Rising(<<b>>)
  <2> SUFFICES ASSUME NEW b PROVE Rising(<<b>>)
    OBVIOUS
  <2>1. Len(<<b>>) = 1 /\ \A i, j \in 1 .. 1 : ~(i < j)
    OBVIOUS
  <2>2. QED
    BY <2>1 DEF Rising
<1>3. Len(<<>>) = 0 /\ \A i \in 1 .. 0 : FALSE
  OBVIOUS
<1>4. Rising(<<>>)
  BY <1>3 DEF Rising
<1>5. QED
  BY <1>1, <1>2, <1>4 DEF Precede

\* The modified file goes last, and may then hold what is after all others.
LEMMA MovedOrder ==
  ASSUME NEW t \in Seq(Segments), NEW u, NEW s, NEW p \in 1 .. Len(t) + 1,
         Once(t), Moves(t, u, s, p), NEW d, NEW e, InOrder(t, d),
         \A x \in Segments : x # s => e[x] = d[x] /\ Precede(e[x], e[s])
  PROVE  InOrder(u, e)
<1> DEFINE n == Len(t)
           m == Len(u)
<1>1. PICK from \in [1 .. m - 1 -> 1 .. n] :
        /\ \A i \in 1 .. m - 1 : u[i] = t[from[i]] /\ u[i] # s
        /\ \A i, j \in 1 .. m - 1 : i < j => from[i] < from[j]
  BY MovedFrom
<1>2. n \in Nat /\ m \in Nat \ {0} /\ u[m] = s /\ \A i \in 1 .. m : u[i] \in Segments
  BY MovedFrom, LenProperties, ElementOfSeq DEF Moves
<1> SUFFICES ASSUME NEW i \in 1 .. m, NEW j \in 1 .. m, i < j PROVE Precede(e[u[i]], e[u[j]])
  BY DEF InOrder
<1>3. i \in 1 .. m - 1 /\ (j \in 1 .. m - 1 \/ j = m)
  BY <1>2
<1>4. u[i] # s /\ e[u[i]] = d[u[i]]
  BY <1>1, <1>2, <1>3
<1>5. CASE j = m
  BY <1>2, <1>4, <1>5
<1>6. CASE j \in 1 .. m - 1
  <2>1. u[j] # s /\ e[u[j]] = d[u[j]]
    BY <1>1, <1>2, <1>6
  <2>2. from[i] < from[j] /\ from[i] \in 1 .. n /\ from[j] \in 1 .. n
    BY <1>1, <1>3, <1>6
  <2>3. Precede(d[t[from[i]]], d[t[from[j]]])
    BY <2>2 DEF InOrder
  <2>4. QED
    BY <1>1, <1>3, <1>4, <1>6, <2>1, <2>3
<1>7. QED
  BY <1>3, <1>5, <1>6

\* How many numbers s is before o, round the ring.
Back(o, s) == IF s <= o THEN o - s ELSE o - s + Wrap
Preceding(s) == IF s = 1 THEN Wrap ELSE s - 1

LEMMA Backwards ==
  ASSUME NEW o \in Segments
  PROVE  /\ Following(o) \in Segments /\ Preceding(o) \in Segments
         /\ Preceding(Following(o)) = o /\ Following(Preceding(o)) = o
         /\ \A s \in Segments :
              /\ Back(o, s) \in 0 .. Wrap - 1
              /\ Back(o, s) = 0 => s = o
              /\ s # Following(o) => Back(Following(o), s) = Back(o, s) + 1
         /\ Back(o, o) = 0 /\ Back(Following(o), Following(o)) = 0
         /\ Back(o, Following(o)) = Wrap - 1
<1>1. Wrap \in Nat /\ Wrap >= 1 /\ o \in 1 .. Wrap /\ Segments = 1 .. Wrap
  BY SegmentsAssumption DEF Segments
<1>2. QED
  BY <1>1 DEF Back, Following, Preceding

\* A file is as far from the latest as its number is from the latest tried, but
\* for k that could not be opened; after a switch the old one is the latest.
Numbers(t, o, k) ==
  \A i \in 1 .. Len(t) : /\ i < Len(t) => Back(o, t[i]) <= Len(t) - i + k
                         /\ i = Len(t) => Back(o, t[i]) <= k + 1

LEMMA NumbersSkip ==
  ASSUME NEW t \in Seq(Segments), NEW o \in Segments, NEW k \in Nat, Numbers(t, o, k)
  PROVE  Numbers(t, Following(o), k + 1)
<1> DEFINE q == Following(o)
           n == Len(t)
<1> SUFFICES ASSUME NEW i \in 1 .. n
             PROVE  /\ i < n => Back(q, t[i]) <= n - i + (k + 1)
                    /\ i = n => Back(q, t[i]) <= (k + 1) + 1
  BY DEF Numbers
<1>1. n \in Nat /\ t[i] \in Segments
  BY LenProperties, ElementOfSeq
<1>2. PICK a \in Nat, b \in Nat : a = Back(o, t[i]) /\ b = Back(q, t[i]) /\ b <= a + 1
  <2>1. Back(o, t[i]) \in 0 .. Wrap - 1
    BY <1>1, Backwards
  <2>2. Back(q, t[i]) = 0 \/ Back(q, t[i]) = Back(o, t[i]) + 1
    BY <1>1, Backwards
  <2>3. Back(q, t[i]) \in Nat /\ Back(q, t[i]) <= Back(o, t[i]) + 1
    <3>1. PICK a \in Nat : a = Back(o, t[i])
      BY <2>1
    <3>2. PICK b : b = Back(q, t[i])
      OBVIOUS
    <3>3. b = 0 \/ b = a + 1
      BY <2>2, <3>1, <3>2
    <3>4. b \in Nat /\ b <= a + 1
      BY <3>3
    <3>5. QED
      BY <3>1, <3>2, <3>4
  <2> HIDE DEF q
  <2>4. QED
    BY <2>1, <2>3
<1>3. (i < n => a <= n - i + k) /\ (i = n => a <= k + 1)
  BY <1>2 DEF Numbers
<1> HIDE DEF q, n
<1>4. (i < n => b <= n - i + (k + 1)) /\ (i = n => b <= (k + 1) + 1)
  BY <1>1, <1>2, <1>3
<1>5. QED
  BY <1>2, <1>4

LEMMA NumbersOpen ==
  ASSUME NEW t \in Seq(Segments), NEW o \in Segments, NEW k \in Nat, Numbers(t, o, k),
         t # <<>>, t[Len(t)] # Following(o), Back(o, t[Len(t)]) <= k,
         NEW u, NEW p \in 1 .. Len(t) + 1, Once(t), Moves(t, u, Following(o), p)
  PROVE  Numbers(u, Following(o), k)
<1> DEFINE q == Following(o)
           n == Len(t)
           m == Len(u)
<1>1. /\ n \in Nat \ {0} /\ m \in Nat \ {0} /\ q \in Segments /\ u[m] = q /\ Wrap \in Nat
      /\ \A i \in 1 .. n : t[i] \in Segments
  BY MovedFrom, LenProperties, ElementOfSeq, EmptySeq, Backwards, SegmentsAssumption DEF Moves
<1>2. \A i \in 1 .. n : /\ Back(o, t[i]) \in 0 .. Wrap - 1
                        /\ i < n => Back(o, t[i]) <= n - i + k
                        /\ i = n => Back(o, t[i]) <= k
                        /\ t[i] # q => Back(q, t[i]) = Back(o, t[i]) + 1
                        /\ t[i] = q => Back(o, t[i]) = Wrap - 1
  BY <1>1, Backwards DEF Numbers
<1>3. Back(q, u[m]) = 0
  BY <1>1, Backwards
<1>4. \A i \in 1 .. m - 1 : (i < p => u[i] = t[i]) /\ (i >= p => u[i] = t[i + 1])
  BY DEF Moves
<1>5. \/ p = n + 1 /\ m = n + 1 /\ \A i \in 1 .. n : t[i] # q
      \/ p \in 1 .. n - 1 /\ t[p] = q /\ m = n
  <2>1. CASE p = n + 1 /\ q \notin ToSet(t) /\ m = n + 1
    BY <2>1 DEF ToSet
  <2>2. CASE p \in 1 .. n /\ t[p] = q /\ m = n
    <3>1. p # n
      BY <2>2
    <3>2. QED
      BY <1>1, <2>2, <3>1
  <2>3. QED
    BY <2>1, <2>2 DEF Moves
<1> SUFFICES ASSUME NEW i \in 1 .. m
             PROVE  /\ i < m => Back(q, u[i]) <= m - i + k
                    /\ i = m => Back(q, u[i]) <= k + 1
  BY DEF Numbers
<1> HIDE DEF q, n, m
<1>6. CASE i = m
  BY <1>1, <1>3, <1>6
<1>7. CASE i # m /\ p = n + 1 /\ m = n + 1 /\ \A j \in 1 .. n : t[j] # q
  <2>1. i \in 1 .. m - 1 /\ i \in 1 .. n /\ i < p
    BY <1>1, <1>7
  <2>2. u[i] = t[i] /\ t[i] # q
    BY <1>4, <1>7, <2>1
  <2>3. PICK a \in Nat : a = Back(o, t[i]) /\ Back(q, t[i]) = a + 1
    BY <1>2, <2>1, <2>2
  <2>4. (i < n => a <= n - i + k) /\ (i = n => a <= k)
    BY <1>2, <2>1, <2>3
  <2>5. a + 1 <= m - i + k /\ i # m
    BY <1>1, <1>7, <2>1, <2>4
  <2>6. QED
    BY <2>2, <2>3, <2>5
<1>8. CASE i # m /\ p \in 1 .. n - 1 /\ t[p] = q /\ m = n
  <2>1. i \in 1 .. m - 1 /\ i \in 1 .. n /\ p \in 1 .. n /\ p < n
    BY <1>1, <1>8
  <2>2. CASE i < p
    <3>1. u[i] = t[i] /\ t[i] # q
      <4>1. u[i] = t[i]
        BY <1>4, <2>1, <2>2
      <4>2. i # p
        BY <2>1, <2>2
      <4>3. QED
        BY <1>8, <2>1, <4>1, <4>2 DEF Once, n
    <3>2. PICK a \in 0 .. Wrap - 1 : a = Back(o, t[i]) /\ Back(q, t[i]) = a + 1
      BY <1>2, <2>1, <3>1
    <3>3. Wrap - 1 <= n - p + k
      BY <1>2, <1>8, <2>1
    <3>4. a + 1 <= m - i + k
      BY <1>1, <1>8, <2>1, <2>2, <3>3
    <3>5. QED
      BY <1>8, <3>1, <3>2, <3>4
  <2>3. CASE ~(i < p)
    <3>1. i >= p /\ i + 1 \in 1 .. n /\ i + 1 # p
      BY <1>1, <1>8, <2>1, <2>3
    <3>2. u[i] = t[i + 1] /\ t[i + 1] # q
      <4>1. u[i] = t[i + 1]
        BY <1>4, <2>1, <3>1
      <4>2. QED
        BY <1>8, <2>1, <3>1, <4>1 DEF Once, n
    <3>3. PICK j \in 1 .. n : j = i + 1
      BY <3>1
    <3>4. PICK a \in Nat : a = Back(o, t[j]) /\ Back(q, t[j]) = a + 1
      BY <1>2, <3>2, <3>3
    <3>5. (j < n => a <= n - j + k) /\ (j = n => a <= k)
      BY <1>2, <3>4
    <3>6. a + 1 <= m - i + k
      BY <1>1, <1>8, <2>1, <3>3, <3>5
    <3>7. QED
      BY <1>8, <3>2, <3>3, <3>4, <3>6
  <2>4. QED
    BY <2>2, <2>3
<1>9. QED
  BY <1>5, <1>6, <1>7, <1>8

LEMMA NumbersTouch ==
  ASSUME NEW t \in Seq(Segments), NEW o \in Segments, NEW k \in Nat, Numbers(t, o, k),
         NEW s, NEW u, NEW p \in 1 .. Len(t), p >= Len(t) - 1, Moves(t, u, s, p), Once(t)
  PROVE  /\ Numbers(u, o, k) /\ Len(u) = Len(t)
         /\ \A i \in 1 .. Len(t) : i < Len(t) - 1 => u[i] = t[i]
         /\ p = Len(t) => \A i \in 1 .. Len(t) : u[i] = t[i]
         /\ p = Len(t) - 1 => u[Len(t) - 1] = t[Len(t)]
<1> DEFINE n == Len(t)
<1>1. /\ n \in Nat /\ Len(u) = n /\ u[n] = s /\ t[p] = s /\ n >= 1 /\ p >= n - 1 /\ p \in 1 .. n
      /\ \A i \in 1 .. n - 1 : (i < p => u[i] = t[i]) /\ (i >= p => u[i] = t[i + 1])
  <2>1. n \in Nat /\ p \in 1 .. n /\ p # n + 1
    BY LenProperties
  <2>2. Len(u) = n /\ t[p] = s
    BY <2>1 DEF Moves
  <2>3. /\ u[Len(u)] = s
        /\ \A i \in 1 .. Len(u) - 1 : (i < p => u[i] = t[i]) /\ (i >= p => u[i] = t[i + 1])
    BY DEF Moves
  <2>4. p >= n - 1 /\ n >= 1
    BY <2>1
  <2> HIDE DEF n
  <2>5. QED
    BY <2>1, <2>2, <2>3, <2>4
<1>2. /\ \A i \in 1 .. n : i < n - 1 => i \in 1 .. n - 1 /\ i < p
      /\ p = n => \A i \in 1 .. n - 1 : i < p
      /\ p = n - 1 => p \in 1 .. n - 1 /\ p >= p /\ p + 1 = n
      /\ \A i \in 1 .. n : i \in 1 .. n - 1 \/ i = n
      /\ p = n \/ p = n - 1
  BY <1>1
<1>3. /\ \A i \in 1 .. n : i < n - 1 => u[i] = t[i]
      /\ p = n => \A i \in 1 .. n : u[i] = t[i]
      /\ p = n - 1 => u[n - 1] = t[n]
  BY <1>1, <1>2
<1>4. \A i \in 1 .. n : /\ i < n => Back(o, t[i]) <= n - i + k
                        /\ i = n => Back(o, t[i]) <= k + 1
  BY DEF Numbers
<1> HIDE DEF n
<1>5. ASSUME NEW i \in 1 .. n
      PROVE  (i < n => Back(o, u[i]) <= n - i + k) /\ (i = n => Back(o, u[i]) <= k + 1)
  <2>1. CASE p = n
    BY <1>3, <1>4, <2>1
  <2>2. CASE p = n - 1
    <3>1. CASE i < n - 1
      <4>1. i # n /\ i < n
        BY <1>1, <3>1
      <4>2. QED
        BY <1>3, <1>4, <3>1, <4>1
    <3>2. CASE i = n - 1
      <4>1. u[i] = t[n] /\ n \in 1 .. n /\ n - i + k = k + 1 /\ i # n
        BY <1>1, <1>3, <2>2, <3>2
      <4>2. QED
        BY <1>4, <4>1
    <3>3. CASE i = n
      <4>1. u[i] = t[p] /\ p < n /\ n - p + k = k + 1 /\ ~(i < n)
        BY <1>1, <2>2, <3>3
      <4>2. QED
        BY <1>1, <1>4, <3>3, <4>1
    <3>4. QED
      BY <1>1, <3>1, <3>2, <3>3
  <2>3. QED
    BY <1>2, <2>1, <2>2
<1>6. QED
  BY <1>1, <1>3, <1>5 DEF Numbers, n

-----------------------------------------------------------------------------
\* The number whose file the recorder has last tried to open.
Opened == IF callback = "open" THEN Preceding(segmentNumber) ELSE segmentNumber

\* What the files hold is in order, what stdio holds is after all of them.
FilesRise == \A s \in Segments : Rising(disk[s]) /\ \A b \in ToSet(disk[s]) : b < sent
TailLast ==
  /\ Rising(tail) /\ \A b \in ToSet(tail) : b < sent
  /\ \A s \in Segments : Precede(disk[s], tail)
Unlisted == \A s \in Segments : s \notin ToSet(byTime) => disk[s] = <<>>

\* The file that is written was modified last, but for a switch: then the new
\* one is, until closing the old one makes that the latest again, until stdio
\* writes to the new one.
Switching ==
  /\ callback = "close" /\ Len(byTime) > 1
  /\ byTime[Len(byTime)] = segmentNumber /\ byTime[Len(byTime) - 1] = handle
  /\ disk[segmentNumber] = <<>>
Fresh ==
  /\ callback \notin {"open", "close"} /\ Len(byTime) > 1
  /\ byTime[Len(byTime) - 1] = handle /\ disk[handle] = <<>>
  /\ tail = <<>> => callback = "write" /\ IsHeader(sent)
  /\ tail # <<>> => ~IsHeader(sent)
LatestFile ==
  \/ byTime = <<>> /\ callback = "idle" /\ atPort = 0
  \/ byTime # <<>> /\ callback # "close" /\ byTime[Len(byTime)] = handle
  \/ Switching
  \/ Fresh

FilesInOrder ==
  /\ Once(byTime) /\ InOrder(byTime, disk) /\ Unlisted /\ FilesRise /\ TailLast
  /\ main # "dead" => LatestFile /\ Numbers(byTime, Opened, faults)

\* What ReplayInOrder speaks about: one run whose writes succeed.
Calm == restarts <= 1 /\ lost = {} /\ faults + 1 < Wrap

FilesInv ==
  /\ DecodeInv /\ restarts \in Nat
  /\ restarts = 0 => NothingYet /\ byTime = <<>>
  /\ Calm => FilesInOrder

\* The files that are still to be read come after what has been read, and none
\* of them is emptied before: the recorder has not come round to it.  Only the
\* last may be the one that is written.
SlowEnough == IgnoreRecent > 0 /\ reopened + faults + IgnoreRecent <= Wrap - ReplayChunks
ListInOrder ==
  /\ Rising(replay) /\ Precede(replay, tail) /\ \A b \in ToSet(replay) : b < sent
  /\ InOrder(listed, disk) /\ \A s \in ToSet(listed) : Precede(replay, disk[s])
  /\ main # "dead" =>
       /\ \A i \in 1 .. Len(listed) : i < Len(listed) => listed[i] # handle
       /\ callback = "close" => segmentNumber \notin ToSet(listed)
       /\ \A s \in ToSet(listed) :
            Back(Opened, s) < IgnoreRecent + ReplayChunks + faults + reopened
NothingRead == listed = <<>> /\ replay = <<>>

ListInv ==
  /\ reopened \in Nat
  /\ script # "cat" \/ restarts = 0 \/ ReplayChunks = 0 => NothingRead
  /\ Calm /\ SlowEnough => ListInOrder

OrderInv == FilesInv /\ ListInv

LEMMA RisingConcat ==
  ASSUME NEW f \in Seq(Nat), NEW g \in Seq(Nat), Rising(f), Rising(g), Precede(f, g)
  PROVE  Rising(f \o g)
<1> DEFINE h == f \o g
           m == Len(f)
           n == Len(g)
<1>1. /\ Len(h) = m + n /\ m \in Nat /\ n \in Nat
      /\ \A i \in 1 .. m + n : h[i] = IF i <= m THEN f[i] ELSE g[i - m]
      /\ ToSet(f) = {f[i] : i \in 1 .. m} /\ ToSet(g) = {g[i] : i \in 1 .. n}
  BY ConcatProperties, LenProperties DEF ToSet
<1> SUFFICES ASSUME NEW i \in 1 .. m + n, NEW j \in 1 .. m + n, i < j PROVE h[i] < h[j]
  BY <1>1 DEF Rising
<1>2. CASE j <= m
  <2>1. i <= m /\ i \in 1 .. m /\ j \in 1 .. m
    BY <1>1, <1>2
  <2>2. QED
    BY <1>1, <1>2, <2>1 DEF Rising
<1>3. CASE i <= m /\ ~(j <= m)
  <2>1. i \in 1 .. m /\ j - m \in 1 .. n
    BY <1>1, <1>3
  <2>2. h[i] \in ToSet(f) /\ h[j] \in ToSet(g)
    BY <1>1, <1>3, <2>1
  <2>3. QED
    BY <2>2 DEF Precede
<1>4. CASE ~(i <= m)
  <2>1. ~(j <= m) /\ i - m \in 1 .. n /\ j - m \in 1 .. n /\ i - m < j - m
    BY <1>1, <1>4
  <2>2. h[i] = g[i - m] /\ h[j] = g[j - m]
    BY <1>1, <1>4, <2>1
  <2> HIDE DEF h, m, n
  <2>3. QED
    BY <2>1, <2>2 DEF Rising, n
<1>5. QED
  BY <1>2, <1>3, <1>4

\* Nothing is after what the file in hand has.
LEMMA HandleAfter ==
  ASSUME FilesType, FilesInOrder, main # "dead"
  PROVE  \A x \in Segments : x # handle => Precede(disk[x], disk[handle])
<1> DEFINE n == Len(byTime)
<1> SUFFICES ASSUME NEW x \in Segments, x # handle PROVE Precede(disk[x], disk[handle])
  OBVIOUS
<1>1. /\ n \in Nat /\ InOrder(byTime, disk) /\ LatestFile
      /\ x \notin ToSet(byTime) => disk[x] = <<>>
  BY LenProperties DEF FilesInOrder, FilesType, Unlisted
<1>2. CASE x \notin ToSet(byTime)
  BY <1>1, <1>2, EmptyPrecedes
<1>3. CASE x \in ToSet(byTime)
  <2>1. PICK i \in 1 .. n : byTime[i] = x
    BY <1>3 DEF ToSet
  <2>2. byTime # <<>> /\ n >= 1
    BY <1>1, <2>1
  <2>3. CASE byTime[n] = handle
    <3>1. i < n /\ n \in 1 .. n
      BY <1>1, <2>1, <2>2, <2>3
    <3>2. QED
      BY <1>1, <2>1, <2>3, <3>1 DEF InOrder
  <2>4. CASE Switching
    <3>1. /\ n > 1 /\ byTime[n] = segmentNumber /\ byTime[n - 1] = handle
          /\ disk[segmentNumber] = <<>>
      BY <2>4 DEF Switching
    <3>2. CASE i = n
      BY <2>1, <3>1, <3>2, EmptyPrecedes
    <3>3. CASE i # n
      <4>1. i < n - 1 /\ n - 1 \in 1 .. n
        BY <1>1, <2>1, <3>1, <3>3
      <4>2. QED
        BY <1>1, <2>1, <3>1, <4>1 DEF InOrder
    <3>4. QED
      BY <3>2, <3>3
  <2>5. CASE Fresh
    BY <2>5, EmptyPrecedes DEF Fresh
  <2>6. QED
    BY <1>1, <2>2, <2>3, <2>4, <2>5 DEF LatestFile
<1>4. QED
  BY <1>2, <1>3

\* Something is appended to the file in hand, or nothing.
Appends(w, d, t) ==
  \/ w = <<>> /\ d = disk /\ t = byTime
  \/ w # <<>> /\ d = [disk EXCEPT ![handle] = disk[handle] \o w] /\ t = Touched(handle)

LEMMA Grown ==
  ASSUME FilesType, FilesInOrder, main # "dead",
         NEW w \in Seq(Nat), Rising(w), \A x \in Segments : Precede(disk[x], w),
         NEW d, NEW t, Appends(w, d, t)
  PROVE  /\ d \in [Segments -> Seq(Nat)]
         /\ \A x \in Segments : x # handle => d[x] = disk[x]
         /\ ToSet(d[handle]) = ToSet(disk[handle]) \cup ToSet(w)
         /\ \A x \in Segments : Rising(d[x])
         /\ \A x \in Segments : x \notin ToSet(t) => d[x] = <<>>
         /\ Once(t) /\ InOrder(t, d)
<1>1. /\ disk \in [Segments -> Seq(Nat)] /\ byTime \in Seq(Segments) /\ handle \in Segments
      /\ disk[handle] \in Seq(Nat) /\ Once(byTime) /\ InOrder(byTime, disk)
      /\ \A x \in Segments : Rising(disk[x])
      /\ \A x \in Segments : x \notin ToSet(byTime) => disk[x] = <<>>
  BY DEF FilesType, FilesInOrder, FilesRise, Unlisted
<1>2. CASE w = <<>> /\ d = disk /\ t = byTime
  BY <1>1, <1>2, ElementsOfFew
<1>3. CASE d = [disk EXCEPT ![handle] = disk[handle] \o w] /\ t = Touched(handle)
  <2>1. PICK h \in Seq(Nat) : h = disk[handle] \o w
    BY <1>1, ElementsOfConcat
  <2>2. /\ d = [disk EXCEPT ![handle] = h]
        /\ ToSet(h) = ToSet(disk[handle]) \cup ToSet(w) /\ Rising(h)
    BY <1>1, <1>3, <2>1, ElementsOfConcat, RisingConcat
  <2>3. /\ d \in [Segments -> Seq(Nat)] /\ d[handle] = h
        /\ \A x \in Segments : x # handle => d[x] = disk[x]
    BY <1>1, <2>2
  <2>4. PICK p \in 1 .. Len(byTime) + 1 : Moves(byTime, t, handle, p)
    BY <1>1, <1>3, TouchedPlaces
  <2>5. Once(t) /\ ToSet(byTime) \cup {handle} \subseteq ToSet(t)
    <3>1. Once(t) /\ ToSet(byTime) \subseteq ToSet(t)
      BY <1>1, <2>4, MovedOnce
    <3>2. handle \in ToSet(t)
      <4>1. Len(t) \in Nat \ {0} /\ t[Len(t)] = handle
        BY <1>1, <2>4, MovedFrom DEF Moves
      <4>2. Len(t) \in 1 .. Len(t) /\ ToSet(t) = {t[i] : i \in 1 .. Len(t)}
        BY <2>4, <4>1 DEF ToSet, Moves
      <4>3. QED
        BY <4>1, <4>2
    <3>3. QED
      BY <3>1, <3>2
  <2>6. \A x \in Segments : x # handle => Precede(d[x], d[handle])
    <3>1. \A x \in Segments : x # handle => Precede(disk[x], disk[handle])
      BY HandleAfter
    <3>2. QED
      BY <2>2, <2>3, <3>1 DEF Precede
  <2>7. InOrder(t, d)
    BY <1>1, <2>3, <2>4, <2>6, MovedOrder
  <2>8. QED
    BY <1>1, <2>2, <2>3, <2>5, <2>7
<1>4. QED
  BY <1>2, <1>3 DEF Appends

\* Its file is then the latest, where it is not already the one before.
LEMMA GrownLast ==
  ASSUME FilesType, FilesInOrder, NEW p \in 1 .. Len(byTime), p >= Len(byTime) - 1,
         byTime[p] = handle, NEW o \in Segments, Numbers(byTime, o, faults),
         NEW w, NEW d, NEW t, Appends(w, d, t)
  PROVE  /\ Numbers(t, o, faults) /\ Len(t) = Len(byTime) /\ Len(t) \in Nat \ {0}
         /\ w # <<>> => t[Len(t)] = handle
         /\ w # <<>> /\ p = Len(byTime) - 1 => t[Len(t) - 1] = byTime[Len(byTime)]
<1> DEFINE n == Len(byTime)
<1>1. /\ byTime \in Seq(Segments) /\ handle \in Segments /\ Once(byTime) /\ faults \in Nat
      /\ n \in Nat \ {0}
  BY LenProperties DEF FilesType, FilesInOrder
<1>2. CASE w = <<>> /\ t = byTime
  BY <1>1, <1>2
<1>3. CASE w # <<>> /\ t = Touched(handle)
  <2>1. PICK q \in 1 .. n + 1 : Moves(byTime, t, handle, q)
    BY <1>1, <1>3, TouchedPlaces
  <2>2. q = p
    <3>1. handle \in ToSet(byTime)
      BY <1>1 DEF ToSet
    <3>2. q \in 1 .. n /\ byTime[q] = handle
      BY <2>1, <3>1 DEF Moves
    <3>3. QED
      BY <1>1, <3>2 DEF Once
  <2>3. /\ Numbers(t, o, faults) /\ Len(t) = n
        /\ p = n - 1 => t[n - 1] = byTime[n]
    BY <1>1, <2>1, <2>2, NumbersTouch
  <2>4. t[Len(t)] = handle
    BY <2>1 DEF Moves
  <2>5. QED
    BY <1>1, <2>3, <2>4
<1>4. QED
  BY <1>2, <1>3 DEF Appends

LEMMA NumbersMore ==
  ASSUME NEW t \in Seq(Segments), NEW o \in Segments, NEW k \in Nat, NEW l \in Nat, k <= l,
         Numbers(t, o, k)
  PROVE  Numbers(t, o, l)
<1> SUFFICES ASSUME NEW i \in 1 .. Len(t)
             PROVE  /\ i < Len(t) => Back(o, t[i]) <= Len(t) - i + l
                    /\ i = Len(t) => Back(o, t[i]) <= l + 1
  BY DEF Numbers
<1>1. Len(t) \in Nat /\ t[i] \in Segments
  BY LenProperties, ElementOfSeq
<1>2. PICK a \in Nat : a = Back(o, t[i])
  <2>1. Back(o, t[i]) \in 0 .. Wrap - 1
    BY <1>1, Backwards
  <2>2. QED
    BY <2>1
<1>3. (i < Len(t) => a <= Len(t) - i + k) /\ (i = Len(t) => a <= k + 1)
  BY <1>2 DEF Numbers
<1>4. (i < Len(t) => a <= Len(t) - i + l) /\ (i = Len(t) => a <= l + 1)
  BY <1>1, <1>3
<1>5. QED
  BY <1>2, <1>4

LEMMA LostGrows == [Next]_vars => lost \subseteq lost'
BY DEF Next, Start, Tick, Callback, Deliver, OpenNext, CloseOld, Write, ReturnBuffer, Main,
       NoticeAbort, DisablePort, Close, Kill, Script, ListFiles, Concatenate, Finish, vars,
       recorderVars, streamVars

LEMMA OpenedType == FilesType => Opened \in Segments
BY Backwards DEF FilesType, Opened

\* A calm run has been calm.
LEMMA CalmBefore ==
  ASSUME FilesInv, [Next]_vars, Calm', restarts' = restarts
  PROVE  Calm /\ FilesInOrder
<1>1. lost = {} /\ restarts <= 1
  BY LostGrows DEF Calm
<1>2. FilesType /\ faults' \in Nat /\ faults' >= faults /\ faults' + 1 < Wrap
  BY FaultsGrow DEF FilesInv, DecodeInv, Calm
<1>3. faults + 1 < Wrap
  BY <1>2, LessFaults
<1>4. QED
  BY <1>1, <1>3 DEF Calm, FilesInv

LEMMA FilesInit == Init => FilesInv
<1> SUFFICES ASSUME Init PROVE FilesInv
  OBVIOUS
<1>1. /\ byTime = <<>> /\ tail = <<>> /\ main = "dead" /\ sent = 0 /\ restarts = 0
      /\ \A s \in Segments : disk[s] = <<>>
  BY DEF Init
<1>2. Len(<<>>) = 0 /\ \A i \in 1 .. 0 : FALSE
  OBVIOUS
<1>3. Once(byTime) /\ InOrder(byTime, disk)
  BY <1>1, <1>2 DEF Once, InOrder
<1>4. Unlisted /\ FilesRise /\ TailLast
  BY <1>1, EmptyPrecedes, ElementsOfFew DEF Unlisted, FilesRise, TailLast
<1>5. QED
  BY <1>1, <1>3, <1>4, DecodeInit DEF FilesInv, FilesInOrder, NothingYet

\* Steps that leave the files and the stream alone.
LEMMA FilesSettled ==
  ASSUME FilesInv, [Next]_vars, UNCHANGED <<sent, tail, disk, byTime, handle, restarts>>,
         Opened' = Opened, main' = main \/ (main # "dead" /\ restarts # 0),
         Calm' /\ main # "dead" /\ LatestFile => LatestFile'
  PROVE  FilesInv'
<1>1. DecodeInv' /\ FilesType /\ faults' \in Nat /\ faults' >= faults
  BY DecodeNext, FaultsGrow DEF FilesInv, DecodeInv
<1>2. restarts' \in Nat /\ (restarts' = 0 => NothingYet' /\ byTime' = <<>>)
  BY DEF FilesInv, NothingYet
<1>3. ASSUME Calm' PROVE FilesInOrder'
  <2>1. FilesInOrder
    BY <1>3, CalmBefore
  <2>2. Once(byTime)' /\ InOrder(byTime, disk)' /\ Unlisted' /\ FilesRise' /\ TailLast'
    BY <2>1 DEF FilesInOrder, Once, InOrder, Unlisted, FilesRise, TailLast
  <2>3. ASSUME main' # "dead" PROVE LatestFile' /\ Numbers(byTime, Opened, faults)'
    <3>1. main # "dead" /\ LatestFile /\ Numbers(byTime, Opened, faults)
      BY <2>1, <2>3 DEF FilesInOrder
    <3>2. byTime \in Seq(Segments) /\ Opened \in Segments /\ faults \in Nat
      BY <1>1, OpenedType DEF FilesType
    <3>3. Numbers(byTime, Opened, faults')
      <4>1. PICK l \in Nat : l = faults' /\ faults <= l
        BY <1>1, <3>2
      <4>2. Numbers(byTime, Opened, l)
        BY <3>1, <3>2, <4>1, NumbersMore
      <4>3. QED
        BY <4>1, <4>2
    <3>4. Numbers(byTime, Opened, faults)'
      BY <3>3
    <3>5. QED
      BY <1>3, <3>1, <3>4
  <2>4. QED
    BY <2>2, <2>3 DEF FilesInOrder
<1>4. QED
  BY <1>1, <1>2, <1>3 DEF FilesInv

LEMMA FilesStart == FilesInv /\ Start => FilesInv'
<1> SUFFICES ASSUME FilesInv, Start PROVE FilesInv'
  OBVIOUS
<1>1. DecodeInv'
  BY DecodeStart DEF FilesInv
<1>2. /\ FilesType /\ FilesType' /\ restarts \in Nat /\ callback = "idle" /\ 1 \in Segments
      /\ byTime \in Seq(Segments) /\ disk \in [Segments -> Seq(Nat)]
  BY <1>1, SegmentsAssumption
     DEF FilesInv, DecodeInv, NoCallback, PortOpen, Start, Segments, FilesType
<1>3. /\ restarts' = restarts + 1 /\ segmentNumber' = 1 /\ handle' = 1 /\ tail' = <<>>
      /\ callback' = callback
      /\ \/ disk' = [disk EXCEPT ![1] = <<>>] /\ byTime' = Touched(1) /\ faults' = faults
         \/ UNCHANGED <<disk, byTime>> /\ atPort' = 0
  BY DEF Start
<1>4. restarts' \in Nat /\ restarts' # 0
  BY <1>2, <1>3
<1>5. ASSUME Calm' PROVE FilesInOrder'
  <2>1. restarts = 0
    BY <1>2, <1>3, <1>5 DEF Calm
  <2>2. byTime = <<>> /\ \A s \in Segments : disk[s] = <<>>
    BY <2>1 DEF FilesInv, NothingYet
  <2>3. \A s \in Segments : disk'[s] = <<>>
    BY <1>2, <1>3, <2>2
  <2>4. /\ byTime' = <<>> => atPort' = 0
        /\ byTime' # <<>> => Len(byTime') = 1 /\ byTime'[1] = 1
    <3>1. CASE byTime' = Touched(1)
      <4>1. PICK p \in 1 .. Len(byTime) + 1 : Moves(byTime, Touched(1), 1, p)
        BY <1>2, TouchedPlaces
      <4>2. Len(byTime) = 0
        BY <2>2
      <4>3. Len(Touched(1)) = 1 /\ Touched(1)[1] = 1
        BY <4>1, <4>2 DEF Moves
      <4>4. Touched(1) # <<>>
        BY <4>3
      <4>5. QED
        BY <3>1, <4>3, <4>4
    <3>2. CASE UNCHANGED <<disk, byTime>> /\ atPort' = 0
      BY <2>2, <3>2
    <3>3. QED
      BY <1>3, <3>1, <3>2
  <2>5. PICK u : u = byTime'
    OBVIOUS
  <2>6. (u = <<>> \/ (Len(u) = 1 /\ u[1] = 1)) /\ Len(<<>>) = 0
    BY <2>4, <2>5
  <2>7. \A i, j \in 1 .. Len(u) : i = j /\ i = Len(u) /\ u[i] = 1 /\ ~(i < j)
    BY <2>6
  <2>8. Once(u) /\ \A d : InOrder(u, d)
    BY <2>7 DEF Once, InOrder
  <2>9. Unlisted' /\ FilesRise' /\ TailLast'
    BY <1>3, <2>3, EmptyPrecedes, ElementsOfFew DEF Unlisted, FilesRise, TailLast
  <2>10. LatestFile'
    <3>1. CASE byTime' = <<>>
      BY <1>2, <1>3, <2>4, <3>1 DEF LatestFile
    <3>2. CASE byTime' # <<>>
      <4>1. byTime'[Len(byTime')] = 1
        BY <2>4, <3>2
      <4>2. QED
        BY <1>2, <1>3, <3>2, <4>1 DEF LatestFile
    <3>3. QED
      BY <3>1, <3>2
  <2>11. Numbers(byTime, Opened, faults)'
    <3>1. Opened' = 1 /\ Back(1, 1) = 0 /\ faults' \in Nat
      BY <1>2, <1>3, Backwards DEF Opened, FilesType
    <3>2. PICK k \in Nat : k = faults'
      BY <3>1
    <3>3. \A i \in 1 .. Len(u) : ~(i < Len(u)) /\ Back(1, u[i]) <= k + 1
      BY <2>7, <3>1, <3>2
    <3>4. Numbers(u, 1, k)
      BY <3>3 DEF Numbers
    <3>5. QED
      BY <2>5, <3>1, <3>2, <3>4
  <2>12. Once(byTime)' /\ InOrder(byTime, disk)'
    BY <2>5, <2>8
  <2>13. QED
    BY <2>9, <2>10, <2>11, <2>12 DEF FilesInOrder
<1>6. QED
  BY <1>1, <1>4, <1>5 DEF FilesInv

LEMMA FilesOpen == FilesInv /\ OpenNext => FilesInv'
<1> SUFFICES ASSUME FilesInv, OpenNext PROVE FilesInv'
  OBVIOUS
<1> DEFINE n == Len(byTime)
<1>0. /\ DecodeInv' /\ FilesType /\ restarts \in Nat /\ PortOpen /\ main # "dead"
      /\ callback = "open" /\ [Next]_vars /\ restarts # 0
  BY DecodeOpen DEF FilesInv, DecodeInv, OpenNext, NoCallback, PortOpen, Next, Callback, NothingYet
<1>1. /\ \/ /\ disk' = [disk EXCEPT ![segmentNumber] = <<>>]
            /\ byTime' = Touched(segmentNumber)
            /\ callback' = "close" /\ UNCHANGED faults
         \/ /\ UNCHANGED <<disk, byTime>> /\ callback' = "write" /\ faults' = faults + 1
      /\ UNCHANGED <<segmentNumber, handle, tail, sent, restarts, main>>
  BY DEF OpenNext, processVars, streamVars
<1>2. restarts' \in Nat /\ restarts' # 0
  BY <1>0, <1>1
<1>3. ASSUME Calm' PROVE FilesInOrder'
  <2>1. Calm /\ FilesInOrder
    BY <1>0, <1>1, <1>3, CalmBefore
  <2>2. /\ byTime \in Seq(Segments) /\ disk \in [Segments -> Seq(Nat)]
        /\ segmentNumber \in Segments /\ handle \in Segments /\ faults \in Nat
        /\ Once(byTime) /\ InOrder(byTime, disk)
    BY <1>0, <2>1 DEF FilesType, FilesInOrder
  <2>3. byTime # <<>> /\ byTime[n] = handle /\ n \in Nat \ {0}
    <3>1. LatestFile
      BY <1>0, <2>1 DEF FilesInOrder
    <3>2. byTime # <<>> /\ byTime[n] = handle
      BY <1>0, <3>1 DEF LatestFile, Switching, Fresh
    <3>3. QED
      BY <2>2, <3>2, EmptySeq, LenProperties
  <2>4. PICK o \in Segments : /\ o = Opened /\ segmentNumber = Following(o)
                              /\ Numbers(byTime, o, faults)
    <3>1. Opened = Preceding(segmentNumber)
      BY <1>0 DEF Opened
    <3>2. Numbers(byTime, Opened, faults)
      BY <1>0, <2>1 DEF FilesInOrder
    <3>3. QED
      BY <2>2, <3>1, <3>2, Backwards
  <2>5. handle # segmentNumber /\ Back(o, handle) <= faults
    <3>1. Ahead \in 1 .. faults + 1
      BY <1>0, <2>1 DEF FilesInv, DecodeInv, BehindNumber, Calm
    <3>2. handle # segmentNumber
      BY <1>0, <3>1, OneAhead DEF FilesType
    <3>3. Ahead = Back(segmentNumber, handle)
      <4>1. segmentNumber \in Nat /\ handle \in Nat
        BY <2>2, SegmentsAssumption DEF Segments
      <4>2. QED
        BY <4>1 DEF Ahead, Back
    <3>4. Ahead = Back(o, handle) + 1 /\ Back(o, handle) \in 0 .. Wrap - 1
      BY <2>2, <2>4, <3>2, <3>3, Backwards
    <3>5. PICK a \in Nat : a = Back(o, handle)
      BY <3>4
    <3>6. a + 1 \in 1 .. faults + 1
      BY <3>1, <3>4, <3>5
    <3>7. a <= faults
      BY <2>2, <3>6
    <3>8. QED
      BY <3>2, <3>5, <3>7
  <2>6. FilesRise /\ TailLast /\ Unlisted
    BY <2>1 DEF FilesInOrder
  <2>7. CASE byTime' = Touched(segmentNumber) /\ callback' = "close" /\ UNCHANGED faults
             /\ disk' = [disk EXCEPT ![segmentNumber] = <<>>]
    <3>1. PICK p \in 1 .. n + 1 : Moves(byTime, byTime', segmentNumber, p)
      BY <2>2, <2>7, TouchedPlaces
    <3>2. /\ disk'[segmentNumber] = <<>>
          /\ \A x \in Segments : x # segmentNumber => disk'[x] = disk[x]
      BY <2>2, <2>7
    <3>3. \A x \in Segments : Precede(disk'[x], disk'[segmentNumber])
      BY <3>2, EmptyPrecedes
    <3>4. Once(byTime') /\ ToSet(byTime) \subseteq ToSet(byTime')
      BY <2>2, <3>1, MovedOnce
    <3>5. InOrder(byTime', disk')
      BY <2>2, <3>1, <3>2, <3>3, MovedOrder
    <3>6. Unlisted'
      BY <2>6, <3>2, <3>4 DEF Unlisted
    <3>7. FilesRise' /\ TailLast'
      <4>1. Rising(<<>>) /\ ToSet(<<>>) = {} /\ Precede(<<>>, tail)
        BY EmptyPrecedes, ElementsOfFew
      <4>2. \A x \in Segments : disk'[x] = disk[x] \/ disk'[x] = <<>>
        BY <3>2
      <4>3. ASSUME NEW x \in Segments
            PROVE  /\ Rising(disk'[x]) /\ Precede(disk'[x], tail)
                   /\ \A b \in ToSet(disk'[x]) : b < sent
        <5>1. CASE disk'[x] = disk[x]
          BY <2>6, <5>1 DEF FilesRise, TailLast
        <5>2. CASE disk'[x] = <<>>
          BY <4>1, <5>2
        <5>3. QED
          BY <4>2, <5>1, <5>2
      <4>4. QED
        BY <1>1, <2>6, <4>3 DEF FilesRise, TailLast
    <3>8. Opened' = segmentNumber
      BY <1>1, <2>7 DEF Opened
    <3>9. Numbers(byTime', segmentNumber, faults)
      BY <2>2, <2>3, <2>4, <2>5, <3>1, NumbersOpen
    <3>10. Len(byTime') > 1 /\ byTime'[Len(byTime')] = segmentNumber
           /\ byTime'[Len(byTime') - 1] = handle
      <4>1. PICK u : u = byTime'
        OBVIOUS
      <4>2. PICK m : m = Len(u)
        OBVIOUS
      <4>3. /\ u[m] = segmentNumber
            /\ (p = n + 1 /\ m = n + 1) \/ (p \in 1 .. n /\ byTime[p] = segmentNumber /\ m = n)
            /\ \A i \in 1 .. m - 1 : (i < p => u[i] = byTime[i]) /\ (i >= p => u[i] = byTime[i + 1])
        BY <3>1, <4>1, <4>2 DEF Moves
      <4>4. CASE p = n + 1 /\ m = n + 1
        <5>1. m > 1 /\ m - 1 \in 1 .. m - 1 /\ m - 1 < p /\ m - 1 = n
          BY <2>3, <4>4
        <5>2. QED
          BY <2>3, <4>1, <4>2, <4>3, <5>1
      <4>5. CASE p \in 1 .. n /\ byTime[p] = segmentNumber /\ m = n
        <5>1. p # n
          BY <2>3, <2>5, <4>5
        <5>2. m > 1 /\ m - 1 \in 1 .. m - 1 /\ m - 1 >= p /\ (m - 1) + 1 = n
          BY <2>3, <4>5, <5>1
        <5>3. u[m - 1] = byTime[n]
          <6>1. u[m - 1] = byTime[(m - 1) + 1]
            BY <4>3, <5>2
          <6>2. QED
            BY <5>2, <6>1
        <5>4. QED
          BY <2>3, <4>1, <4>2, <4>3, <5>2, <5>3
      <4>6. QED
        BY <4>3, <4>4, <4>5
    <3>11. LatestFile'
      BY <1>1, <2>7, <3>2, <3>10 DEF LatestFile, Switching
    <3>12. Numbers(byTime, Opened, faults)'
      BY <2>7, <3>8, <3>9
    <3>13. Once(byTime)' /\ InOrder(byTime, disk)'
      BY <3>4, <3>5
    <3>14. QED
      BY <3>6, <3>7, <3>11, <3>12, <3>13 DEF FilesInOrder
  <2>8. CASE UNCHANGED <<disk, byTime>> /\ callback' = "write" /\ faults' = faults + 1
    <3>1. Once(byTime)' /\ InOrder(byTime, disk)' /\ Unlisted' /\ FilesRise' /\ TailLast'
      BY <1>1, <2>2, <2>6, <2>8 DEF Once, InOrder, Unlisted, FilesRise, TailLast
    <3>2. LatestFile'
      BY <1>1, <2>3, <2>8 DEF LatestFile
    <3>3. Opened' = segmentNumber
      BY <1>1, <2>8 DEF Opened
    <3>4. Numbers(byTime, segmentNumber, faults + 1)
      BY <2>2, <2>4, NumbersSkip
    <3>5. Numbers(byTime, Opened, faults)'
      BY <2>8, <3>3, <3>4
    <3>6. QED
      BY <3>1, <3>2, <3>5 DEF FilesInOrder
  <2>9. QED
    BY <1>1, <2>7, <2>8
<1>4. QED
  BY <1>0, <1>2, <1>3 DEF FilesInv

\* The place of the file in hand in the list by time.
LEMMA PlaceOfHandle ==
  ASSUME FilesType, LatestFile, callback # "idle" \/ byTime # <<>>
  PROVE  \E p \in 1 .. Len(byTime) : /\ p >= Len(byTime) - 1 /\ byTime[p] = handle
                                     /\ Len(byTime) \in Nat
                                     /\ Switching \/ Fresh => p = Len(byTime) - 1
<1> DEFINE n == Len(byTime)
<1>1. n \in Nat /\ (byTime # <<>> => n # 0)
  BY LenProperties, EmptySeq DEF FilesType
<1>2. CASE Switching \/ Fresh
  <2>1. n - 1 \in 1 .. n /\ n - 1 >= n - 1 /\ byTime[n - 1] = handle
    BY <1>1, <1>2 DEF Switching, Fresh
  <2>2. QED
    BY <1>1, <2>1
<1>3. CASE byTime # <<>> /\ byTime[n] = handle /\ ~(Switching \/ Fresh)
  <2>1. n \in 1 .. n /\ n >= n - 1
    BY <1>1, <1>3
  <2>2. QED
    BY <1>1, <1>3, <2>1
<1>4. QED
  BY <1>2, <1>3 DEF LatestFile

\* A group has more than its header.
LEMMA OneHeader == ASSUME NEW b \in Nat, IsHeader(b) PROVE ~IsHeader(b + 1)
<1> DEFINE q == b \div GroupLength
           r == b % GroupLength
           k == (b + 1) \div GroupLength
           z == (b + 1) % GroupLength
<1>1. GroupLength \in Nat /\ GroupLength >= 2 /\ b + 1 \in Nat
  BY SegmentsAssumption
<1>2. /\ q \in Int /\ b = GroupLength * q + r
      /\ k \in Int /\ b + 1 = GroupLength * k + z
  BY <1>1
<1>3. r = 0
  BY DEF IsHeader
<1> HIDE DEF q, r, k, z
<1>4. ASSUME z = 0 PROVE FALSE
  <2>1. PICK y \in Int : y = k - q
    BY <1>2
  <2>2. GroupLength * y = 1
    BY <1>1, <1>2, <1>3, <1>4, <2>1
  <2>3. CASE y >= 1
    BY <1>1, <2>2, <2>3
  <2>4. CASE y <= 0
    BY <1>1, <2>2, <2>4
  <2>5. QED
    BY <2>1, <2>3, <2>4
<1>5. QED
  BY <1>4 DEF IsHeader, z

LEMMA FilesWrite == FilesInv /\ Write => FilesInv'
<1> SUFFICES ASSUME FilesInv, Write PROVE FilesInv'
  OBVIOUS
<1> DEFINE w == IF flush_buffers THEN <<sent>> ELSE tail
           Good == /\ disk' = [disk EXCEPT ![handle] = disk[handle] \o w]
                   /\ tail' = IF flush_buffers THEN <<>> ELSE <<sent>>
                   /\ byTime' = IF w = <<>> THEN byTime ELSE Touched(handle)
                   /\ UNCHANGED faults
<1>0. /\ DecodeInv' /\ FilesType /\ Stdio /\ restarts \in Nat /\ PortOpen /\ main # "dead"
      /\ callback = "write" /\ [Next]_vars /\ restarts # 0
  BY DecodeWrite DEF FilesInv, DecodeInv, Write, NoCallback, PortOpen, Next, Callback, NothingYet
<1>1. /\ Good \/ lost' = lost \cup {sent}
      /\ callback' = "return" /\ sent' = sent + 1
      /\ UNCHANGED <<segmentNumber, handle, restarts, main>>
  BY DEF Write
<1>2. restarts' \in Nat /\ restarts' # 0
  BY <1>0, <1>1
<1>3. ASSUME Calm' PROVE FilesInOrder'
  <2>1. Calm /\ FilesInOrder /\ Good
    <3>1. lost' # lost \cup {sent}
      BY <1>3 DEF Calm
    <3>2. QED
      BY <1>0, <1>1, <1>3, <3>1, CalmBefore
  <2>2. /\ disk \in [Segments -> Seq(Nat)] /\ disk[handle] \in Seq(Nat) /\ tail \in Seq(Nat)
        /\ handle \in Segments /\ sent \in Nat /\ Opened \in Segments
        /\ byTime \in Seq(Segments)
    BY <1>0, OpenedType DEF FilesType
  <2>3. /\ LatestFile /\ Numbers(byTime, Opened, faults) /\ FilesRise /\ TailLast
    BY <1>0, <2>1 DEF FilesInOrder
  <2>3a. PICK v : v = <<sent>>
    OBVIOUS
  <2>3b. v \in Seq(Nat) /\ ToSet(v) = {sent} /\ Rising(v) /\ v # <<>>
    BY <2>2, <2>3a, ElementsOfFew, EmptyPrecedes
  <2>4. /\ w \in Seq(Nat) /\ Rising(w) /\ \A x \in Segments : Precede(disk[x], w)
        /\ \A b \in ToSet(w) : b < sent + 1
    <3>1. CASE flush_buffers
      <4>1. w = v
        BY <2>3a, <3>1
      <4>2. \A x \in Segments : Precede(disk[x], v)
        BY <2>3, <2>3b DEF FilesRise, Precede
      <4>3. sent < sent + 1
        BY <2>2
      <4>4. QED
        BY <2>3b, <4>1, <4>2, <4>3
    <3>2. CASE ~flush_buffers
      <4>1. w = tail /\ \A b \in Nat : b < sent => b < sent + 1
        BY <2>2, <3>2
      <4>2. ToSet(tail) \subseteq Nat
        BY <2>2 DEF ToSet
      <4>3. /\ Rising(tail) /\ \A x \in Segments : Precede(disk[x], tail)
            /\ \A b \in ToSet(tail) : b < sent + 1
        BY <2>3, <4>1, <4>2 DEF TailLast
      <4> HIDE DEF w
      <4>4. QED
        BY <2>2, <4>1, <4>3
    <3>3. QED
      BY <3>1, <3>2
  <2>5. Appends(w, disk', byTime')
    <3>1. CASE w = <<>>
      <4>1. disk[handle] \o w = disk[handle]
        BY <2>2, <3>1, ConcatEmptySeq
      <4>2. disk' = disk
        BY <2>1, <2>2, <4>1
      <4>3. QED
        BY <2>1, <3>1, <4>2 DEF Appends
    <3>2. CASE w # <<>>
      BY <2>1, <3>2 DEF Appends
    <3>3. QED
      BY <3>1, <3>2
  <2> DEFINE wrote == (flush_buffers /\ tail' = <<>>) \/ (~flush_buffers /\ tail' = v /\ w = tail)
  <2>6. wrote /\ (flush_buffers => w # <<>> /\ tail = <<>>)
    BY <1>0, <2>1, <2>3a, <2>3b DEF Stdio
  <2> HIDE DEF w, Good
  <2>7. /\ \A x \in Segments : x # handle => disk'[x] = disk[x]
        /\ ToSet(disk'[handle]) = ToSet(disk[handle]) \cup ToSet(w)
        /\ \A x \in Segments : Rising(disk'[x])
        /\ \A x \in Segments : x \notin ToSet(byTime') => disk'[x] = <<>>
        /\ Once(byTime') /\ InOrder(byTime', disk')
    BY <1>0, <2>1, <2>4, <2>5, Grown
  <2>8. \A x \in Segments : ToSet(disk[x]) \subseteq Nat /\ \A b \in ToSet(disk[x]) : b < sent
    <3>1. \A x \in Segments : disk[x] \in Seq(Nat)
      BY <2>2
    <3>2. QED
      BY <2>3, <3>1 DEF FilesRise, ToSet
  <2>9. FilesRise'
    <3>1. \A b \in Nat : b < sent => b < sent + 1
      BY <2>2
    <3>2. ASSUME NEW x \in Segments, NEW b \in ToSet(disk'[x]) PROVE b < sent + 1
      <4>1. b \in ToSet(disk[x]) \/ b \in ToSet(w)
        BY <2>7, <3>2
      <4>2. QED
        BY <2>4, <2>8, <3>1, <4>1
    <3>3. QED
      BY <1>1, <2>7, <3>2 DEF FilesRise
  <2>10. TailLast'
    <3>1. CASE tail' = <<>>
      <4>1. Rising(<<>>) /\ ToSet(<<>>) = {} /\ \A f : Precede(f, <<>>)
        BY EmptyPrecedes, ElementsOfFew
      <4>2. QED
        BY <3>1, <4>1 DEF TailLast
    <3>2. CASE ~flush_buffers /\ tail' = v /\ w = tail
      <4>1. \A b \in ToSet(w) : b < sent
        BY <2>3, <3>2 DEF TailLast
      <4>2. ASSUME NEW x \in Segments, NEW b \in ToSet(disk'[x]) PROVE b < sent
        BY <2>7, <2>8, <4>1, <4>2
      <4>3. \A x \in Segments : Precede(disk'[x], v)
        BY <2>3b, <4>2 DEF Precede
      <4>4. sent < sent + 1
        BY <2>2
      <4>5. QED
        BY <1>1, <2>3b, <3>2, <4>3, <4>4 DEF TailLast
    <3>3. QED
      BY <2>6, <3>1, <3>2
  <2>11. Opened' = Opened /\ faults' = faults
    BY <1>0, <1>1, <2>1 DEF Opened, Good
  <2>12. PICK p \in 1 .. Len(byTime) : /\ p >= Len(byTime) - 1 /\ byTime[p] = handle
                                       /\ Len(byTime) \in Nat
                                       /\ Switching \/ Fresh => p = Len(byTime) - 1
    BY <1>0, <2>3, PlaceOfHandle
  <2>13. /\ Numbers(byTime', Opened, faults) /\ Len(byTime') = Len(byTime)
         /\ Len(byTime') \in Nat \ {0}
         /\ w # <<>> => byTime'[Len(byTime')] = handle
    BY <1>0, <2>1, <2>2, <2>3, <2>5, <2>12, GrownLast
  <2>14. Numbers(byTime, Opened, faults)'
    BY <2>11, <2>13
  <2>15. LatestFile'
    <3>1. byTime' # <<>>
      BY <2>13
    <3>2. CASE w # <<>>
      BY <1>1, <2>13, <3>1, <3>2 DEF LatestFile
    <3>3. CASE w = <<>>
      <4>1. disk' = disk /\ byTime' = byTime
        BY <2>5, <3>3 DEF Appends
      <4>2. ~flush_buffers /\ tail = <<>> /\ tail' # <<>>
        BY <2>3b, <2>6, <3>3
      <4>3. CASE byTime[Len(byTime)] = handle
        BY <1>1, <3>1, <4>1, <4>3 DEF LatestFile
      <4>4. CASE Fresh
        <5>1. ~IsHeader(sent + 1)
          BY <2>2, <4>2, <4>4, OneHeader DEF Fresh
        <5>2. QED
          BY <1>1, <4>1, <4>2, <4>4, <5>1 DEF LatestFile, Fresh
      <4>5. QED
        BY <1>0, <2>3, <4>3, <4>4 DEF LatestFile, Switching
    <3>4. QED
      BY <3>2, <3>3
  <2>16. Once(byTime)' /\ InOrder(byTime, disk)' /\ Unlisted'
    BY <2>7 DEF Unlisted
  <2>17. QED
    BY <2>9, <2>10, <2>14, <2>15, <2>16 DEF FilesInOrder
<1>4. QED
  BY <1>0, <1>2, <1>3 DEF FilesInv

\* stdio's part goes to the old file, at a switch or at the end.
LEMMA FilesClose == FilesInv /\ (CloseOld \/ Close) => FilesInv'
<1> SUFFICES ASSUME FilesInv, CloseOld \/ Close PROVE FilesInv'
  OBVIOUS
<1>0. /\ DecodeInv' /\ FilesType /\ AtHeader /\ restarts \in Nat /\ main # "dead" /\ restarts # 0
      /\ [Next]_vars
  BY DecodeClose
     DEF FilesInv, DecodeInv, CloseOld, Close, NoCallback, PortOpen, Next, Callback, Main, NothingYet
<1>1. /\ disk' = [disk EXCEPT ![handle] = disk[handle] \o tail] /\ tail' = <<>>
      /\ byTime' = IF tail = <<>> THEN byTime ELSE Touched(handle)
      /\ \/ /\ callback = "close" /\ callback' = "write" /\ handle' = segmentNumber
         \/ main' = "dead"
      /\ UNCHANGED <<segmentNumber, sent, faults, restarts, lost>>
  BY DEF CloseOld, Close, Closed, processVars, streamVars
<1>2. restarts' \in Nat /\ restarts' # 0
  BY <1>0, <1>1
<1>3. ASSUME Calm' PROVE FilesInOrder'
  <2>1. Calm /\ FilesInOrder
    BY <1>0, <1>1, <1>3, CalmBefore
  <2>2. /\ disk \in [Segments -> Seq(Nat)] /\ disk[handle] \in Seq(Nat) /\ tail \in Seq(Nat)
        /\ handle \in Segments /\ Opened \in Segments /\ segmentNumber \in Segments
        /\ Once(byTime)
    BY <1>0, <2>1, OpenedType DEF FilesType, FilesInOrder
  <2>3. LatestFile /\ Numbers(byTime, Opened, faults) /\ FilesRise /\ TailLast
    BY <1>0, <2>1 DEF FilesInOrder
  <2>4. Appends(tail, disk', byTime')
    <3>1. CASE tail = <<>>
      <4>1. disk[handle] \o tail = disk[handle]
        BY <2>2, <3>1, ConcatEmptySeq
      <4>2. disk' = disk
        BY <1>1, <2>2, <4>1
      <4>3. QED
        BY <1>1, <3>1, <4>2 DEF Appends
    <3>2. CASE tail # <<>>
      BY <1>1, <3>2 DEF Appends
    <3>3. QED
      BY <3>1, <3>2
  <2>5. /\ \A x \in Segments : x # handle => disk'[x] = disk[x]
        /\ ToSet(disk'[handle]) = ToSet(disk[handle]) \cup ToSet(tail)
        /\ \A x \in Segments : Rising(disk'[x])
        /\ \A x \in Segments : x \notin ToSet(byTime') => disk'[x] = <<>>
        /\ Once(byTime') /\ InOrder(byTime', disk')
    BY <1>0, <2>1, <2>2, <2>3, <2>4, Grown DEF TailLast
  <2>6. FilesRise'
    <3>1. ASSUME NEW x \in Segments, NEW b \in ToSet(disk'[x]) PROVE b < sent
      <4>1. b \in ToSet(disk[x]) \/ b \in ToSet(tail)
        BY <2>5, <3>1
      <4>2. QED
        BY <2>3, <4>1 DEF FilesRise, TailLast
    <3>2. QED
      BY <1>1, <2>5, <3>1 DEF FilesRise
  <2>7. TailLast'
    <3>1. Rising(<<>>) /\ ToSet(<<>>) = {} /\ \A f : Precede(f, <<>>)
      BY EmptyPrecedes, ElementsOfFew
    <3>2. QED
      BY <1>1, <3>1 DEF TailLast
  <2>8. Once(byTime)' /\ InOrder(byTime, disk)' /\ Unlisted'
    BY <2>5 DEF Unlisted
  <2>9. ASSUME main' # "dead" PROVE LatestFile' /\ Numbers(byTime, Opened, faults)'
    <3>1. callback = "close" /\ callback' = "write" /\ handle' = segmentNumber
      BY <1>1, <2>9
    <3>2. Switching
      BY <2>3, <3>1 DEF LatestFile, Fresh
    <3>3. PICK p \in 1 .. Len(byTime) : /\ p >= Len(byTime) - 1 /\ byTime[p] = handle
                                        /\ Len(byTime) \in Nat
                                        /\ Switching \/ Fresh => p = Len(byTime) - 1
      BY <1>0, <2>3, <3>1, PlaceOfHandle
    <3>4. /\ Numbers(byTime', Opened, faults) /\ Len(byTime') = Len(byTime)
          /\ Len(byTime') \in Nat \ {0}
          /\ tail # <<>> => byTime'[Len(byTime') - 1] = byTime[Len(byTime)]
      BY <1>0, <2>1, <2>2, <2>3, <2>4, <3>2, <3>3, GrownLast
    <3>5. Opened' = Opened /\ faults' = faults
      BY <1>1, <3>1 DEF Opened
    <3>6. Numbers(byTime, Opened, faults)'
      BY <3>4, <3>5
    <3>7. /\ Len(byTime) > 1 /\ byTime[Len(byTime)] = segmentNumber
          /\ byTime[Len(byTime) - 1] = handle /\ disk[segmentNumber] = <<>>
      BY <3>2 DEF Switching
    <3>8. byTime' # <<>>
      BY <3>4
    <3>9. CASE tail = <<>>
      <4>1. byTime'[Len(byTime')] = handle'
        BY <1>1, <3>1, <3>7, <3>9
      <4>2. QED
        BY <3>1, <3>6, <3>8, <4>1 DEF LatestFile
    <3>10. CASE tail # <<>>
      <4>1. segmentNumber # handle
        <5>1. Len(byTime) \in 1 .. Len(byTime) /\ Len(byTime) - 1 \in 1 .. Len(byTime)
              /\ Len(byTime) # Len(byTime) - 1
          BY <3>3, <3>7
        <5>2. QED
          BY <2>2, <3>7, <5>1 DEF Once
      <4>2. disk'[handle'] = <<>>
        BY <2>2, <2>5, <3>1, <3>7, <4>1
      <4>3. IsHeader(sent) /\ sent' = sent /\ tail' = <<>>
        BY <1>0, <1>1, <3>1 DEF AtHeader
      <4>4. Len(byTime') > 1 /\ byTime'[Len(byTime') - 1] = handle'
        BY <3>1, <3>4, <3>7, <3>10
      <4>5. Fresh'
        BY <3>1, <4>2, <4>3, <4>4 DEF Fresh
      <4>6. QED
        BY <3>6, <4>5 DEF LatestFile
    <3>11. QED
      BY <3>9, <3>10
  <2>10. QED
    BY <2>6, <2>7, <2>8, <2>9 DEF FilesInOrder
<1>4. QED
  BY <1>0, <1>2, <1>3 DEF FilesInv

LEMMA FilesKill == FilesInv /\ Kill => FilesInv'
<1> SUFFICES ASSUME FilesInv, Kill PROVE FilesInv'
  OBVIOUS
<1>0. DecodeInv' /\ restarts \in Nat /\ restarts # 0 /\ [Next]_vars
  BY DecodeNext DEF FilesInv, Kill, NothingYet, Next
<1>1. /\ tail' = <<>> /\ main' = "dead"
      /\ UNCHANGED <<disk, byTime, sent, restarts>>
  BY DEF Kill, streamVars
<1>2. ASSUME Calm' PROVE FilesInOrder'
  <2>1. FilesInOrder
    BY <1>0, <1>1, <1>2, CalmBefore
  <2>2. Rising(<<>>) /\ ToSet(<<>>) = {} /\ \A f : Precede(f, <<>>)
    BY EmptyPrecedes, ElementsOfFew
  <2>3. TailLast'
    BY <1>1, <2>2 DEF TailLast
  <2>4. QED
    BY <1>1, <2>1, <2>3 DEF FilesInOrder, Once, InOrder, Unlisted, FilesRise
<1>3. QED
  BY <1>0, <1>1, <1>2 DEF FilesInv

LEMMA FilesNext == FilesInv /\ [Next]_vars => FilesInv'
<1> SUFFICES ASSUME FilesInv, [Next]_vars PROVE FilesInv'
  OBVIOUS
<1>0. FilesType /\ NoCallback /\ (restarts = 0 => main = "dead")
  BY DEF FilesInv, DecodeInv, NothingYet
<1>1. CASE Deliver
  <2>1. /\ UNCHANGED <<sent, tail, disk, byTime, handle, restarts, main>>
        /\ callback = "idle" /\ ~(atPort = 0)
        /\ \/ callback' = "open" /\ segmentNumber' = NextNumber /\ IsHeader(sent)
           \/ callback' = "write" /\ UNCHANGED segmentNumber
    BY <1>1 DEF Deliver, processVars, SplitHere
  <2>2. Opened' = Opened
    <3>1. segmentNumber \in Segments /\ Opened = segmentNumber
      BY <1>0, <2>1 DEF FilesType, Opened
    <3>2. Preceding(NextNumber) = segmentNumber
      BY <3>1, Backwards DEF NextNumber, Following
    <3>3. QED
      BY <2>1, <3>1, <3>2 DEF Opened
  <2>3. LatestFile => LatestFile'
    <3>1. byTime # <<>> /\ byTime[Len(byTime)] = handle => LatestFile'
      BY <2>1 DEF LatestFile
    <3>2. Fresh => LatestFile'
      BY <2>1 DEF LatestFile, Fresh
    <3>3. QED
      BY <2>1, <3>1, <3>2 DEF LatestFile, Switching
  <2>4. QED
    BY <2>1, <2>2, <2>3, FilesSettled
<1>2. CASE Tick \/ NoticeAbort \/ DisablePort \/ Script \/ UNCHANGED vars
  <2>1. /\ UNCHANGED <<sent, handle, tail, disk, byTime, restarts, segmentNumber, callback, atPort>>
        /\ main' = main \/ main # "dead"
    BY <1>2 DEF Tick, NoticeAbort, DisablePort, Script, ListFiles, Concatenate, Finish, vars,
                recorderVars, processVars, streamVars, fileVars
  <2>2. Opened' = Opened /\ (LatestFile => LatestFile')
    BY <2>1 DEF Opened, LatestFile, Switching, Fresh
  <2>3. QED
    BY <1>0, <2>1, <2>2, FilesSettled
<1>3. CASE ReturnBuffer
  <2>1. /\ UNCHANGED <<sent, handle, tail, disk, byTime, restarts, segmentNumber, main>>
        /\ callback = "return" /\ callback' = "idle"
    BY <1>3 DEF ReturnBuffer, processVars, fileVars
  <2>2. Opened' = Opened /\ (LatestFile => LatestFile')
    BY <2>1 DEF Opened, LatestFile, Switching, Fresh
  <2>3. QED
    BY <2>1, <2>2, FilesSettled
<1>4. QED
  BY <1>1, <1>2, <1>3, FilesStart, FilesOpen, FilesWrite, FilesClose, FilesKill
     DEF Next, Callback, Main

-----------------------------------------------------------------------------
LEMMA NothingInOrder == NothingRead => ListInOrder
<1> SUFFICES ASSUME NothingRead PROVE ListInOrder
  OBVIOUS
<1>1. listed = <<>> /\ replay = <<>> /\ Len(<<>>) = 0 /\ \A i \in 1 .. 0 : FALSE
  BY DEF NothingRead
<1>2. InOrder(listed, disk) /\ ToSet(listed) = {} /\ ToSet(replay) = {}
  BY <1>1, ElementsOfFew DEF InOrder
<1>3. \A i \in 1 .. Len(listed) : FALSE
  BY <1>1
<1>4. QED
  BY <1>1, <1>2, <1>3, EmptyPrecedes DEF ListInOrder

LEMMA NothingAfterwards == NothingRead' => ListInOrder'
BY NothingInOrder, PTL

\* A step that counts what is begun while the script reads.
LEMMA ListBefore ==
  ASSUME FilesInv, ListInv, [Next]_vars, Calm', SlowEnough', restarts' = restarts,
         reopened' \in Nat, reopened <= reopened'
  PROVE  Calm /\ FilesInOrder /\ ListInOrder
<1>1. Calm /\ FilesInOrder
  BY CalmBefore
<1>2. /\ faults \in Nat /\ faults' \in Nat /\ faults' >= faults /\ reopened \in Nat
      /\ Wrap \in Nat /\ ReplayChunks \in Nat /\ IgnoreRecent \in Nat
  BY FaultsGrow, SegmentsAssumption DEF FilesInv, DecodeInv, FilesType, ListInv
<1>3. PICK f \in Nat, r \in Nat : f = faults' /\ r = reopened'
  BY <1>2
<1>4. /\ r + f + IgnoreRecent <= Wrap - ReplayChunks /\ f >= faults /\ r >= reopened
      /\ IgnoreRecent > 0
  BY <1>2, <1>3 DEF SlowEnough
<1>5. reopened + faults + IgnoreRecent <= Wrap - ReplayChunks
  BY <1>2, <1>4
<1>6. QED
  BY <1>1, <1>4, <1>5 DEF ListInv, SlowEnough

LEMMA BehindMore ==
  ASSUME FilesType, ListInOrder, main # "dead", NEW s \in ToSet(listed), reopened \in Nat
  PROVE  \E a \in Nat : /\ a = Back(Opened, s)
                        /\ a < IgnoreRecent + ReplayChunks + faults + reopened
<1>1. s \in Segments
  BY ElementOfSeq DEF FilesType, ToSet
<1>2. Back(Opened, s) \in 0 .. Wrap - 1
  BY <1>1, OpenedType, Backwards
<1>3. QED
  BY <1>2 DEF ListInOrder

\* Steps that leave the files, the list and the replay alone.
LEMMA ListSettled ==
  ASSUME FilesInv, ListInv, [Next]_vars,
         UNCHANGED <<sent, tail, disk, handle, restarts, listed, replay, script, reopened>>,
         Opened' = Opened, main' = main \/ main # "dead",
         callback' = "close" => callback = "close" /\ UNCHANGED segmentNumber
  PROVE  ListInv'
<1>1. reopened' \in Nat
      /\ (script' # "cat" \/ restarts' = 0 \/ ReplayChunks = 0 => NothingRead')
  BY DEF ListInv, NothingRead
<1>2. ASSUME Calm', SlowEnough' PROVE ListInOrder'
  <2>1. reopened <= reopened'
    BY <1>1
  <2>2. ListInOrder
    BY <1>1, <1>2, <2>1, ListBefore
  <2>3. /\ FilesType /\ faults \in Nat /\ faults' \in Nat /\ faults' >= faults
        /\ reopened \in Nat /\ ReplayChunks \in Nat /\ IgnoreRecent \in Nat
    BY FaultsGrow, SegmentsAssumption DEF FilesInv, DecodeInv, FilesType, ListInv
  <2>4. /\ Rising(replay)' /\ Precede(replay, tail)' /\ \A b \in ToSet(replay') : b < sent'
        /\ InOrder(listed, disk)' /\ \A s \in ToSet(listed') : Precede(replay', disk'[s])
    BY <2>2 DEF ListInOrder, Rising, Precede, InOrder
  <2>5. ASSUME main' # "dead"
        PROVE  /\ \A i \in 1 .. Len(listed') : i < Len(listed') => listed'[i] # handle'
               /\ callback' = "close" => segmentNumber' \notin ToSet(listed')
               /\ \A s \in ToSet(listed') :
                    Back(Opened', s) < IgnoreRecent + ReplayChunks + faults' + reopened'
    <3>1. main # "dead"
      BY <2>5
    <3>2. ASSUME NEW s \in ToSet(listed)
          PROVE  Back(Opened, s) < IgnoreRecent + ReplayChunks + faults' + reopened
      <4>1. PICK a \in Nat : /\ a = Back(Opened, s)
                             /\ a < IgnoreRecent + ReplayChunks + faults + reopened
        BY <2>2, <2>3, <3>1, BehindMore
      <4>2. PICK f \in Nat : f = faults' /\ f >= faults
        BY <2>3
      <4>3. a < IgnoreRecent + ReplayChunks + f + reopened
        BY <2>3, <4>1, <4>2
      <4>4. QED
        BY <4>1, <4>2, <4>3
    <3>3. QED
      BY <2>2, <3>1, <3>2 DEF ListInOrder
  <2>6. QED
    BY <2>4, <2>5 DEF ListInOrder
<1>3. QED
  BY <1>1, <1>2 DEF ListInv

LEMMA ListStart == FilesInv /\ ListInv /\ Start => ListInv'
<1> SUFFICES ASSUME FilesInv, ListInv, Start PROVE ListInv'
  OBVIOUS
<1>1. /\ restarts' = restarts + 1 /\ restarts \in Nat /\ UNCHANGED <<script, listed, replay>>
      /\ reopened' \in Nat
  BY DEF Start, FilesInv, ListInv, scriptVars
<1>2. script' # "cat" \/ restarts' = 0 \/ ReplayChunks = 0 => NothingRead'
  BY <1>1 DEF ListInv, NothingRead
<1>3. Calm' => ListInOrder'
  <2> SUFFICES ASSUME Calm' PROVE ListInOrder'
    OBVIOUS
  <2>1. restarts = 0
    BY <1>1 DEF Calm
  <2>2. NothingRead'
    BY <1>1, <2>1 DEF ListInv, NothingRead
  <2>3. QED
    BY <2>2, NothingAfterwards
<1>4. QED
  BY <1>1, <1>2, <1>3 DEF ListInv

\* The recorder has not come round to a file that is still to be read.
LEMMA ListOpen == FilesInv /\ ListInv /\ OpenNext => ListInv'
<1> SUFFICES ASSUME FilesInv, ListInv, OpenNext PROVE ListInv'
  OBVIOUS
<1>0. /\ FilesType /\ main # "dead" /\ callback = "open" /\ [Next]_vars /\ reopened \in Nat
  BY DEF FilesInv, ListInv, DecodeInv, OpenNext, NoCallback, PortOpen, Next, Callback
<1>1. /\ \/ /\ disk' = [disk EXCEPT ![segmentNumber] = <<>>]
            /\ callback' = "close" /\ UNCHANGED faults
         \/ /\ UNCHANGED disk /\ callback' = "write" /\ faults' = faults + 1
      /\ reopened' = IF script = "cat" THEN reopened + 1 ELSE 0
      /\ UNCHANGED <<segmentNumber, handle, tail, sent, restarts, main, script, listed, replay>>
  BY DEF OpenNext, processVars, streamVars, scriptVars
<1>2. /\ reopened' \in Nat /\ faults' \in Nat
      /\ script' # "cat" \/ restarts' = 0 \/ ReplayChunks = 0 => NothingRead'
  BY <1>0, <1>1, FaultsGrow DEF ListInv, NothingRead
<1>3. CASE script # "cat"
  <2>1. NothingRead'
    BY <1>1, <1>3 DEF ListInv, NothingRead
  <2>2. QED
    BY <1>2, <2>1, NothingAfterwards DEF ListInv
<1>4. CASE script = "cat"
  <2>1. ASSUME Calm', SlowEnough' PROVE ListInOrder'
    <3>1. ListInOrder
      <4>1. reopened <= reopened'
        BY <1>0, <1>1, <1>4
      <4>2. QED
        BY <1>0, <1>1, <1>2, <2>1, <4>1, ListBefore
    <3>2. /\ segmentNumber \in Segments /\ disk \in [Segments -> Seq(Nat)] /\ faults \in Nat
          /\ Wrap \in Nat /\ ReplayChunks \in Nat /\ IgnoreRecent \in Nat
          /\ \A s \in ToSet(listed) : s \in Segments
      BY <1>0, SegmentsAssumption, ElementOfSeq DEF FilesType, ToSet
    <3>3. PICK o \in Segments : o = Opened /\ segmentNumber = Following(o)
      <4>1. Opened = Preceding(segmentNumber)
        BY <1>0 DEF Opened
      <4>2. QED
        BY <3>2, <4>1, Backwards
    <3>4. Opened' = segmentNumber
      BY <1>1 DEF Opened
    <3>5. IgnoreRecent + ReplayChunks + faults + reopened <= Wrap - 1
      <4>1. PICK f \in Nat, r \in Nat : f = faults' /\ r = reopened'
        BY <1>2
      <4>2. r + f + IgnoreRecent <= Wrap - ReplayChunks /\ f >= faults /\ r = reopened + 1
        BY <1>1, <1>4, <2>1, <3>2, <4>1 DEF SlowEnough
      <4>3. QED
        BY <1>0, <3>2, <4>2
    <3>6. segmentNumber \notin ToSet(listed)
      <4> SUFFICES ASSUME segmentNumber \in ToSet(listed) PROVE FALSE
        OBVIOUS
      <4>1. PICK a \in Nat : /\ a = Back(Opened, segmentNumber)
                             /\ a < IgnoreRecent + ReplayChunks + faults + reopened
        BY <1>0, <3>1, BehindMore
      <4>2. a = Wrap - 1
        BY <3>3, <4>1, Backwards
      <4>3. QED
        BY <1>0, <3>2, <3>5, <4>1, <4>2
    <3>7. \A s \in ToSet(listed) : disk'[s] = disk[s]
      BY <1>1, <3>2, <3>6
    <3>8. /\ Rising(replay)' /\ Precede(replay, tail)' /\ \A b \in ToSet(replay') : b < sent'
          /\ \A s \in ToSet(listed') : Precede(replay', disk'[s])
      BY <1>1, <3>1, <3>7 DEF ListInOrder, Rising, Precede
    <3>9. InOrder(listed, disk)'
      <4>1. \A i \in 1 .. Len(listed) : listed[i] \in ToSet(listed)
        BY <1>0 DEF FilesType, ToSet
      <4>2. InOrder(listed, disk')
        BY <3>1, <3>7, <4>1 DEF ListInOrder, InOrder
      <4>3. QED
        BY <1>1, <4>2
    <3>10. ASSUME NEW s \in ToSet(listed)
           PROVE  Back(segmentNumber, s) < IgnoreRecent + ReplayChunks + faults' + reopened'
      <4>1. PICK a \in Nat : /\ a = Back(Opened, s)
                             /\ a < IgnoreRecent + ReplayChunks + faults + reopened
        BY <1>0, <3>1, BehindMore
      <4>2. Back(segmentNumber, s) = a + 1
        BY <3>2, <3>3, <3>6, <4>1, Backwards
      <4>3. PICK f \in Nat, r \in Nat : f = faults' /\ r = reopened'
        BY <1>2
      <4>4. f >= faults /\ r = reopened + 1
        BY <1>1, <1>4, <3>2, <4>3
      <4>5. a + 1 < IgnoreRecent + ReplayChunks + f + r
        BY <1>0, <3>2, <4>1, <4>4
      <4>6. QED
        BY <4>2, <4>3, <4>5
    <3>11. \A i \in 1 .. Len(listed) : i < Len(listed) => listed[i] # handle
      BY <1>0, <3>1 DEF ListInOrder
    <3>12. QED
      BY <1>1, <3>4, <3>6, <3>8, <3>9, <3>10, <3>11 DEF ListInOrder
  <2>2. QED
    BY <1>2, <2>1 DEF ListInv
<1>5. QED
  BY <1>3, <1>4

\* Only the last file of the list may grow, by what is after all that is read.
LEMMA ListGrown ==
  ASSUME FilesType, ListInOrder, main # "dead", NEW w \in Seq(Nat),
         \A x \in Segments : Precede(disk[x], w), Precede(replay, w),
         disk' = [disk EXCEPT ![handle] = disk[handle] \o w], UNCHANGED <<listed, replay>>
  PROVE  InOrder(listed, disk)' /\ \A s \in ToSet(listed') : Precede(replay', disk'[s])
<1>1. /\ disk \in [Segments -> Seq(Nat)] /\ handle \in Segments /\ disk[handle] \in Seq(Nat)
      /\ Len(listed) \in Nat /\ \A i \in 1 .. Len(listed) : listed[i] \in Segments
      /\ ToSet(listed) = {listed[i] : i \in 1 .. Len(listed)}
  BY ElementOfSeq, LenProperties DEF FilesType, ToSet
<1>2. PICK h \in Seq(Nat) : /\ h = disk[handle] \o w
                            /\ ToSet(h) = ToSet(disk[handle]) \cup ToSet(w)
  <2>1. PICK f \in Seq(Nat) : f = disk[handle]
    BY <1>1
  <2>2. f \o w \in Seq(Nat) /\ ToSet(f \o w) = ToSet(f) \cup ToSet(w)
    BY ElementsOfConcat
  <2>3. QED
    BY <2>1, <2>2
<1>3. disk'[handle] = h /\ \A x \in Segments : x # handle => disk'[x] = disk[x]
  BY <1>1, <1>2
<1>4. /\ \A i \in 1 .. Len(listed) : i < Len(listed) => listed[i] # handle
      /\ InOrder(listed, disk) /\ \A s \in ToSet(listed) : Precede(replay, disk[s])
  BY DEF ListInOrder
<1>5. ASSUME NEW i \in 1 .. Len(listed), NEW j \in 1 .. Len(listed), i < j
      PROVE  Precede(disk'[listed[i]], disk'[listed[j]])
  <2>1. Precede(disk[listed[i]], disk[listed[j]]) /\ Precede(disk[listed[i]], w)
    BY <1>1, <1>4, <1>5 DEF InOrder
  <2>2. i < Len(listed)
    BY <1>1, <1>5
  <2>3. disk'[listed[i]] = disk[listed[i]]
    BY <1>1, <1>3, <1>4, <2>2
  <2>4. CASE listed[j] = handle
    BY <1>2, <1>3, <2>1, <2>3, <2>4 DEF Precede
  <2>5. CASE listed[j] # handle
    BY <1>1, <1>3, <2>1, <2>3, <2>5
  <2>6. QED
    BY <2>4, <2>5
<1>6. ASSUME NEW s \in ToSet(listed) PROVE Precede(replay, disk'[s])
  <2>1. Precede(replay, disk[s]) /\ s \in Segments
    BY <1>1, <1>4, <1>6
  <2>2. CASE s = handle
    BY <1>2, <1>3, <2>1, <2>2 DEF Precede
  <2>3. CASE s # handle
    BY <1>3, <2>1, <2>3
  <2>4. QED
    BY <2>2, <2>3
<1>7. InOrder(listed, disk')
  BY <1>5 DEF InOrder
<1>8. QED
  BY <1>6, <1>7

LEMMA ListAppend == FilesInv /\ ListInv /\ (Write \/ CloseOld \/ Close) => ListInv'
<1> SUFFICES ASSUME FilesInv, ListInv, Write \/ CloseOld \/ Close PROVE ListInv'
  OBVIOUS
<1>0. /\ FilesType /\ main # "dead" /\ [Next]_vars /\ reopened \in Nat /\ Stdio
  BY DEF FilesInv, ListInv, DecodeInv, Write, CloseOld, Close, NoCallback, PortOpen, Next,
         Callback, Main
<1>1. /\ \/ CloseOld /\ callback = "close" /\ callback' = "write" /\ handle' = segmentNumber
            /\ UNCHANGED main
         \/ Write /\ callback = "write" /\ callback' = "return" /\ UNCHANGED <<handle, main>>
         \/ Close /\ main' = "dead"
      /\ UNCHANGED <<segmentNumber, restarts, script, listed, replay, reopened>>
  BY DEF Write, CloseOld, Close, processVars, scriptVars, streamVars
<1>2. reopened' \in Nat
      /\ (script' # "cat" \/ restarts' = 0 \/ ReplayChunks = 0 => NothingRead')
  BY <1>0, <1>1 DEF ListInv, NothingRead
<1>3. ASSUME Calm', SlowEnough' PROVE ListInOrder'
  <2>1. Calm /\ FilesInOrder /\ ListInOrder
    <3>1. reopened <= reopened'
      BY <1>0, <1>1
    <3>2. QED
      BY <1>0, <1>1, <1>2, <1>3, <3>1, ListBefore
  <2>2. /\ FilesRise /\ TailLast /\ Precede(replay, tail) /\ \A b \in ToSet(replay) : b < sent
        /\ tail \in Seq(Nat) /\ sent \in Nat /\ replay \in Seq(Nat)
    BY <1>0, <2>1 DEF FilesInOrder, ListInOrder, FilesType
  <2>3. PICK v \in Seq(Nat) : v = <<sent>> /\ ToSet(v) = {sent}
    BY <2>2, ElementsOfFew
  <2>4. Precede(replay, v) /\ Precede(replay, <<>>) /\ \A x \in Segments : Precede(disk[x], v)
    BY <2>2, <2>3, EmptyPrecedes DEF FilesRise, Precede
  <2>5. /\ \/ disk' = [disk EXCEPT ![handle] = disk[handle] \o tail]
           \/ disk' = [disk EXCEPT ![handle] = disk[handle] \o v]
        /\ tail' = <<>> \/ tail' = v
        /\ sent' = sent \/ sent' = sent + 1
        /\ UNCHANGED faults
    <3>1. CASE CloseOld \/ Close
      BY <3>1 DEF CloseOld, Close, Closed, streamVars
    <3>2. CASE Write
      <4>1. lost' # lost \cup {sent}
        BY <1>3 DEF Calm
      <4>2. CASE flush_buffers
        BY <2>3, <3>2, <4>1, <4>2 DEF Write
      <4>3. CASE ~flush_buffers
        BY <2>3, <3>2, <4>1, <4>3 DEF Write
      <4>4. QED
        BY <4>2, <4>3
    <3>3. QED
      BY <1>1, <3>1, <3>2
  <2>6. InOrder(listed, disk)' /\ \A s \in ToSet(listed') : Precede(replay', disk'[s])
    <3>1. CASE disk' = [disk EXCEPT ![handle] = disk[handle] \o tail]
      BY <1>0, <1>1, <2>1, <2>2, <3>1, ListGrown DEF TailLast
    <3>2. CASE disk' = [disk EXCEPT ![handle] = disk[handle] \o v]
      BY <1>0, <1>1, <2>1, <2>4, <3>2, ListGrown
    <3>3. QED
      BY <2>5, <3>1, <3>2
  <2>7. Rising(replay)' /\ Precede(replay, tail)' /\ \A b \in ToSet(replay') : b < sent'
    <3>1. Rising(replay)'
      BY <1>1, <2>1 DEF ListInOrder, Rising
    <3>2. Precede(replay, tail')
      BY <2>4, <2>5
    <3>3. ToSet(replay) \subseteq Nat /\ \A b \in Nat : b < sent => b < sent + 1
      BY <2>2 DEF ToSet
    <3>4. \A b \in ToSet(replay) : b < sent'
      BY <2>2, <2>5, <3>3
    <3>5. QED
      BY <1>1, <3>1, <3>2, <3>4
  <2>8. ASSUME main' # "dead"
        PROVE  /\ \A i \in 1 .. Len(listed') : i < Len(listed') => listed'[i] # handle'
               /\ callback' # "close" /\ Opened' = Opened
    <3>1. CASE callback = "close" /\ callback' = "write" /\ handle' = segmentNumber
      <4>1. segmentNumber \notin ToSet(listed)
        BY <1>0, <2>1, <3>1 DEF ListInOrder
      <4>2. \A i \in 1 .. Len(listed) : listed[i] \in ToSet(listed)
        BY <1>0 DEF FilesType, ToSet
      <4>3. QED
        BY <1>1, <3>1, <4>1, <4>2 DEF Opened
    <3>2. CASE callback = "write" /\ callback' = "return" /\ UNCHANGED handle
      BY <1>0, <1>1, <2>1, <3>2 DEF ListInOrder, Opened
    <3>3. QED
      BY <1>1, <2>8, <3>1, <3>2
  <2>9. \A s \in ToSet(listed) : Back(Opened, s) < IgnoreRecent + ReplayChunks + faults + reopened
    BY <1>0, <2>1 DEF ListInOrder
  <2>10. main' # "dead" => \A s \in ToSet(listed') :
             Back(Opened', s) < IgnoreRecent + ReplayChunks + faults' + reopened'
    BY <1>1, <2>5, <2>8, <2>9
  <2>11. QED
    BY <2>6, <2>7, <2>8, <2>10 DEF ListInOrder
<1>4. QED
  BY <1>2, <1>3 DEF ListInv

LEMMA ListKill == FilesInv /\ ListInv /\ Kill => ListInv'
<1> SUFFICES ASSUME FilesInv, ListInv, Kill PROVE ListInv'
  OBVIOUS
<1>1. /\ main' = "dead" /\ tail' = <<>> /\ [Next]_vars /\ reopened \in Nat
      /\ UNCHANGED <<disk, sent, restarts, script, listed, replay, reopened>>
  BY DEF Kill, Next, ListInv, streamVars, scriptVars
<1>2. reopened' \in Nat
      /\ (script' # "cat" \/ restarts' = 0 \/ ReplayChunks = 0 => NothingRead')
  BY <1>1 DEF ListInv, NothingRead
<1>3. ASSUME Calm', SlowEnough' PROVE ListInOrder'
  <2>1. reopened <= reopened'
    BY <1>1
  <2>2. ListInOrder
    BY <1>1, <1>2, <1>3, <2>1, ListBefore
  <2>3. Precede(replay, <<>>)
    BY EmptyPrecedes
  <2>4. QED
    BY <1>1, <2>2, <2>3 DEF ListInOrder, Rising, InOrder, Precede
<1>4. QED
  BY <1>2, <1>3 DEF ListInv

\* What the script lists is a part of the files by time, without the latest.
LEMMA ListedPlaces ==
  ASSUME FilesType, ListFiles
  PROVE  /\ byTime # <<>> /\ Len(byTime) \in Nat /\ Len(listed') \in Nat
         /\ ReplayChunks = 0 => listed' = <<>>
         /\ \E k \in Nat : \A i \in 1 .. Len(listed') :
              /\ k + i \in 1 .. Len(byTime) /\ listed'[i] = byTime[k + i]
              /\ k + i <= Len(byTime) - IgnoreRecent
              /\ i < Len(listed') => k + i < Len(byTime) - IgnoreRecent
              /\ Len(byTime) - (k + i) < IgnoreRecent + ReplayChunks
<1> DEFINE n == Len(byTime)
           c == n - IgnoreRecent
           C == SubSeq(byTime, 1, c)
<1>1. n \in Nat /\ IgnoreRecent \in Nat /\ ReplayChunks \in Nat /\ byTime \in Seq(Segments)
  BY LenProperties, SegmentsAssumption DEF FilesType
<1>2. C # <<>> /\ listed' = SubSeq(C, 1 + IF Len(C) > ReplayChunks THEN Len(C) - ReplayChunks ELSE 0,
                                   Len(C))
  BY DEF ListFiles, Candidates
<1>3. c \in Int /\ 1 <= c /\ c <= n /\ c \in 1 .. n
  <2>1. CASE c < 1
    <3>1. C = <<>>
      BY <1>1, <2>1, SubSeqEmpty
    <3>2. QED
      BY <1>2, <3>1
  <2>2. CASE ~(c < 1)
    BY <1>1, <2>2
  <2>3. QED
    BY <2>1, <2>2
<1>4. C \in Seq(Segments) /\ Len(C) = c /\ \A i \in 1 .. c : C[i] = byTime[i]
  <2>1. \A i \in 1 .. c : byTime[i] \in Segments
    BY <1>1, <1>3
  <2>2. /\ C \in Seq(Segments) /\ Len(C) = IF 1 <= c THEN c - 1 + 1 ELSE 0
        /\ \A i \in 1 .. c - 1 + 1 : C[i] = byTime[1 + i - 1]
    BY <1>3, <2>1, SubSeqProperties
  <2>3. c - 1 + 1 = c /\ \A i \in 1 .. c : 1 + i - 1 = i
    BY <1>3
  <2> HIDE DEF C
  <2>4. QED
    BY <1>3, <2>2, <2>3
<1> HIDE DEF C
<1> DEFINE k == IF c > ReplayChunks THEN c - ReplayChunks ELSE 0
<1>5. listed' = SubSeq(C, 1 + k, c)
  BY <1>2, <1>4
<1>6. k \in Nat /\ k <= c /\ c - k <= ReplayChunks
  BY <1>1, <1>3
<1> HIDE DEF k
<1>7. Len(listed') = c - k /\ \A i \in 1 .. c - k : listed'[i] = C[k + i] /\ k + i \in 1 .. c
  <2>1. \A i \in 1 + k .. c : C[i] \in Segments
    BY <1>3, <1>4, <1>6
  <2>2. /\ Len(SubSeq(C, 1 + k, c)) = IF 1 + k <= c THEN c - (1 + k) + 1 ELSE 0
        /\ \A i \in 1 .. c - (1 + k) + 1 : SubSeq(C, 1 + k, c)[i] = C[(1 + k) + i - 1]
    <3>1. 1 + k \in Int
      BY <1>6
    <3>2. QED
      BY <1>3, <2>1, <3>1, SubSeqProperties
  <2>3. /\ c - (1 + k) + 1 = c - k /\ (~(1 + k <= c) => c - k = 0)
        /\ \A i \in 1 .. c - k : (1 + k) + i - 1 = k + i /\ k + i \in 1 .. c
    BY <1>3, <1>6
  <2>4. QED
    BY <1>5, <2>2, <2>3
<1>8. ReplayChunks = 0 => listed' = <<>>
  <2> SUFFICES ASSUME ReplayChunks = 0 PROVE listed' = <<>>
    OBVIOUS
  <2>1. c < 1 + k /\ 1 + k \in Int
    BY <1>3, <1>6
  <2>2. QED
    BY <1>3, <1>5, <2>1, SubSeqEmpty
<1>9. ASSUME NEW i \in 1 .. Len(listed')
      PROVE  /\ k + i \in 1 .. n /\ listed'[i] = byTime[k + i] /\ k + i <= n - IgnoreRecent
             /\ i < Len(listed') => k + i < n - IgnoreRecent
             /\ n - (k + i) < IgnoreRecent + ReplayChunks
  <2>1. PICK m : m = Len(listed') /\ m = c - k
    BY <1>7
  <2>2. i \in 1 .. c - k
    BY <2>1
  <2>3. listed'[i] = byTime[k + i] /\ k + i \in 1 .. c
    BY <1>4, <1>7, <2>2
  <2>4. /\ k + i \in 1 .. n /\ k + i <= n - IgnoreRecent /\ (i < m => k + i < n - IgnoreRecent)
        /\ n - (k + i) < IgnoreRecent + ReplayChunks
    BY <1>1, <1>3, <1>6, <2>1, <2>2
  <2>5. QED
    BY <2>1, <2>3, <2>4
<1>10. byTime # <<>> /\ Len(listed') \in Nat
  <2>1. c - k \in Nat /\ n # 0
    BY <1>3, <1>6
  <2>2. QED
    BY <1>7, <2>1
<1>11. QED
  BY <1>1, <1>6, <1>8, <1>9, <1>10

LEMMA ListFilesStep == FilesInv /\ ListInv /\ ListFiles => ListInv'
<1> SUFFICES ASSUME FilesInv, ListInv, ListFiles PROVE ListInv'
  OBVIOUS
<1> DEFINE n == Len(byTime)
<1>1. /\ script' = "cat" /\ replay' = <<>> /\ reopened' = 0
      /\ UNCHANGED <<main, callback, sent, segmentNumber, handle, tail, disk, byTime, faults,
                     lost, restarts>>
  BY DEF ListFiles, recorderVars, processVars, streamVars, fileVars
<1>2. FilesType
  BY DEF FilesInv, DecodeInv
<1>3. PICK k \in Nat : \A i \in 1 .. Len(listed') :
              /\ k + i \in 1 .. n /\ listed'[i] = byTime[k + i] /\ k + i <= n - IgnoreRecent
              /\ i < Len(listed') => k + i < n - IgnoreRecent
              /\ n - (k + i) < IgnoreRecent + ReplayChunks
  BY <1>2, ListedPlaces
<1>4. byTime # <<>> /\ n \in Nat /\ Len(listed') \in Nat /\ (ReplayChunks = 0 => listed' = <<>>)
  BY <1>2, ListedPlaces
<1>5. restarts' # 0
  BY <1>1, <1>4 DEF FilesInv
<1>6. ASSUME Calm', SlowEnough' PROVE ListInOrder'
  <2>1. FilesInOrder /\ IgnoreRecent \in Nat /\ IgnoreRecent > 0
    BY <1>1, <1>6, SegmentsAssumption DEF Calm, FilesInv, SlowEnough
  <2>2. Once(byTime) /\ InOrder(byTime, disk) /\ byTime \in Seq(Segments)
    BY <1>2, <2>1 DEF FilesInOrder, FilesType
  <2>3. PICK l : l = listed'
    OBVIOUS
  <2>4. \A i \in 1 .. Len(l) : /\ k + i \in 1 .. n /\ l[i] = byTime[k + i] /\ k + i < n
                               /\ i < Len(l) => k + i < n - 1
                               /\ n - (k + i) < IgnoreRecent + ReplayChunks
    <3> HIDE DEF n
    <3>1. ASSUME NEW i \in 1 .. Len(l)
          PROVE  /\ k + i \in 1 .. n /\ l[i] = byTime[k + i] /\ k + i <= n - IgnoreRecent
                 /\ i < Len(l) => k + i < n - IgnoreRecent
                 /\ n - (k + i) < IgnoreRecent + ReplayChunks
      BY <1>3, <2>3
    <3>2. \A j \in 1 .. n : /\ j <= n - IgnoreRecent => j < n
                            /\ j < n - IgnoreRecent => j < n - 1
      BY <1>4, <2>1
    <3>3. QED
      BY <3>1, <3>2
  <2>5. InOrder(l, disk)
    <3> SUFFICES ASSUME NEW i \in 1 .. Len(l), NEW j \in 1 .. Len(l), i < j
                 PROVE  Precede(disk[l[i]], disk[l[j]])
      BY DEF InOrder
    <3>1. k + i < k + j /\ k + i \in 1 .. n /\ k + j \in 1 .. n
      BY <1>4, <2>3, <2>4
    <3>2. QED
      BY <2>2, <2>4, <3>1 DEF InOrder
  <2>6. ASSUME main # "dead"
        PROVE  /\ \A i \in 1 .. Len(l) : i < Len(l) => l[i] # handle
               /\ callback = "close" => segmentNumber \notin ToSet(l)
               /\ \A s \in ToSet(l) : Back(Opened, s) < IgnoreRecent + ReplayChunks + faults + 0
    <3>1. LatestFile /\ Numbers(byTime, Opened, faults)
      BY <2>1, <2>6 DEF FilesInOrder
    <3>2. PICK p \in 1 .. n : p >= n - 1 /\ byTime[p] = handle
      BY <1>2, <1>4, <3>1, PlaceOfHandle
    <3>3. \A i \in 1 .. Len(l) : i < Len(l) => l[i] # handle
      <4> SUFFICES ASSUME NEW i \in 1 .. Len(l), i < Len(l) PROVE byTime[k + i] # handle
        BY <2>4
      <4>1. k + i \in 1 .. n /\ k + i # p
        BY <1>4, <2>4, <3>2
      <4>2. QED
        BY <2>2, <3>2, <4>1 DEF Once
    <3>4. ToSet(l) = {l[i] : i \in 1 .. Len(l)}
      <4>1. l \in Seq(Segments)
        <5>1. DecodeInv'
          BY DecodeScript DEF FilesInv, Script
        <5>2. QED
          BY <2>3, <5>1 DEF DecodeInv, FilesType
      <4>2. QED
        BY <4>1 DEF ToSet
    <3>5. callback = "close" => segmentNumber \notin ToSet(l)
      <4> SUFFICES ASSUME callback = "close", NEW i \in 1 .. Len(l), l[i] = segmentNumber
                   PROVE  FALSE
        BY <3>4
      <4>1. byTime[n] = segmentNumber
        BY <1>4, <3>1 DEF LatestFile, Switching, Fresh
      <4>2. k + i \in 1 .. n /\ k + i < n /\ n \in 1 .. n /\ byTime[k + i] = segmentNumber
        BY <1>4, <2>4
      <4>3. k + i = n
        BY <2>2, <4>1, <4>2 DEF Once
      <4>4. QED
        BY <1>4, <4>2, <4>3
    <3>6. ASSUME NEW s \in ToSet(l)
          PROVE  Back(Opened, s) < IgnoreRecent + ReplayChunks + faults + 0
      <4>1. PICK i \in 1 .. Len(l) : s = l[i]
        BY <3>4
      <4>2. PICK j \in 1 .. n : /\ s = byTime[j] /\ j < n
                                /\ n - j < IgnoreRecent + ReplayChunks
        BY <2>4, <4>1
      <4>3. Back(Opened, s) <= n - j + faults
        BY <3>1, <4>2 DEF Numbers
      <4>4. s \in Segments /\ Opened \in Segments /\ faults \in Nat
        BY <1>2, <2>2, <4>2, OpenedType DEF FilesType
      <4>5. Back(Opened, s) \in 0 .. Wrap - 1
        BY <4>4, Backwards
      <4>6. PICK a \in Nat : a = Back(Opened, s)
        BY <4>5
      <4>7. a < IgnoreRecent + ReplayChunks + faults + 0
        BY <1>4, <2>1, <4>2, <4>3, <4>4, <4>6, SegmentsAssumption
      <4>8. QED
        BY <4>6, <4>7
    <3>7. QED
      BY <3>3, <3>5, <3>6
  <2>7. Opened' = Opened
    BY <1>1 DEF Opened
  <2>8. Rising(<<>>) /\ ToSet(<<>>) = {} /\ \A f : Precede(<<>>, f)
    BY EmptyPrecedes, ElementsOfFew
  <2>9. InOrder(listed, disk)'
    BY <1>1, <2>3, <2>5
  <2>10. main' # "dead" =>
           /\ \A i \in 1 .. Len(listed') : i < Len(listed') => listed'[i] # handle'
           /\ callback' = "close" => segmentNumber' \notin ToSet(listed')
           /\ \A s \in ToSet(listed') :
                Back(Opened', s) < IgnoreRecent + ReplayChunks + faults' + reopened'
    BY <1>1, <2>3, <2>6, <2>7
  <2>11. QED
    BY <1>1, <2>8, <2>9, <2>10 DEF ListInOrder
<1>7. script' # "cat" \/ restarts' = 0 \/ ReplayChunks = 0 => NothingRead'
  BY <1>1, <1>4, <1>5 DEF NothingRead
<1>8. QED
  BY <1>1, <1>6, <1>7 DEF ListInv

LEMMA ListConcatenate == FilesInv /\ ListInv /\ Concatenate => ListInv'
<1> SUFFICES ASSUME FilesInv, ListInv, Concatenate PROVE ListInv'
  OBVIOUS
<1> DEFINE h == Head(listed)
<1>1. /\ script = "cat" /\ listed # <<>> /\ replay' = replay \o disk[h] /\ listed' = Tail(listed)
      /\ UNCHANGED <<main, callback, sent, segmentNumber, handle, tail, disk, faults, lost,
                     restarts, script, reopened>>
  BY DEF Concatenate, recorderVars, processVars, streamVars, fileVars
<1>2. FilesType /\ reopened' \in Nat /\ restarts # 0 /\ ReplayChunks # 0
  BY <1>1 DEF FilesInv, DecodeInv, ListInv, NothingRead
<1>3. script' # "cat" \/ restarts' = 0 \/ ReplayChunks = 0 => NothingRead'
  BY <1>1, <1>2
<1>4. ASSUME Calm', SlowEnough' PROVE ListInOrder'
  <2>1. FilesInOrder /\ ListInOrder
    BY <1>1, <1>4 DEF Calm, SlowEnough, FilesInv, ListInv
  <2>2. PICK m \in Nat : /\ m = Len(listed) /\ m >= 1 /\ h = listed[1] /\ h \in Segments
                         /\ Len(Tail(listed)) = m - 1
                         /\ \A i \in 1 .. m - 1 : Tail(listed)[i] = listed[i + 1]
                         /\ ToSet(listed) = {listed[i] : i \in 1 .. m}
    <3>1. listed \in Seq(Segments) /\ Len(listed) \in Nat /\ Len(listed) # 0
      BY <1>1, <1>2, LenProperties, EmptySeq DEF FilesType
    <3>2. h \in Segments /\ Len(Tail(listed)) = Len(listed) - 1
          /\ \A i \in 1 .. Len(Tail(listed)) : Tail(listed)[i] = listed[i + 1]
      BY <1>1, <3>1, HeadTailProperties
    <3>3. h = listed[1] /\ ToSet(listed) = {listed[i] : i \in 1 .. Len(listed)}
      BY <3>1 DEF ToSet
    <3> HIDE DEF h
    <3>4. PICK m \in Nat : m = Len(listed) /\ m >= 1
      BY <3>1
    <3>5. \A i \in 1 .. m - 1 : Tail(listed)[i] = listed[i + 1]
      BY <3>2, <3>4
    <3>6. QED
      BY <3>2, <3>3, <3>4, <3>5
  <2>3. PICK t \in Seq(Segments) : /\ t = listed' /\ Len(t) = m - 1
                                   /\ ToSet(t) = {t[i] : i \in 1 .. m - 1}
    <3>1. Tail(listed) \in Seq(Segments)
      BY <1>1, <1>2, HeadTailProperties DEF FilesType
    <3>2. PICK t \in Seq(Segments) : t = listed' /\ Len(t) = m - 1
      BY <1>1, <2>2, <3>1
    <3>3. ToSet(t) = {t[i] : i \in 1 .. m - 1}
      BY <3>2 DEF ToSet
    <3>4. QED
      BY <3>2, <3>3
  <2>4. \A i \in 1 .. m - 1 : t[i] = listed[i + 1] /\ i + 1 \in 1 .. m /\ 1 < i + 1
    BY <1>1, <2>2, <2>3
  <2>5. \A s \in ToSet(t) : s \in ToSet(listed) /\ Precede(disk[h], disk[s])
    <3>1. ASSUME NEW i \in 1 .. m - 1
          PROVE  t[i] \in ToSet(listed) /\ Precede(disk[listed[1]], disk[t[i]])
      <4>1. i + 1 \in 1 .. m /\ 1 \in 1 .. m /\ t[i] = listed[i + 1] /\ 1 < i + 1
        BY <2>2, <2>4
      <4>2. QED
        BY <2>1, <2>2, <4>1 DEF ListInOrder, InOrder
    <3> HIDE DEF h
    <3>2. QED
      BY <2>2, <2>3, <3>1
  <2>6. h \in ToSet(listed) /\ disk[h] \in Seq(Nat) /\ replay \in Seq(Nat) /\ Precede(replay, disk[h])
    <3>1. 1 \in 1 .. m
      BY <2>2
    <3>2. h \in ToSet(listed)
      BY <2>2, <3>1
    <3>3. QED
      BY <1>2, <2>1, <2>2, <3>2 DEF ListInOrder, FilesType
  <2>7. Rising(replay) /\ Rising(disk[h]) /\ Precede(replay, tail) /\ Precede(disk[h], tail)
        /\ (\A b \in ToSet(replay) : b < sent) /\ \A b \in ToSet(disk[h]) : b < sent
    BY <2>1, <2>2 DEF ListInOrder, FilesInOrder, FilesRise, TailLast
  <2> HIDE DEF h
  <2>8. PICK r \in Seq(Nat) : /\ r = replay' /\ Rising(r)
                              /\ ToSet(r) = ToSet(replay) \cup ToSet(disk[h])
    <3>1. replay' = replay \o disk[h]
      BY <1>1 DEF h
    <3>2. Rising(replay \o disk[h])
      BY <2>6, <2>7, RisingConcat
    <3>3. /\ replay \o disk[h] \in Seq(Nat)
          /\ ToSet(replay \o disk[h]) = ToSet(replay) \cup ToSet(disk[h])
      BY <2>6, ElementsOfConcat
    <3>4. QED
      BY <3>1, <3>2, <3>3
  <2>9. Precede(r, tail) /\ \A b \in ToSet(r) : b < sent
    BY <2>7, <2>8 DEF Precede
  <2>10. \A s \in ToSet(t) : Precede(r, disk[s])
    BY <2>1, <2>5, <2>8 DEF ListInOrder, Precede
  <2>11. InOrder(t, disk)
    <3> SUFFICES ASSUME NEW i \in 1 .. m - 1, NEW j \in 1 .. m - 1, i < j
                 PROVE  Precede(disk[t[i]], disk[t[j]])
      BY <2>3 DEF InOrder
    <3>1. i + 1 \in 1 .. m /\ j + 1 \in 1 .. m /\ i + 1 < j + 1
      BY <2>2
    <3>2. QED
      BY <2>1, <2>2, <2>4, <3>1 DEF ListInOrder, InOrder
  <2>12. ASSUME main # "dead"
         PROVE  /\ \A i \in 1 .. Len(t) : i < Len(t) => t[i] # handle
                /\ callback = "close" => segmentNumber \notin ToSet(t)
                /\ \A s \in ToSet(t) :
                     Back(Opened, s) < IgnoreRecent + ReplayChunks + faults + reopened
    <3>1. /\ \A i \in 1 .. m : i < m => listed[i] # handle
          /\ callback = "close" => segmentNumber \notin ToSet(listed)
          /\ \A s \in ToSet(listed) :
               Back(Opened, s) < IgnoreRecent + ReplayChunks + faults + reopened
      BY <2>1, <2>2, <2>12 DEF ListInOrder
    <3>2. \A i \in 1 .. m - 1 : i < m - 1 => i + 1 \in 1 .. m /\ i + 1 < m
      BY <2>2
    <3>3. QED
      BY <2>3, <2>4, <2>5, <3>1, <3>2
  <2>13. Opened' = Opened
    BY <1>1 DEF Opened
  <2>14. InOrder(listed, disk)' /\ Rising(replay)' /\ Precede(replay, tail)'
    BY <1>1, <2>3, <2>8, <2>9, <2>11
  <2>15. (\A b \in ToSet(replay') : b < sent') /\ \A s \in ToSet(listed') : Precede(replay', disk'[s])
    BY <1>1, <2>3, <2>8, <2>9, <2>10
  <2>16. main' # "dead" =>
           /\ \A i \in 1 .. Len(listed') : i < Len(listed') => listed'[i] # handle'
           /\ callback' = "close" => segmentNumber' \notin ToSet(listed')
           /\ \A s \in ToSet(listed') :
                Back(Opened', s) < IgnoreRecent + ReplayChunks + faults' + reopened'
    BY <1>1, <2>3, <2>12, <2>13
  <2>17. QED
    BY <2>14, <2>15, <2>16 DEF ListInOrder
<1>5. QED
  BY <1>2, <1>3, <1>4 DEF ListInv

LEMMA ListFinish == ListInv /\ Finish => ListInv'
<1> SUFFICES ASSUME ListInv, Finish PROVE ListInv'
  OBVIOUS
<1>1. listed' = <<>> /\ replay' = <<>> /\ reopened' = 0
  BY DEF Finish
<1>2. NothingRead'
  BY <1>1 DEF NothingRead
<1>3. QED
  BY <1>1, <1>2, NothingAfterwards DEF ListInv

LEMMA OrderInit == Init => OrderInv
<1> SUFFICES ASSUME Init PROVE OrderInv
  OBVIOUS
<1>1. FilesInv
  BY FilesInit
<1>2. NothingRead /\ reopened \in Nat
  BY DEF Init, NothingRead
<1>3. QED
  BY <1>1, <1>2, NothingInOrder DEF OrderInv, ListInv

LEMMA OrderNext == OrderInv /\ [Next]_vars => OrderInv'
<1> SUFFICES ASSUME FilesInv, ListInv, [Next]_vars PROVE FilesInv' /\ ListInv'
  BY DEF OrderInv
<1>0. FilesInv' /\ FilesType /\ (restarts = 0 => main = "dead")
  BY FilesNext DEF FilesInv, DecodeInv, NothingYet
<1>1. CASE Deliver
  <2>1. /\ UNCHANGED <<sent, tail, disk, handle, restarts, main, listed, replay, script, reopened>>
        /\ callback = "idle" /\ callback' # "close"
        /\ \/ callback' = "open" /\ segmentNumber' = NextNumber
           \/ callback' = "write" /\ UNCHANGED segmentNumber
    BY <1>1 DEF Deliver, processVars, scriptVars
  <2>2. Opened' = Opened
    <3>1. segmentNumber \in Segments /\ Opened = segmentNumber
      BY <1>0, <2>1 DEF FilesType, Opened
    <3>2. Preceding(NextNumber) = segmentNumber
      BY <3>1, Backwards DEF NextNumber, Following
    <3>3. QED
      BY <2>1, <3>1, <3>2 DEF Opened
  <2>3. QED
    BY <1>0, <2>1, <2>2, ListSettled
<1>2. CASE Tick \/ NoticeAbort \/ DisablePort \/ ReturnBuffer \/ UNCHANGED vars
  <2>1. /\ UNCHANGED <<sent, tail, disk, handle, restarts, segmentNumber, listed, replay, script,
                       reopened>>
        /\ UNCHANGED callback \/ (callback = "return" /\ callback' = "idle")
        /\ main' = main \/ main # "dead"
    BY <1>2 DEF Tick, NoticeAbort, DisablePort, ReturnBuffer, vars, recorderVars, processVars,
                streamVars, fileVars, scriptVars
  <2>2. Opened' = Opened /\ (callback' = "close" => callback = "close")
    BY <2>1 DEF Opened
  <2>3. QED
    BY <1>0, <2>1, <2>2, ListSettled
<1>3. QED
  BY <1>0, <1>1, <1>2, ListStart, ListOpen, ListAppend, ListKill, ListFilesStep, ListConcatenate,
     ListFinish DEF Next, Callback, Main, Script

\* In one run of the recorder whose writes succeed a replay shows the stream in
\* its order, although the files are filled, switched and emptied while they are
\* read: if the latest is left out, and the recorder does not come round to the
\* files that are listed (RaspiVidBalls.c:1343-1375, generate-replay.sh:8-11).
THEOREM ReplayAlwaysInOrder == OutputSpec => []ReplayInOrder
<1>1. OrderInv => ReplayInOrder
  <2> SUFFICES ASSUME OrderInv, restarts <= 1, lost = {}, IgnoreRecent > 0,
                      reopened + faults + IgnoreRecent <= Wrap - ReplayChunks,
                      NEW i \in DOMAIN replay, NEW j \in DOMAIN replay, i < j
               PROVE  replay[i] < replay[j]
    BY DEF ReplayInOrder
  <2>1. /\ FilesType /\ reopened \in Nat /\ faults \in Nat /\ replay \in Seq(Nat)
        /\ Wrap \in Nat /\ ReplayChunks \in Nat /\ IgnoreRecent \in Nat
    BY SegmentsAssumption DEF OrderInv, FilesInv, DecodeInv, ListInv, FilesType
  <2>2. i \in 1 .. Len(replay) /\ j \in 1 .. Len(replay)
    BY <2>1
  <2>3. ReplayChunks # 0
    <3>1. replay # <<>>
      BY <2>2
    <3>2. QED
      BY <3>1 DEF OrderInv, ListInv, NothingRead
  <2>4. faults + 1 < Wrap
    BY <2>1, <2>3
  <2>5. Rising(replay)
    BY <2>4 DEF OrderInv, ListInv, ListInOrder, Calm, SlowEnough
  <2>6. QED
    BY <2>2, <2>5 DEF Rising
<1>2. OutputInit => OrderInv
  BY OrderInit, OutputIsSegments
<1>3. OrderInv /\ [OutputNext]_outputVars => OrderInv'
  BY OrderNext, OutputIsSegments
<1>4. QED
  BY <1>1, <1>2, <1>3, PTL DEF OutputSpec

-----------------------------------------------------------------------------
(* The circular buffer                                                      *)

\* What the list of key frames relies on.  The buffer holds the longest way from
\* the begin of a key frame to the end of the next one's first buffer; and the
\* list has room for the key frames in it, each with KeyFrameBuffers entries for
\* MinKey units at least.  Counted in bytes, 60000 entries and the 10625000 bytes
\* of the default bit rate and timeout leave room for key frames of four buffers
\* that begin with 709 bytes.
RoomForKeys ==
  /\ (KeyFrameBuffers + frames_per_key) * MaxLength <= cb_len
  /\ cb_len * KeyFrameBuffers < IFRAME_BUFSIZE * MinKey

Cells == 0 .. cb_len - 1
Entries == 0 .. IFRAME_BUFSIZE - 1

\* How far a position is ahead of the write pointer w, and which unit of the n
\* so far is there: a negative one has not come yet.
Along(w, p) == IF w <= p THEN p - w ELSE p - w + cb_len
Due(n, w, p) == n - cb_len + Along(w, p)

RingOf(n, w, wrap, b) ==
  /\ n \in Nat /\ w \in Cells /\ wrap \in BOOLEAN
  /\ b \in [Cells -> [unit : Int, key : BOOLEAN]]
  /\ \A p \in Cells : /\ Due(n, w, p) >= 0 => b[p].unit = Due(n, w, p)
                      /\ Due(n, w, p) < 0 => b[p].unit = -1 /\ ~b[p].key
  /\ wrap => n > cb_len
  /\ n < cb_len => w = n
  /\ n = cb_len => w = 0
  /\ n \in 1 .. cb_len => b[0].key

\* The entries from the read position r on, round the list up to e.
Slot(r, k) == IF r + k < IFRAME_BUFSIZE THEN r + k ELSE r + k - IFRAME_BUFSIZE
Count(r, e) == IF r <= e THEN e - r ELSE e - r + IFRAME_BUFSIZE

\* Each entry is where a key frame begins, they are in order of time, and the
\* entries from each on, with the q that are due to its last key frame, took up
\* as much of the buffer as whole key frames do.  None is missing.
Pending(f, k) == IF f = 0 /\ k > 0 THEN KeyFrameBuffers - k ELSE 0
ListOf(n, w, b, list, r, e, q) ==
  /\ list \in [Entries -> Cells] /\ r \in Entries /\ e \in Entries
  /\ \A k \in 0 .. Count(r, e) - 1 :
       LET p == list[Slot(r, k)]
       IN  /\ b[p].key
           /\ (Count(r, e) - k + q) * MinKey <= KeyFrameBuffers * (n - Due(n, w, p))
           /\ \A l \in 0 .. k : Due(n, w, list[Slot(r, l)]) <= Due(n, w, p)
  /\ \A p \in Cells : b[p].key => \E k \in 0 .. Count(r, e) - 1 : list[Slot(r, k)] = p

\* Output buffers since the last key frame began; with a new frame due that may
\* begin another, since the one before.
Since(f, k) ==
  IF f > 0 THEN KeyFrameBuffers + f - 1
  ELSE IF k > 0 THEN k ELSE KeyFrameBuffers + frames_per_key - 1
NewestEntry(list, r, e) == list[Slot(r, Count(r, e) - 1)]
FrameOf(n, w, list, r, e, f, k, start) ==
  /\ f \in 0 .. frames_per_key - 1 /\ k \in 0 .. KeyFrameBuffers - 1
  /\ f > 0 => k = 0
  /\ n = 0 => Count(r, e) = 0 /\ f = 0 /\ k = 0
  /\ n > 0 => /\ Count(r, e) > 0
              /\ n - Due(n, w, NewestEntry(list, r, e)) <= Since(f, k) * MaxLength
  /\ k = 0 => start = -1
  /\ k > 0 => start = NewestEntry(list, r, e)

RingInv ==
  /\ RingOf(pushed, cb_wptr, cb_wrap, cb_buff)
  /\ ListOf(pushed, cb_wptr, cb_buff, iframe_buff, iframe_buff_rpos, iframe_buff_wpos,
            Pending(frame, parts))
  /\ FrameOf(pushed, cb_wptr, iframe_buff, iframe_buff_rpos, iframe_buff_wpos,
             frame, parts, frame_start)

\* If no output comes between, what main copies is what it has seen.
Chosen ==
  IF cb_wrap THEN /\ copy_from_end = cb_len - Oldest
                  /\ copy_from_start = FromStart(cb_len - Oldest)
  ELSE copy_from_end = 0 /\ copy_from_start = cb_wptr
SaveInv ==
  ~late => /\ saving \in {"end", "start", "done"} => Chosen
           /\ saving = "start" => file = Bytes(Oldest, copy_from_end)
           /\ saving = "done" =>
                file = Bytes(Oldest, copy_from_end) \o Bytes(0, copy_from_start)

LEMMA Remainder ==
  ASSUME NEW n \in Nat \ {0}, NEW a \in -n .. 2 * n - 1
  PROVE  a % n = IF a < 0 THEN a + n ELSE IF a < n THEN a ELSE a - n
<1> DEFINE m == a % n
           q == a \div n
<1>1. a = n * q + m /\ m \in 0 .. n - 1 /\ q \in Int
  OBVIOUS
<1> HIDE DEF m, q
<1>2. q \in {-1, 0, 1}
  <2>1. CASE q >= 2
    <3>1. n * q >= n * 2
      BY <1>1, <2>1
    <3>2. QED
      BY <1>1, <3>1
  <2>2. CASE q <= -2
    <3>1. n * q <= n * (-2)
      BY <1>1, <2>2
    <3>2. QED
      BY <1>1, <3>1
  <2>3. QED
    BY <1>1, <2>1, <2>2
<1>3. QED
  BY <1>1, <1>2 DEF m

LEMMA RingSizes ==
  /\ cb_len \in Nat /\ cb_len >= 1 /\ IFRAME_BUFSIZE \in Nat /\ IFRAME_BUFSIZE >= 1
  /\ MaxLength \in Nat /\ MaxLength >= 1 /\ MaxLength <= cb_len
  /\ KeyFrameBuffers \in Nat /\ KeyFrameBuffers >= 1
  /\ frames_per_key \in Nat /\ frames_per_key >= 1
  /\ MinKey \in Nat /\ MinKey >= 1 /\ MinKey <= MaxLength
BY CircularAssumption

LEMMA AlongInside ==
  ASSUME NEW w \in Cells, NEW p \in Cells
  PROVE  Along(w, p) \in Cells /\ Along(w, p) \in Nat /\ (Along(w, p) = 0 <=> p = w)
BY RingSizes DEF Along, Cells

\* A position of the ring, seen from before and after a write of some length.
LEMMA RingMoves ==
  ASSUME NEW w \in Cells, NEW p \in Cells, NEW length \in 1 .. MaxLength
  PROVE  /\ Along(w, p) \in Cells /\ (p - w) % cb_len = Along(w, p)
         /\ (w + length) % cb_len \in Cells
         /\ (w + length) % cb_len
              = IF w + length < cb_len THEN w + length ELSE w + length - cb_len
         /\ Along((w + length) % cb_len, p)
              = IF Along(w, p) < length THEN Along(w, p) - length + cb_len
                ELSE Along(w, p) - length
         /\ Along(w, p) = 0 <=> p = w
<1>1. w \in Int /\ p \in Int /\ length \in Int /\ 0 <= w /\ w < cb_len /\ 0 <= p /\ p < cb_len
      /\ 1 <= length /\ length <= cb_len
  BY RingSizes DEF Cells
<1>2. (p - w) % cb_len = IF p - w < 0 THEN p - w + cb_len ELSE p - w
  <2>1. cb_len \in Nat \ {0} /\ p - w \in -cb_len .. 2 * cb_len - 1 /\ p - w < cb_len
    BY <1>1, RingSizes
  <2>2. QED
    BY <2>1, Remainder
<1> DEFINE v == (w + length) % cb_len
           a == (p - w) % cb_len
<1> HIDE DEF v, a
<1>3. v = IF w + length < cb_len THEN w + length ELSE w + length - cb_len
  <2>1. PICK b \in -cb_len .. 2 * cb_len - 1 : b = w + length
    BY <1>1, RingSizes
  <2>2. cb_len \in Nat \ {0} /\ b >= 0
    BY <1>1, <2>1, RingSizes
  <2>3. b % cb_len = IF b < 0 THEN b + cb_len ELSE IF b < cb_len THEN b ELSE b - cb_len
    BY <2>2, Remainder
  <2>4. v = b % cb_len
    BY <2>1, Zenon DEF v
  <2>5. b % cb_len = IF b < cb_len THEN b ELSE b - cb_len
    BY <2>2, <2>3
  <2>6. QED
    BY <1>1, <2>1, <2>4, <2>5, RingSizes
<1>4. a = Along(w, p) /\ a \in Cells
  BY <1>1, <1>2, RingSizes DEF a, Along, Cells
<1>5. v \in Cells /\ v = IF w + length < cb_len THEN w + length ELSE w + length - cb_len
  BY <1>1, <1>3, RingSizes DEF v, Cells
<1>6. Along(v, p) = IF Along(w, p) < length THEN Along(w, p) - length + cb_len
                    ELSE Along(w, p) - length
  BY <1>1, <1>5, RingSizes DEF Along
<1>7. Along(w, p) = 0 <=> p = w
  BY <1>1, RingSizes DEF Along
<1>8. QED
  BY <1>4, <1>5, <1>6, <1>7 DEF v, a

\* What a write leaves is where it was; what it overwrites was due in the lap
\* before.
LEMMA DueMoves ==
  ASSUME NEW n \in Nat, NEW w \in Cells, NEW p \in Cells, NEW length \in 1 .. MaxLength,
         NEW m, m = n + length, NEW v, v = (w + length) % cb_len
  PROVE  /\ Due(n, w, p) \in Int /\ n - cb_len <= Due(n, w, p) /\ Due(n, w, p) < n
         /\ Along(w, p) < length <=> Due(n, w, p) < m - cb_len
         /\ Along(w, p) < length => Due(m, v, p) = n + Along(w, p)
         /\ ~(Along(w, p) < length) => Due(m, v, p) = Due(n, w, p)
         /\ Due(n, w, w) = n - cb_len /\ Due(m, v, w) = n
<1>1. /\ Along(w, p) \in Cells /\ v \in Cells
      /\ Along(v, p) = IF Along(w, p) < length THEN Along(w, p) - length + cb_len
                       ELSE Along(w, p) - length
      /\ Along(w, w) = 0 /\ Along(v, w) = Along(w, w) - length + cb_len
  BY RingMoves
<1>2. length \in Int /\ Along(w, p) \in Int /\ Along(w, p) >= 0 /\ Along(w, p) < cb_len
  BY <1>1, RingSizes DEF Cells
<1>3. QED
  BY <1>1, <1>2, RingSizes DEF Due

LEMMA OvertakesIsNear ==
  ASSUME cb_wptr \in Cells, NEW p \in Cells, NEW length \in 1 .. MaxLength
  PROVE  Overtakes(p, length) <=> Along(cb_wptr, p) < length
BY RingSizes DEF Overtakes, Along, Cells

\* A write to the ring.
Overwritten(n, w, b, length, key) ==
  [p \in Cells |-> LET k == (p - w) % cb_len
                   IN  IF k < length THEN [unit |-> n + k, key |-> key /\ k = 0] ELSE b[p]]
LEMMA RingPut ==
  ASSUME NEW n, NEW w, NEW wrap, NEW b, RingOf(n, w, wrap, b),
         NEW length \in 1 .. MaxLength, NEW key \in BOOLEAN, n = 0 => key
  PROVE  LET c == Overwritten(n, w, b, length, key)
         IN  /\ RingOf(n + length, (w + length) % cb_len,
                       wrap \/ w + length > cb_len, c)
             /\ \A p \in Cells :
                  /\ ~(Along(w, p) < length) => c[p] = b[p]
                  /\ Along(w, p) < length => (c[p].key <=> key /\ p = w)
<1> DEFINE c == Overwritten(n, w, b, length, key)
           v == (w + length) % cb_len
           m == n + length
<1>1. /\ n \in Nat /\ w \in Cells /\ wrap \in BOOLEAN
      /\ b \in [Cells -> [unit : Int, key : BOOLEAN]]
  BY DEF RingOf
<1>2. m \in Nat /\ v \in Cells /\ length \in Nat /\ 1 <= length /\ length <= cb_len
  <2>1. v \in Cells
    BY <1>1, RingMoves
  <2>2. QED
    BY <1>1, <2>1, RingSizes
<1>3. ASSUME NEW p \in Cells
      PROVE  c[p] = IF Along(w, p) < length
                    THEN [unit |-> n + Along(w, p), key |-> key /\ p = w] ELSE b[p]
  <2>1. (p - w) % cb_len = Along(w, p) /\ (Along(w, p) = 0 <=> p = w)
    BY <1>1, RingMoves
  <2>2. c[p] = IF (p - w) % cb_len < length
               THEN [unit |-> n + ((p - w) % cb_len), key |-> key /\ (p - w) % cb_len = 0]
               ELSE b[p]
    BY DEF Overwritten
  <2>3. QED
    BY <2>1, <2>2
<1>4. c \in [Cells -> [unit : Int, key : BOOLEAN]]
  <2>1. \A p \in Cells : c[p] \in [unit : Int, key : BOOLEAN]
    <3> SUFFICES ASSUME NEW p \in Cells PROVE c[p] \in [unit : Int, key : BOOLEAN]
      OBVIOUS
    <3>1. n + Along(w, p) \in Int
      BY <1>1, AlongInside
    <3>2. [unit |-> n + Along(w, p), key |-> key /\ p = w] \in [unit : Int, key : BOOLEAN]
      BY <3>1
    <3>3. b[p] \in [unit : Int, key : BOOLEAN]
      BY <1>1
    <3>4. QED
      BY <1>3, <3>2, <3>3
  <2>2. c = [p \in Cells |-> c[p]]
    BY DEF Overwritten
  <2>3. QED
    BY <2>1, <2>2
<1> HIDE DEF c, v, m
<1>5. \A p \in Cells : Along(w, p) < length =>
        c[p].unit = n + Along(w, p) /\ (c[p].key <=> key /\ p = w)
  <2> SUFFICES ASSUME NEW p \in Cells, Along(w, p) < length
               PROVE  c[p].unit = n + Along(w, p) /\ (c[p].key <=> key /\ p = w)
    OBVIOUS
  <2> DEFINE u == n + Along(w, p)
             t == key /\ p = w
  <2>1. c[p] = [unit |-> u, key |-> t]
    BY <1>3
  <2> HIDE DEF u, t
  <2>2. c[p].unit = u /\ c[p].key = t
    BY <2>1
  <2>3. QED
    BY <2>2 DEF u, t
<1>6. \A p \in Cells : ~(Along(w, p) < length) => c[p] = b[p]
  BY <1>3
<1>7. ASSUME NEW p \in Cells
      PROVE  /\ Due(m, v, p) >= 0 => c[p].unit = Due(m, v, p)
             /\ Due(m, v, p) < 0 => c[p].unit = -1 /\ ~c[p].key
  <2>1. /\ Due(n, w, p) >= 0 => b[p].unit = Due(n, w, p)
        /\ Due(n, w, p) < 0 => b[p].unit = -1 /\ ~b[p].key
    BY DEF RingOf
  <2>2. /\ Along(w, p) < length => Due(m, v, p) = n + Along(w, p)
        /\ ~(Along(w, p) < length) => Due(m, v, p) = Due(n, w, p)
    BY <1>1, DueMoves DEF m, v
  <2>3. Along(w, p) \in Nat
    BY <1>1, AlongInside
  <2>4. CASE Along(w, p) < length
    <3>1. c[p].unit = n + Along(w, p) /\ n + Along(w, p) >= 0
      BY <1>1, <1>5, <2>3, <2>4
    <3>2. Due(m, v, p) = n + Along(w, p)
      BY <2>2, <2>4
    <3>3. QED
      BY <1>1, <2>3, <3>1, <3>2
  <2>5. CASE ~(Along(w, p) < length)
    BY <1>6, <2>1, <2>2, <2>5
  <2>6. QED
    BY <2>4, <2>5
<1>8. /\ wrap => n > cb_len
      /\ n < cb_len => w = n
      /\ n = cb_len => w = 0
      /\ n \in 1 .. cb_len => b[0].key
  BY DEF RingOf
<1>9. v = IF w + length < cb_len THEN w + length ELSE w + length - cb_len
  BY <1>1, RingMoves DEF v
<1>10. /\ (wrap \/ w + length > cb_len) \in BOOLEAN
       /\ (wrap \/ w + length > cb_len => m > cb_len)
       /\ m < cb_len => v = m
       /\ m = cb_len => v = 0
  <2>1. w \in Int /\ 0 <= w /\ w < cb_len
    BY <1>1, RingSizes DEF Cells
  <2>2. w <= n
    BY <1>1, <1>8, <2>1, RingSizes
  <2>3. m = n + length
    BY DEF m
  <2>4. QED
    BY <1>1, <1>2, <1>8, <1>9, <2>1, <2>2, <2>3, RingSizes
<1>11. m \in 1 .. cb_len => c[0].key
  <2> SUFFICES ASSUME m \in 1 .. cb_len PROVE c[0].key
    OBVIOUS
  <2>1. 0 \in Cells /\ m = n + length
    BY RingSizes DEF Cells, m
  <2>2. CASE n = 0
    <3>1. w = 0 /\ Along(w, 0) = 0
      BY <1>8, <2>1, <2>2, RingSizes DEF Along
    <3>2. c[0].key <=> key /\ 0 = w
      BY <1>2, <1>5, <2>1, <3>1
    <3>3. QED
      BY <2>2, <3>1, <3>2
  <2>3. CASE n # 0
    <3>1. n < cb_len /\ n >= 1 /\ w = n
      BY <1>1, <1>2, <1>8, <2>1, <2>3, RingSizes
    <3>2. Along(w, 0) = cb_len - n
      BY <1>1, <3>1, RingSizes DEF Along
    <3>3. ~(Along(w, 0) < length)
      BY <1>1, <1>2, <2>1, <3>2, RingSizes
    <3>4. c[0] = b[0] /\ n \in 1 .. cb_len
      BY <1>1, <1>6, <2>1, <3>1, <3>3, RingSizes
    <3>5. QED
      BY <1>8, <3>4
  <2>4. QED
    BY <2>2, <2>3
<1>12. RingOf(m, v, wrap \/ w + length > cb_len, c)
  BY <1>2, <1>4, <1>7, <1>10, <1>11 DEF RingOf
<1>13. QED
  BY <1>5, <1>6, <1>12 DEF c, v, m

-----------------------------------------------------------------------------
(* The list of key frames                                                   *)

LEMMA SlotMoves ==
  ASSUME NEW r \in Entries, NEW k \in 0 .. IFRAME_BUFSIZE
  PROVE  /\ Slot(r, k) \in Entries
         /\ \A j \in 0 .. IFRAME_BUFSIZE : k + j <= IFRAME_BUFSIZE =>
              Slot(Slot(r, k), j) = Slot(r, k + j)
         /\ \A j \in 0 .. IFRAME_BUFSIZE - 1 :
              k < IFRAME_BUFSIZE /\ Slot(r, j) = Slot(r, k) => j = k
         /\ k < IFRAME_BUFSIZE => Count(r, Slot(r, k)) = k
         /\ Slot(r, 0) = r
<1>1. /\ r \in Int /\ 0 <= r /\ r < IFRAME_BUFSIZE /\ k \in Int /\ 0 <= k
      /\ k <= IFRAME_BUFSIZE
  BY RingSizes DEF Entries
<1>2. QED
  BY <1>1, RingSizes DEF Slot, Count, Entries

LEMMA CountSlots ==
  ASSUME NEW r \in Entries, NEW e \in Entries
  PROVE  /\ Count(r, e) \in 0 .. IFRAME_BUFSIZE - 1 /\ Slot(r, Count(r, e)) = e
         /\ \A i \in Entries : Count(r, i) \in 0 .. IFRAME_BUFSIZE - 1
                               /\ Slot(r, Count(r, i)) = i
BY RingSizes DEF Slot, Count, Entries

LEMMA IndexSlots ==
  ASSUME NEW r \in Entries, NEW i \in Entries
  PROVE  /\ (i - r) % IFRAME_BUFSIZE = Count(r, i)
         /\ (r + i) % IFRAME_BUFSIZE = Slot(r, i)
         /\ After(r) = Slot(r, 1)
<1>1. r \in Int /\ i \in Int /\ 0 <= r /\ r < IFRAME_BUFSIZE /\ 0 <= i /\ i < IFRAME_BUFSIZE
  BY RingSizes DEF Entries
<1>2. /\ IFRAME_BUFSIZE \in Nat \ {0}
      /\ i - r \in -IFRAME_BUFSIZE .. 2 * IFRAME_BUFSIZE - 1
      /\ r + i \in -IFRAME_BUFSIZE .. 2 * IFRAME_BUFSIZE - 1
      /\ r + 1 \in -IFRAME_BUFSIZE .. 2 * IFRAME_BUFSIZE - 1
  BY <1>1, RingSizes
<1> DEFINE m(a) == IF a < 0 THEN a + IFRAME_BUFSIZE
                   ELSE IF a < IFRAME_BUFSIZE THEN a ELSE a - IFRAME_BUFSIZE
<1>3. \A a \in -IFRAME_BUFSIZE .. 2 * IFRAME_BUFSIZE - 1 : a % IFRAME_BUFSIZE = m(a)
  BY <1>2, Remainder
<1>4. /\ (i - r) % IFRAME_BUFSIZE = m(i - r)
      /\ (r + i) % IFRAME_BUFSIZE = m(r + i)
      /\ (r + 1) % IFRAME_BUFSIZE = m(r + 1)
  <2> HIDE DEF m
  <2>1. QED
    BY <1>2, <1>3, Zenon
<1>5. m(i - r) = Count(r, i) /\ m(r + i) = Slot(r, i) /\ m(r + 1) = Slot(r, 1)
  BY <1>1, RingSizes DEF Count, Slot
<1>6. QED
  BY <1>4, <1>5 DEF After

\* The search for the first entry that is kept ends at one, if there is one.
LEMMA SearchEnds ==
  ASSUME cb_wptr \in Cells, NEW list \in [Entries -> Cells], NEW r \in Entries,
         NEW length \in 1 .. MaxLength, NEW j \in Entries,
         ~(Along(cb_wptr, list[Slot(r, j)]) < length)
  PROVE  \E k \in 0 .. j :
           /\ FirstKept(list, r, length) = Slot(r, k)
           /\ ~(Along(cb_wptr, list[Slot(r, k)]) < length)
           /\ \A l \in 0 .. k - 1 : Along(cb_wptr, list[Slot(r, l)]) < length
<1> DEFINE Here(k) == list[(r + k) % IFRAME_BUFSIZE]
           kept == {k \in 0 .. IFRAME_BUFSIZE - 1 : ~Overtakes(Here(k), length)}
           least == CHOOSE k \in kept : \A l \in kept : k <= l
<1>1. \A k \in Entries : /\ Slot(r, k) \in Entries /\ list[Slot(r, k)] \in Cells
                         /\ Here(k) = list[Slot(r, k)]
                         /\ Overtakes(Here(k), length)
                              <=> Along(cb_wptr, list[Slot(r, k)]) < length
  <2> SUFFICES ASSUME NEW k \in Entries
               PROVE  /\ Slot(r, k) \in Entries /\ list[Slot(r, k)] \in Cells
                      /\ Here(k) = list[Slot(r, k)]
                      /\ Overtakes(Here(k), length)
                           <=> Along(cb_wptr, list[Slot(r, k)]) < length
    OBVIOUS
  <2>1. k \in 0 .. IFRAME_BUFSIZE
    BY RingSizes DEF Entries
  <2>2. Slot(r, k) \in Entries /\ (r + k) % IFRAME_BUFSIZE = Slot(r, k)
    BY <2>1, SlotMoves, IndexSlots
  <2>3. Here(k) = list[Slot(r, k)] /\ Here(k) \in Cells
    BY <2>2
  <2> HIDE DEF Here
  <2>4. Overtakes(Here(k), length) <=> Along(cb_wptr, Here(k)) < length
    BY <2>3, OvertakesIsNear
  <2>5. QED
    BY <2>2, <2>3, <2>4
<1>2. FirstKept(list, r, length) = (r + least) % IFRAME_BUFSIZE
  BY DEF FirstKept
<1> HIDE DEF Here
<1>3. kept \in SUBSET Nat /\ j \in kept /\ kept = {k \in Entries : ~Overtakes(Here(k), length)}
  BY <1>1, RingSizes DEF Entries
<1>4. least \in kept /\ \A l \in kept : least <= l
  <2> HIDE DEF kept
  <2>1. \E m \in kept : \A l \in kept : m <= l
    BY <1>3, LeastIndex
  <2>2. QED
    BY <2>1
<1>5. PICK k \in Entries : k = least
  BY <1>3, <1>4
<1> HIDE DEF kept, least
<1>6. k <= j /\ k \in Nat /\ j \in Nat
  BY <1>3, <1>4, <1>5
<1>7. ~(Along(cb_wptr, list[Slot(r, k)]) < length)
  BY <1>1, <1>3, <1>4, <1>5
<1>8. \A l \in 0 .. k - 1 : Along(cb_wptr, list[Slot(r, l)]) < length
  <2> SUFFICES ASSUME NEW l \in 0 .. k - 1 PROVE Along(cb_wptr, list[Slot(r, l)]) < length
    OBVIOUS
  <2>1. l \in Entries /\ ~(k <= l)
    BY <1>6, RingSizes DEF Entries
  <2>2. l \notin kept
    BY <1>4, <1>5, <2>1
  <2>3. QED
    BY <1>1, <1>3, <2>1, <2>2
<1>9. FirstKept(list, r, length) = Slot(r, k)
  BY <1>2, <1>5, IndexSlots
<1>10. QED
  BY <1>6, <1>7, <1>8, <1>9

LEMMA Multiples ==
  ASSUME NEW i \in Nat, NEW j \in Nat, NEW k \in Nat
  PROVE  /\ i <= j => i * k <= j * k
         /\ (i + 1) * k = i * k + k /\ i * k \in Nat
OBVIOUS

LEMMA RoomForTwo ==
  ASSUME cb_len * KeyFrameBuffers < IFRAME_BUFSIZE * MinKey PROVE IFRAME_BUFSIZE >= 2
<1>1. 1 * cb_len <= KeyFrameBuffers * cb_len
  BY RingSizes, Multiples
<1>2. cb_len <= cb_len * KeyFrameBuffers
  BY <1>1, RingSizes
<1>3. CASE IFRAME_BUFSIZE = 1
  <2>1. cb_len * KeyFrameBuffers < MinKey
    BY <1>3, RingSizes
  <2>2. QED
    BY <1>2, <2>1, RingSizes
<1>4. QED
  BY <1>3, RingSizes

\* What entries weigh against the buffer they took up, after one more buffer.
LEMMA Weights ==
  ASSUME NEW a \in Int, NEW x \in Int, a * MinKey <= KeyFrameBuffers * x,
         NEW length \in Nat
  PROVE  /\ a * MinKey <= KeyFrameBuffers * (x + length)
         /\ MinKey <= length =>
              /\ KeyFrameBuffers * MinKey <= KeyFrameBuffers * length
              /\ (a + KeyFrameBuffers) * MinKey <= KeyFrameBuffers * (x + length)
<1> DEFINE K == KeyFrameBuffers
           am == a * MinKey
           kx == K * x
           kl == K * length
           km == K * MinKey
<1>1. am \in Int /\ kx \in Int /\ kl \in Nat /\ km \in Nat /\ am <= kx
  BY RingSizes
<1>2. K * (x + length) = kx + kl /\ (a + K) * MinKey = am + km
  BY RingSizes
<1>3. MinKey <= length => km <= kl
  <2>1. MinKey <= length => MinKey * K <= length * K
    BY RingSizes, Multiples
  <2>2. QED
    BY <2>1, RingSizes
<1> HIDE DEF am, kx, kl, km
<1>4. am <= K * (x + length) /\ (MinKey <= length => (a + K) * MinKey <= K * (x + length))
  BY <1>1, <1>2, <1>3
<1>5. QED
  BY <1>3, <1>4 DEF am, kl, km

\* What a buffer does to the list: it adds an entry s if it is of a key frame,
\* and drops those it overwrites.  The key frame before the new one stays.
Pushing(n, w, b, list, r, e, q, length, c, kind, o, s, more, end, from) ==
  /\ q \in Nat /\ o \in Nat /\ s \in Cells /\ length \in 1 .. MaxLength
  /\ kind \in {"begins", "continues", "other"}
  /\ \A p \in Cells : /\ ~(Along(w, p) < length) => c[p] = b[p]
                      /\ Along(w, p) < length => (c[p].key <=> kind = "begins" /\ p = w)
  /\ kind = "begins" => q = 0 /\ 1 + o = KeyFrameBuffers /\ MinKey <= length
  /\ (kind = "continues" => q = 1 + o) /\ (kind = "other" => q = o)
  /\ kind = "begins" => s = w
  /\ kind = "continues" => Count(r, e) > 0 /\ s = NewestEntry(list, r, e)
  /\ Count(r, e) = 0 => kind # "other"
  /\ Count(r, e) > 0 => ~(Along(w, NewestEntry(list, r, e)) < length)
  /\ more \in [Entries -> Cells]
  /\ \A i \in Entries : kind = "other" \/ i # e => more[i] = list[i]
  /\ kind # "other" => more[e] = s
  /\ end = IF kind = "other" THEN e ELSE Slot(e, 1)
  /\ IF Count(r, e) = 0 \/ (Count(r, e) = 1 /\ kind = "other") THEN from = r
     ELSE \E k \in 0 .. Count(r, e) - 1 :
            /\ from = Slot(r, k) /\ ~(Along(w, more[Slot(r, k)]) < length)
            /\ \A l \in 0 .. k - 1 : Along(w, more[Slot(r, l)]) < length
LEMMA ListPush ==
  ASSUME cb_len * KeyFrameBuffers < IFRAME_BUFSIZE * MinKey,
         NEW n, NEW w, NEW wrap, NEW b, RingOf(n, w, wrap, b),
         NEW list, NEW r, NEW e, NEW q, ListOf(n, w, b, list, r, e, q),
         NEW length, NEW c, NEW kind, NEW o, NEW s, NEW more, NEW end, NEW from,
         Pushing(n, w, b, list, r, e, q, length, c, kind, o, s, more, end, from),
         NEW m, m = n + length, NEW v, v = (w + length) % cb_len
  PROVE  /\ ListOf(m, v, c, more, from, end, o)
         /\ Count(from, end) > 0
         /\ NewestEntry(more, from, end) = IF kind = "other" THEN NewestEntry(list, r, e) ELSE s
<1> USE DEF Pushing
<1> DEFINE add == kind # "other"
           first == kind = "begins"
           C == Count(r, e)
           D == IF add THEN C + 1 ELSE C
           G(k) == more[Slot(r, k)]
<1> USE DEF NewestEntry
<1>1. /\ n \in Nat /\ w \in Cells /\ b \in [Cells -> [unit : Int, key : BOOLEAN]]
      /\ list \in [Entries -> Cells] /\ r \in Entries /\ e \in Entries
      /\ C \in 0 .. IFRAME_BUFSIZE - 1 /\ Slot(r, C) = e
      /\ length \in Nat /\ 1 <= length /\ length <= cb_len
      /\ m = n + length /\ m \in Nat
  BY CountSlots, RingSizes DEF RingOf, ListOf
<1>2. /\ C \in Nat /\ D \in Nat /\ C <= D /\ D <= C + 1 /\ D <= IFRAME_BUFSIZE /\ D > 0
      /\ C < IFRAME_BUFSIZE
  BY <1>1, RingSizes
<1>3. \A k \in 0 .. IFRAME_BUFSIZE - 1 : Slot(r, k) \in Entries /\ (Slot(r, k) = e => k = C)
  <2>1. 0 .. IFRAME_BUFSIZE - 1 \subseteq 0 .. IFRAME_BUFSIZE
    BY RingSizes
  <2>2. \A k \in 0 .. IFRAME_BUFSIZE - 1 : Slot(r, k) \in Entries
    BY <1>1, <2>1, SlotMoves
  <2>3. \A k \in 0 .. IFRAME_BUFSIZE - 1 : Slot(r, k) = Slot(r, C) => k = C
    <3>1. C \in 0 .. IFRAME_BUFSIZE /\ C < IFRAME_BUFSIZE
      BY <1>1, <2>1, <1>2
    <3>2. QED
      BY <1>1, <3>1, SlotMoves
  <2>4. QED
    BY <1>1, <2>2, <2>3
<1>4. /\ more \in [Entries -> Cells]
      /\ \A k \in 0 .. C - 1 : G(k) = list[Slot(r, k)]
      /\ add => G(C) = s
  <2>1. \A k \in 0 .. C - 1 : k \in 0 .. IFRAME_BUFSIZE - 1 /\ k # C
    BY <1>2, RingSizes
  <2>2. \A k \in 0 .. C - 1 : Slot(r, k) \in Entries /\ Slot(r, k) # e
    BY <1>3, <2>1
  <2>3. QED
    BY <1>1, <2>2
<1>5. end \in Entries /\ Slot(r, D) = end
  <2>1. Slot(Slot(r, C), 1) = Slot(r, C + 1) /\ Slot(r, C + 1) \in Entries
    BY <1>1, <1>2, SlotMoves, RingSizes
  <2>2. QED
    BY <1>1, <2>1
<1> HIDE DEF G, C, D
\* The entries that were there.
<1>6. ASSUME NEW k \in 0 .. C - 1
      PROVE  /\ G(k) \in Cells /\ b[G(k)].key /\ Due(n, w, G(k)) \in Int
             /\ (D - k + o) * MinKey <= KeyFrameBuffers * (m - Due(n, w, G(k)))
             /\ \A l \in 0 .. k : Due(n, w, G(l)) <= Due(n, w, G(k))
             /\ n - cb_len <= Due(n, w, G(k)) /\ Due(n, w, G(k)) < n
             /\ Along(w, G(k)) < length <=> Due(n, w, G(k)) < m - cb_len
             /\ ~(Along(w, G(k)) < length) => Due(m, v, G(k)) = Due(n, w, G(k))
  <2>1. k \in 0 .. IFRAME_BUFSIZE - 1 /\ k \in Nat
    BY <1>2, RingSizes
  <2>2. G(k) = list[Slot(r, k)] /\ G(k) \in Cells
    BY <1>1, <1>3, <1>4, <2>1
  <2>3. \A l \in 0 .. k : G(l) = list[Slot(r, l)]
    BY <1>2, <1>4
  <2>4. /\ b[G(k)].key
        /\ (C - k + q) * MinKey <= KeyFrameBuffers * (n - Due(n, w, G(k)))
        /\ \A l \in 0 .. k : Due(n, w, G(l)) <= Due(n, w, G(k))
    BY <2>2, <2>3 DEF ListOf, C
  <2>5. PICK p \in Cells : p = G(k)
    BY <2>2
  <2>6. /\ Due(n, w, p) \in Int /\ n - cb_len <= Due(n, w, p) /\ Due(n, w, p) < n
        /\ Along(w, p) < length <=> Due(n, w, p) < m - cb_len
        /\ ~(Along(w, p) < length) => Due(m, v, p) = Due(n, w, p)
    BY <1>1, DueMoves
  <2>7. (D - k + o) * MinKey <= KeyFrameBuffers * (m - Due(n, w, G(k)))
    <3>1. PICK a \in Int : a = C - k + q
      BY <1>2, <2>1
    <3>2. PICK x \in Int : x = n - Due(n, w, G(k))
      BY <1>1, <2>5, <2>6
    <3>3. a * MinKey <= KeyFrameBuffers * x
      BY <2>4, <3>1, <3>2
    <3>4. x + length = m - Due(n, w, G(k))
      BY <1>1, <2>5, <2>6, <3>2
    <3>5. CASE first
      <4>1. D - k + o = a + KeyFrameBuffers /\ MinKey <= length
        BY <1>2, <2>1, <3>1, <3>5, RingSizes DEF D
      <4>2. (a + KeyFrameBuffers) * MinKey <= KeyFrameBuffers * (x + length)
        BY <1>1, <3>3, <4>1, Weights
      <4>3. QED
        BY <3>4, <4>1, <4>2
    <3>6. CASE ~first
      <4>1. D - k + o = a
        BY <1>2, <2>1, <3>1, <3>6 DEF D
      <4>2. a * MinKey <= KeyFrameBuffers * (x + length)
        BY <1>1, <3>3, Weights
      <4>3. QED
        BY <3>4, <4>1, <4>2
    <3>7. QED
      BY <3>5, <3>6
  <2>8. QED
    BY <2>2, <2>4, <2>5, <2>6, <2>7
\* How many are dropped.
<1>7. PICK z \in Nat :
        /\ from = Slot(r, z) /\ (z = 0 \/ z <= C - 1)
        /\ \A l \in 0 .. z - 1 : Along(w, G(l)) < length
        /\ \A l \in z .. C - 1 : ~(Along(w, G(l)) < length)
  <2>1. C > 0 => ~(Along(w, G(C - 1)) < length)
    <3>1. C > 0 => G(C - 1) = list[Slot(r, C - 1)]
      BY <1>2, <1>4
    <3>2. QED
      BY <3>1 DEF C
  <2>2. CASE C = 0 \/ (C = 1 /\ ~add)
    <3>1. from = Slot(r, 0)
      BY <1>1, <2>2, SlotMoves, RingSizes DEF C
    <3>2. QED
      BY <2>1, <2>2, <3>1
  <2>3. CASE ~(C = 0 \/ (C = 1 /\ ~add))
    <3>1. PICK k \in 0 .. C - 1 :
            /\ from = Slot(r, k) /\ ~(Along(w, G(k)) < length)
            /\ \A l \in 0 .. k - 1 : Along(w, G(l)) < length
      BY <2>3 DEF C, G
    <3>2. ASSUME NEW l \in k .. C - 1 PROVE ~(Along(w, G(l)) < length)
      <4>1. l \in 0 .. C - 1 /\ k \in 0 .. l
        BY <1>2
      <4>2. Due(n, w, G(k)) <= Due(n, w, G(l)) /\ ~(Due(n, w, G(k)) < m - cb_len)
            /\ Due(n, w, G(k)) \in Int /\ Due(n, w, G(l)) \in Int
        BY <1>6, <3>1, <4>1
      <4>3. m - cb_len \in Int
        BY <1>1, RingSizes
      <4>4. ~(Due(n, w, G(l)) < m - cb_len)
        BY <4>2, <4>3
      <4>5. QED
        BY <1>6, <4>1, <4>4
    <3>3. k \in Nat /\ k <= C - 1
      BY <1>2
    <3>4. QED
      BY <3>1, <3>2, <3>3
  <2>4. QED
    BY <2>2, <2>3
<1>8. D - z < IFRAME_BUFSIZE /\ D - z > 0 /\ z <= C
  <2>1. CASE z > 0
    BY <1>2, <1>7, <2>1, RingSizes
  <2>2. CASE z = 0 /\ C < IFRAME_BUFSIZE - 1
    BY <1>2, <2>2, RingSizes
  <2>3. CASE z = 0 /\ C = IFRAME_BUFSIZE - 1
    <3>1. CASE D < IFRAME_BUFSIZE
      BY <1>2, <2>3, <3>1
    <3>2. CASE D = IFRAME_BUFSIZE
      <4>1. IFRAME_BUFSIZE >= 2
        BY RoomForTwo
      <4>2. 0 \in 0 .. C - 1 /\ 0 \in z .. C - 1
        BY <1>1, <1>2, <2>3, <4>1, RingSizes
      <4>3. /\ (D - 0 + o) * MinKey <= KeyFrameBuffers * (m - Due(n, w, G(0)))
            /\ ~(Due(n, w, G(0)) < m - cb_len) /\ Due(n, w, G(0)) < n
            /\ Due(n, w, G(0)) \in Int
        BY <1>6, <1>7, <4>2
      <4>4. PICK x \in Nat : x = m - Due(n, w, G(0))
        BY <1>1, <4>3
      <4>5. x <= cb_len /\ (D + o) * MinKey <= KeyFrameBuffers * x
        BY <1>1, <1>2, <4>3, <4>4, RingSizes
      <4>6. x * KeyFrameBuffers <= cb_len * KeyFrameBuffers
        BY <4>5, RingSizes, Multiples
      <4>7. IFRAME_BUFSIZE * MinKey <= (D + o) * MinKey
        BY <1>2, <3>2, RingSizes, Multiples
      <4>8. KeyFrameBuffers * x = x * KeyFrameBuffers
        BY RingSizes
      <4>9. FALSE
        <5> DEFINE p1 == IFRAME_BUFSIZE * MinKey
                   p2 == (D + o) * MinKey
                   p3 == KeyFrameBuffers * x
                   p4 == cb_len * KeyFrameBuffers
        <5>1. p1 \in Int /\ p2 \in Int /\ p3 \in Int /\ p4 \in Int
          BY <1>2, RingSizes
        <5>2. p1 <= p2 /\ p2 <= p3 /\ p3 <= p4 /\ p4 < p1
          BY <4>5, <4>6, <4>7, <4>8
        <5> HIDE DEF p1, p2, p3, p4
        <5>3. QED
          BY <5>1, <5>2
      <4>10. QED
        BY <4>9
    <3>3. QED
      BY <1>2, <3>1, <3>2, RingSizes
  <2>4. QED
    BY <1>2, <1>7, <2>1, <2>2, <2>3, RingSizes
<1>9. /\ from \in Entries /\ Count(from, end) = D - z
      /\ \A j \in 0 .. D - z - 1 : Slot(from, j) = Slot(r, z + j)
  <2>1. z \in 0 .. IFRAME_BUFSIZE
    BY <1>2, <1>8, RingSizes
  <2>2. \A j \in 0 .. D - z : j \in 0 .. IFRAME_BUFSIZE /\ z + j <= IFRAME_BUFSIZE
    BY <1>2, <1>8, RingSizes
  <2>3. from \in Entries /\ \A j \in 0 .. D - z : Slot(from, j) = Slot(r, z + j)
    <3>1. from \in Entries
      BY <1>1, <1>7, <2>1, SlotMoves
    <3>2. \A j \in 0 .. IFRAME_BUFSIZE : z + j <= IFRAME_BUFSIZE =>
            Slot(Slot(r, z), j) = Slot(r, z + j)
      BY <1>1, <2>1, SlotMoves
    <3>3. QED
      BY <1>7, <2>2, <3>1, <3>2
  <2>4. Slot(from, D - z) = Slot(r, D) /\ D - z \in 0 .. IFRAME_BUFSIZE
    <3>1. D - z \in 0 .. D - z /\ z + (D - z) = D
      BY <1>2, <1>8
    <3>2. QED
      BY <2>2, <2>3, <3>1
  <2>5. Count(from, end) = D - z
    BY <1>5, <1>8, <2>3, <2>4, SlotMoves
  <2>6. \A j \in 0 .. D - z - 1 : j \in 0 .. D - z
    BY <1>2, <1>8
  <2>7. QED
    BY <2>3, <2>5, <2>6
\* The entries that are there now.
<1> DEFINE Now(j) == more[Slot(from, j)]
<1>10. ASSUME NEW j \in 0 .. D - z - 1
       PROVE  /\ Now(j) = G(z + j) /\ Now(j) \in Cells /\ Due(m, v, Now(j)) \in Int
              /\ z + j < C \/ (add /\ z + j = C)
              /\ c[Now(j)].key
              /\ (D - z - j + o) * MinKey <= KeyFrameBuffers * (m - Due(m, v, Now(j)))
              /\ z + j < C => /\ Due(m, v, Now(j)) = Due(n, w, G(z + j))
                              /\ z + j \in z .. C - 1 /\ z + j \in 0 .. C - 1
              /\ ~(z + j < C) =>
                   /\ first => Due(m, v, Now(j)) = n
                   /\ ~first => C > 0 /\ Due(m, v, Now(j)) = Due(n, w, G(C - 1))
  <2>1. Now(j) = G(z + j)
    BY <1>9 DEF G
  <2> HIDE DEF Now
  <2>2. z + j < C \/ (add /\ z + j = C)
    <3>1. z + j \in Nat /\ z + j < D
      BY <1>2, <1>8
    <3>2. CASE add
      BY <1>2, <3>1, <3>2 DEF D
    <3>3. CASE ~add
      BY <3>1, <3>3 DEF D
    <3>4. QED
      BY <3>2, <3>3
  <2>3. CASE z + j < C
    <3>1. z + j \in z .. C - 1 /\ z + j \in 0 .. C - 1
      BY <1>2, <2>3
    <3>2. /\ G(z + j) \in Cells /\ b[G(z + j)].key /\ Due(n, w, G(z + j)) \in Int
          /\ (D - (z + j) + o) * MinKey <= KeyFrameBuffers * (m - Due(n, w, G(z + j)))
          /\ ~(Along(w, G(z + j)) < length)
          /\ Due(m, v, G(z + j)) = Due(n, w, G(z + j))
      BY <1>6, <1>7, <3>1
    <3>3. c[G(z + j)].key
      BY <3>2
    <3>4. (D - z - j + o) * MinKey <= KeyFrameBuffers * (m - Due(n, w, G(z + j)))
      <4>1. D - z - j + o = D - (z + j) + o
        BY <1>2
      <4>2. QED
        BY <3>2, <4>1
    <3>5. QED
      BY <2>1, <2>3, <3>1, <3>2, <3>3, <3>4
  <2>4. CASE ~(z + j < C)
    <3>1. add /\ z + j = C /\ Now(j) = s /\ D = C + 1
      BY <1>4, <2>1, <2>2, <2>4 DEF D
    <3>2. D - z - j = 1
      BY <1>2, <3>1
    <3>3. CASE first
      <4>1. s = w /\ Along(w, w) < length /\ Due(m, v, w) = n
        <5>1. s = w /\ Along(w, w) = 0
          BY <1>1, <3>3, AlongInside
        <5>2. Due(m, v, w) = n
          BY <1>1, DueMoves
        <5>3. QED
          BY <1>1, <3>3, <5>1, <5>2
      <4>2. c[w].key
        BY <1>1, <3>3, <4>1
      <4>3. (D - z - j + o) * MinKey <= KeyFrameBuffers * (m - n)
        <5>0. 1 + o = KeyFrameBuffers /\ MinKey <= length
          BY <3>3
        <5>1. D - z - j + o = KeyFrameBuffers /\ m - n = length
          BY <1>1, <3>2, <5>0
        <5>2. 0 * MinKey <= KeyFrameBuffers * 0 /\ MinKey <= length
          BY <5>0, RingSizes
        <5>3. KeyFrameBuffers * MinKey <= KeyFrameBuffers * length
          BY <1>1, <5>2, Weights
        <5>4. QED
          BY <5>1, <5>3
      <4>5. Now(j) = w /\ Due(m, v, Now(j)) = n /\ n \in Int
        BY <1>1, <3>1, <4>1
      <4>6. (D - z - j + o) * MinKey <= KeyFrameBuffers * (m - Due(m, v, Now(j)))
        BY <4>3, <4>5
      <4>4. QED
        BY <1>1, <2>1, <2>4, <3>1, <3>3, <4>2, <4>5, <4>6
    <3>4. CASE ~first
      <4>1. C > 0 /\ C - 1 \in 0 .. C - 1 /\ C - 1 \in z .. C - 1
        BY <1>2, <1>7, <3>1, <3>4 DEF C
      <4>2. s = G(C - 1)
        BY <1>4, <3>1, <3>4, <4>1 DEF C
      <4>3. /\ G(C - 1) \in Cells /\ b[G(C - 1)].key /\ Due(n, w, G(C - 1)) \in Int
            /\ (D - (C - 1) + o) * MinKey
                 <= KeyFrameBuffers * (m - Due(n, w, G(C - 1)))
            /\ ~(Along(w, G(C - 1)) < length)
            /\ Due(m, v, G(C - 1)) = Due(n, w, G(C - 1))
        BY <1>6, <1>7, <4>1
      <4>4. c[G(C - 1)].key
        BY <4>3
      <4>5. (D - z - j + o) * MinKey <= KeyFrameBuffers * (m - Due(n, w, G(C - 1)))
        <5>1. D - z - j + o = 1 + o /\ D - (C - 1) + o = 2 + o
          BY <1>2, <3>1, <3>2
        <5>2. (1 + o) * MinKey <= (2 + o) * MinKey
          BY RingSizes, Multiples
        <5> DEFINE p1 == (1 + o) * MinKey
                   p2 == (2 + o) * MinKey
                   p3 == KeyFrameBuffers * (m - Due(n, w, G(C - 1)))
        <5>3. p1 \in Int /\ p2 \in Int /\ p3 \in Int
          BY <1>1, <4>3, RingSizes
        <5>4. p1 <= p2 /\ p2 <= p3
          BY <4>3, <5>1, <5>2
        <5> HIDE DEF p1, p2, p3
        <5>5. p1 <= p3
          BY <5>3, <5>4
        <5>6. QED
          BY <5>1, <5>5 DEF p1, p3
      <4>6. QED
        BY <2>1, <2>4, <3>1, <3>4, <4>1, <4>2, <4>3, <4>4, <4>5
    <3>5. QED
      BY <3>3, <3>4
  <2>5. QED
    BY <2>3, <2>4
<1>11. ASSUME NEW j \in 0 .. D - z - 1, NEW i \in 0 .. j
       PROVE  Due(m, v, Now(i)) <= Due(m, v, Now(j))
  <2>1. i \in 0 .. D - z - 1 /\ z + i <= z + j /\ i \in Nat /\ j \in Nat
    BY <1>2, <1>8
  <2> HIDE DEF Now
  <2>2. CASE z + j < C
    <3>1. z + i < C /\ z + i \in 0 .. z + j
      BY <1>2, <2>1, <2>2
    <3>2. QED
      BY <1>6, <1>10, <2>1, <2>2, <3>1
  <2>3. CASE ~(z + j < C) /\ ~(z + i < C)
    <3>1. z + i = z + j
      BY <1>10, <2>1, <2>3
    <3>2. i = j
      BY <2>1, <3>1
    <3>3. QED
      BY <1>10, <3>2
  <2>4. CASE ~(z + j < C) /\ z + i < C
    <3>1. /\ z + i \in 0 .. C - 1 /\ Due(m, v, Now(i)) = Due(n, w, G(z + i))
          /\ Due(n, w, G(z + i)) < n /\ Due(n, w, G(z + i)) \in Int
      BY <1>6, <1>10, <2>1, <2>4
    <3>2. CASE first
      BY <1>1, <1>10, <2>4, <3>1, <3>2
    <3>3. CASE ~first
      <4>1. C > 0 /\ Due(m, v, Now(j)) = Due(n, w, G(C - 1))
        BY <1>10, <2>4, <3>3
      <4>2. C - 1 \in 0 .. C - 1 /\ z + i \in 0 .. C - 1
        BY <1>2, <3>1, <4>1
      <4>3. Due(n, w, G(z + i)) <= Due(n, w, G(C - 1))
        BY <1>6, <4>2
      <4>4. QED
        BY <3>1, <4>1, <4>3
    <3>4. QED
      BY <3>2, <3>3
  <2>5. QED
    BY <2>2, <2>3, <2>4
<1>12. ASSUME NEW p \in Cells, c[p].key PROVE \E j \in 0 .. D - z - 1 : Now(j) = p
  <2>1. CASE Along(w, p) < length
    <3>1. first /\ p = w /\ add /\ s = w
      BY <2>1, <1>12
    <3>2. D = C + 1 /\ C - z \in 0 .. D - z - 1 /\ z + (C - z) = C
      BY <1>2, <1>8, <3>1 DEF D
    <3>3. Now(C - z) = G(C)
      BY <1>10, <3>2
    <3>4. QED
      BY <1>4, <3>1, <3>2, <3>3
  <2>2. CASE ~(Along(w, p) < length)
    <3>1. b[p].key
      BY <1>12, <2>2
    <3>2. PICK k \in 0 .. C - 1 : list[Slot(r, k)] = p
      BY <3>1 DEF ListOf, C
    <3>3. G(k) = p /\ k \in Nat /\ k < C
      BY <1>2, <1>4, <3>2
    <3>4. ~(k \in 0 .. z - 1)
      BY <1>7, <2>2, <3>3
    <3>5. k - z \in 0 .. D - z - 1 /\ z + (k - z) = k
      BY <1>2, <3>3, <3>4
    <3>6. Now(k - z) = G(k)
      BY <1>10, <3>5
    <3>7. QED
      BY <3>3, <3>5, <3>6
  <2>3. QED
    BY <2>1, <2>2
<1>13. ListOf(m, v, c, more, from, end, o)
  BY <1>4, <1>5, <1>9, <1>10, <1>11, <1>12 DEF ListOf
<1>14. Now(D - z - 1) = IF add THEN s ELSE list[Slot(r, C - 1)]
  <2>1. D - z - 1 \in 0 .. D - z - 1 /\ z + (D - z - 1) = D - 1
    BY <1>2, <1>8
  <2>2. Now(D - z - 1) = G(D - 1)
    BY <1>10, <2>1
  <2>3. add => D - 1 = C
    BY <1>2 DEF D
  <2>4. ~add => D = C /\ C - 1 \in 0 .. C - 1
    BY <1>2 DEF D
  <2>5. QED
    BY <1>4, <2>2, <2>3, <2>4
<1>15. Count(from, end) > 0 /\ Count(from, end) - 1 = D - z - 1
  BY <1>8, <1>9
<1>16. QED
  BY <1>13, <1>14, <1>15 DEF C

\* Where in the frames the encoder is.
EndsFrame(f, k) == k + 1 = (IF f = 0 THEN KeyFrameBuffers ELSE 1)
LEMMA FrameMoves ==
  ASSUME NEW f \in 0 .. frames_per_key - 1, NEW k \in 0 .. KeyFrameBuffers - 1, f > 0 => k = 0,
         NEW g, g = (IF EndsFrame(f, k) THEN (f + 1) % frames_per_key ELSE f),
         NEW j, j = (IF EndsFrame(f, k) THEN 0 ELSE k + 1)
  PROVE  /\ g \in 0 .. frames_per_key - 1 /\ j \in 0 .. KeyFrameBuffers - 1 /\ (g > 0 => j = 0)
         /\ (j = 0 <=> EndsFrame(f, k)) /\ (~EndsFrame(f, k) => f = 0)
         /\ Since(f, k) \in Nat /\ Since(f, k) + 1 <= KeyFrameBuffers + frames_per_key
         /\ Since(g, j) = IF f = 0 /\ k = 0 THEN 1 ELSE Since(f, k) + 1
<1>1. /\ f \in Nat /\ f < frames_per_key /\ k \in Nat /\ k < KeyFrameBuffers
      /\ frames_per_key \in Nat /\ frames_per_key >= 1
      /\ KeyFrameBuffers \in Nat /\ KeyFrameBuffers >= 1
  BY RingSizes
<1>2. (f + 1) % frames_per_key = IF f + 1 < frames_per_key THEN f + 1 ELSE 0
  <2>1. PICK a \in -frames_per_key .. 2 * frames_per_key - 1 : a = f + 1
    BY <1>1
  <2>0. frames_per_key \in Nat \ {0}
    BY <1>1
  <2>2. a % frames_per_key = IF a < 0 THEN a + frames_per_key
                             ELSE IF a < frames_per_key THEN a ELSE a - frames_per_key
    BY <2>0, Remainder
  <2>3. (f + 1) % frames_per_key = a % frames_per_key
    BY <2>1, Zenon
  <2>4. a % frames_per_key = IF f + 1 < frames_per_key THEN f + 1 ELSE 0
    BY <1>1, <2>1, <2>2
  <2>5. QED
    BY <2>3, <2>4, Zenon
<1> DEFINE h == (f + 1) % frames_per_key
<1>3. g = (IF EndsFrame(f, k) THEN h ELSE f) /\ h = IF f + 1 < frames_per_key THEN f + 1 ELSE 0
  BY <1>2
<1> HIDE DEF h
<1>4. CASE f = 0
  BY <1>1, <1>3, <1>4 DEF Since, EndsFrame
<1>5. CASE f > 0
  BY <1>1, <1>3, <1>5 DEF Since, EndsFrame
<1>6. QED
  BY <1>1, <1>4, <1>5

LEMMA RingPush == ASSUME RoomForKeys, RingInv, Push PROVE RingInv'
<1> DEFINE n == pushed
           w == cb_wptr
           b == cb_buff
           list == iframe_buff
           r == iframe_buff_rpos
           e == iframe_buff_wpos
           add == frame = 0
           first == frame = 0 /\ parts = 0
           last == EndsFrame(frame, parts)
           s == FrameStart
           newest == NewestEntry(list, r, e)
           C == Count(r, e)
           entries == IF add THEN [list EXCEPT ![e] = s] ELSE list
           wpos == IF add THEN After(e) ELSE e
<1>1. PICK length \in Lengths :
        /\ iframe_buff' = entries /\ iframe_buff_wpos' = wpos
        /\ frame_start' = IF last THEN -1 ELSE s
        /\ MoveReadPosition(entries, wpos, length)
        /\ Put(length, first)
        /\ pushed' = n + length
        /\ parts' = IF last THEN 0 ELSE parts + 1
        /\ frame' = IF last THEN (frame + 1) % frames_per_key ELSE frame
  BY DEF Push, EndsFrame
<1>0. length \in 1 .. MaxLength /\ (first => MinKey <= length)
  BY RingSizes DEF Lengths
<1>2. /\ RingOf(n, w, cb_wrap, b) /\ ListOf(n, w, b, list, r, e, Pending(frame, parts))
      /\ FrameOf(n, w, list, r, e, frame, parts, frame_start)
  BY DEF RingInv
<1>3. /\ n \in Nat /\ w \in Cells /\ list \in [Entries -> Cells] /\ r \in Entries /\ e \in Entries
      /\ C \in Nat /\ C < IFRAME_BUFSIZE /\ Slot(r, C) = e /\ add \in BOOLEAN /\ first \in BOOLEAN
      /\ last \in BOOLEAN /\ length \in Nat /\ 1 <= length /\ length <= MaxLength
  BY <1>0, <1>2, CountSlots, RingSizes DEF RingOf, ListOf, EndsFrame
<1>4. /\ frame \in 0 .. frames_per_key - 1 /\ parts \in 0 .. KeyFrameBuffers - 1
      /\ frame > 0 => parts = 0
      /\ n = 0 => C = 0 /\ frame = 0 /\ parts = 0
      /\ n > 0 => C > 0 /\ n - Due(n, w, newest) <= Since(frame, parts) * MaxLength
      /\ parts = 0 => frame_start = -1
      /\ parts > 0 => frame_start = newest
  BY <1>2 DEF FrameOf
<1>5. /\ frame' \in 0 .. frames_per_key - 1 /\ parts' \in 0 .. KeyFrameBuffers - 1
      /\ frame' > 0 => parts' = 0
      /\ (parts' = 0 <=> last) /\ (~last => add)
      /\ Since(frame, parts) \in Nat
      /\ Since(frame, parts) + 1 <= KeyFrameBuffers + frames_per_key
      /\ Since(frame', parts') = IF first THEN 1 ELSE Since(frame, parts) + 1
  <2>1. PICK g, j : g = frame' /\ j = parts'
    OBVIOUS
  <2>2. g = (IF last THEN (frame + 1) % frames_per_key ELSE frame)
        /\ j = (IF last THEN 0 ELSE parts + 1)
    BY <1>1, <2>1
  <2>3. /\ g \in 0 .. frames_per_key - 1 /\ j \in 0 .. KeyFrameBuffers - 1 /\ (g > 0 => j = 0)
        /\ (j = 0 <=> last) /\ (~last => frame = 0)
        /\ Since(frame, parts) \in Nat
        /\ Since(frame, parts) + 1 <= KeyFrameBuffers + frames_per_key
        /\ Since(g, j) = IF frame = 0 /\ parts = 0 THEN 1 ELSE Since(frame, parts) + 1
    BY <1>4, <2>2, FrameMoves
  <2>4. QED
    BY <2>1, <2>3
<1>6. C > 0 => newest \in Cells /\ ~(Along(w, newest) < length)
  <2> SUFFICES ASSUME C > 0 PROVE newest \in Cells /\ ~(Along(w, newest) < length)
    OBVIOUS
  <2>1. n > 0
    BY <1>3, <1>4
  <2>2. newest \in Cells
    <3>1. C - 1 \in 0 .. IFRAME_BUFSIZE
      BY <1>3, RingSizes
    <3>2. Slot(r, C - 1) \in Entries
      BY <1>3, <3>1, SlotMoves
    <3>3. QED
      BY <1>3, <3>2 DEF NewestEntry
  <2>3. Since(frame, parts) * MaxLength + MaxLength <= cb_len
        /\ Since(frame, parts) * MaxLength \in Nat
    <3>1. (Since(frame, parts) + 1) * MaxLength
            <= (KeyFrameBuffers + frames_per_key) * MaxLength
      BY <1>5, RingSizes, Multiples
    <3>2. (Since(frame, parts) + 1) * MaxLength
            = Since(frame, parts) * MaxLength + MaxLength
          /\ Since(frame, parts) * MaxLength \in Nat
      BY <1>5, RingSizes, Multiples
    <3>3. (KeyFrameBuffers + frames_per_key) * MaxLength <= cb_len
      BY DEF RoomForKeys
    <3>4. (KeyFrameBuffers + frames_per_key) * MaxLength \in Nat
      BY RingSizes
    <3>5. QED
      BY <3>1, <3>2, <3>3, <3>4, RingSizes
  <2>4. PICK d \in Nat : d = Since(frame, parts) * MaxLength
    BY <2>3
  <2>5. n - Due(n, w, newest) <= d /\ d + MaxLength <= cb_len
    BY <1>4, <2>1, <2>3, <2>4
  <2>6. Along(w, newest) \in Nat /\ Due(n, w, newest) = n - cb_len + Along(w, newest)
    BY <1>3, <2>2, AlongInside DEF Due
  <2>7. QED
    BY <1>3, <2>2, <2>5, <2>6, RingSizes
<1>7. /\ s \in Cells /\ (first => s = w) /\ (add /\ ~first => C > 0 /\ s = newest)
  <2>1. CASE parts = 0
    BY <1>3, <1>4, <2>1 DEF FrameStart
  <2>2. CASE parts > 0
    <3>1. n > 0 /\ C > 0
      BY <1>3, <1>4, <2>2
    <3>2. frame_start = newest /\ newest \in Cells /\ frame_start # -1
      BY <1>4, <1>6, <2>2, <3>1, RingSizes DEF Cells
    <3>3. QED
      BY <2>2, <3>1, <3>2 DEF FrameStart
  <2>3. QED
    BY <1>4, <2>1, <2>2
<1>8. C = 0 => add
  BY <1>3, <1>4
<1>9. wpos = IF add THEN Slot(e, 1) ELSE e
  BY <1>3, IndexSlots
<1>10. After(r) = wpos <=> C = 0 \/ (C = 1 /\ ~add)
  <2>1. After(r) = Slot(r, 1)
    BY <1>3, IndexSlots
  <2>2. IFRAME_BUFSIZE >= 2 /\ IFRAME_BUFSIZE \in Nat
    BY RingSizes, RoomForTwo DEF RoomForKeys
  <2>3. r \in Int /\ 0 <= r /\ r < IFRAME_BUFSIZE
    BY <1>3, RingSizes DEF Entries
  <2>4. CASE add
    <3>1. wpos = Slot(Slot(r, C), 1)
      BY <1>3, <1>9, <2>4
    <3>2. Slot(r, 1) = Slot(Slot(r, C), 1) <=> C = 0
      BY <1>3, <2>2, <2>3 DEF Slot
    <3>3. QED
      BY <1>3, <2>1, <2>4, <3>1, <3>2
  <2>5. CASE ~add
    <3>1. wpos = Slot(r, C)
      BY <1>3, <1>9, <2>5
    <3>2. Slot(r, 1) = Slot(r, C) <=> C = 1
      BY <1>3, <2>2, <2>3 DEF Slot
    <3>3. QED
      BY <1>3, <1>8, <2>1, <2>5, <3>1, <3>2
  <2>6. QED
    BY <2>4, <2>5
<1> HIDE DEF add, first, last, s, newest, C, entries, wpos
<1>11. entries \in [Entries -> Cells] /\ (C > 0 => entries[Slot(r, C - 1)] = newest)
  <2>1. entries = IF add THEN [list EXCEPT ![e] = s] ELSE list
    BY DEF entries
  <2>2. C > 0 => Slot(r, C - 1) \in Entries /\ Slot(r, C - 1) # Slot(r, C)
    <3> SUFFICES ASSUME C > 0 PROVE Slot(r, C - 1) \in Entries /\ Slot(r, C - 1) # Slot(r, C)
      OBVIOUS
    <3>1. C - 1 \in 0 .. IFRAME_BUFSIZE /\ C \in 0 .. IFRAME_BUFSIZE
          /\ C - 1 \in 0 .. IFRAME_BUFSIZE - 1 /\ C - 1 # C
      BY <1>3, RingSizes
    <3>2. QED
      BY <1>3, <3>1, SlotMoves
  <2>3. newest = list[Slot(r, C - 1)]
    BY DEF newest, C, NewestEntry
  <2>4. entries \in [Entries -> Cells]
    BY <1>3, <1>7, <2>1
  <2>5. C > 0 => entries[Slot(r, C - 1)] = list[Slot(r, C - 1)]
    BY <1>3, <2>1, <2>2
  <2>6. QED
    BY <2>3, <2>4, <2>5
<1>12. PICK from : from = iframe_buff_rpos'
  OBVIOUS
<1>13. IF C = 0 \/ (C = 1 /\ ~add) THEN from = r
       ELSE \E k \in 0 .. C - 1 :
              /\ from = Slot(r, k) /\ ~(Along(w, entries[Slot(r, k)]) < length)
              /\ \A l \in 0 .. k - 1 : Along(w, entries[Slot(r, l)]) < length
  <2>1. from = IF After(r) = wpos THEN r ELSE FirstKept(entries, r, length)
    BY <1>1, <1>12 DEF MoveReadPosition
  <2>2. CASE After(r) = wpos
    BY <1>10, <2>1, <2>2
  <2>3. CASE After(r) # wpos
    <3>1. C > 0 /\ C - 1 \in Entries /\ ~(C = 0 \/ (C = 1 /\ ~add))
      BY <1>3, <1>10, <2>3, RingSizes DEF Entries
    <3>2. ~(Along(w, entries[Slot(r, C - 1)]) < length)
      BY <1>6, <1>11, <3>1
    <3>3. \E k \in 0 .. C - 1 :
            /\ FirstKept(entries, r, length) = Slot(r, k)
            /\ ~(Along(w, entries[Slot(r, k)]) < length)
            /\ \A l \in 0 .. k - 1 : Along(w, entries[Slot(r, l)]) < length
      BY <1>3, <1>11, <3>1, <3>2, SearchEnds
    <3>4. QED
      BY <2>1, <2>3, <3>1, <3>3
  <2>4. QED
    BY <2>2, <2>3
<1>14. PICK c : c = cb_buff'
  OBVIOUS
<1>15. PICK v : v = (w + length) % cb_len
  OBVIOUS
<1>16. PICK wrap : wrap = (cb_wrap \/ w + length > cb_len)
  OBVIOUS
<1>17. PICK m \in Nat : m = n + length
  BY <1>3
<1>18. /\ RingOf(m, v, wrap, c)
       /\ \A p \in Cells : /\ ~(Along(w, p) < length) => c[p] = b[p]
                           /\ Along(w, p) < length => (c[p].key <=> first /\ p = w)
  <2>1. c = Overwritten(n, w, b, length, first)
    BY <1>1, <1>14 DEF Put, Overwritten, Cells
  <2>2. n = 0 => first
    BY <1>4 DEF first
  <2>3. QED
    BY <1>2, <1>3, <1>15, <1>16, <1>17, <2>1, <2>2, RingPut
<1>19. PICK end : end = iframe_buff_wpos'
  OBVIOUS
<1>20. /\ ListOf(m, v, c, entries, from, end, Pending(frame', parts'))
       /\ Count(from, end) > 0
       /\ NewestEntry(entries, from, end) = IF add THEN s ELSE newest
  <2>1. first => add
    BY DEF first, add
  <2>2. entries = (IF add THEN [list EXCEPT ![e] = s] ELSE list)
        /\ end = (IF add THEN Slot(e, 1) ELSE e)
    BY <1>1, <1>9, <1>19 DEF entries
  <2>3. cb_len * KeyFrameBuffers < IFRAME_BUFSIZE * MinKey
    BY DEF RoomForKeys
  <2>16. \A f, k : k \in 0 .. KeyFrameBuffers - 1 => Pending(f, k) \in Nat
    BY RingSizes DEF Pending
  <2>11. PICK q \in Nat : q = Pending(frame, parts)
    BY <1>4, <2>16
  <2>12. PICK o \in Nat : o = Pending(frame', parts')
    BY <1>5, <2>16
  <2>13. /\ first => q = 0 /\ 1 + o = KeyFrameBuffers /\ MinKey <= length
         /\ add /\ ~first => q = 1 + o
         /\ ~add => q = o
    <3>1. parts \in Nat /\ parts < KeyFrameBuffers /\ frame \in Nat
      BY <1>4, RingSizes
    <3>2. /\ last <=> parts + 1 = (IF frame = 0 THEN KeyFrameBuffers ELSE 1)
          /\ last => parts' = 0
          /\ ~last => parts' = parts + 1 /\ frame' = frame
      BY <1>1 DEF last, EndsFrame
    <3>3. q = IF frame = 0 /\ parts > 0 THEN KeyFrameBuffers - parts ELSE 0
      BY <2>11 DEF Pending
    <3>4. o = IF frame' = 0 /\ parts' > 0 THEN KeyFrameBuffers - parts' ELSE 0
      BY <2>12 DEF Pending
    <3>5. CASE first
      BY <1>0, <3>1, <3>2, <3>3, <3>4, <3>5, RingSizes DEF first, add
    <3>6. CASE add /\ ~first
      BY <3>1, <3>2, <3>3, <3>4, <3>6, RingSizes DEF first, add
    <3>7. CASE ~add
      BY <1>4, <3>1, <3>2, <3>3, <3>4, <3>7, RingSizes DEF first, add
    <3>8. QED
      BY <3>5, <3>6, <3>7 DEF first, add
  <2>4. IF Count(r, e) = 0 \/ (Count(r, e) = 1 /\ ~add) THEN from = r
        ELSE \E k \in 0 .. Count(r, e) - 1 :
              /\ from = Slot(r, k) /\ ~(Along(w, entries[Slot(r, k)]) < length)
              /\ \A l \in 0 .. k - 1 : Along(w, entries[Slot(r, l)]) < length
    BY <1>13 DEF C
  <2>5. /\ add /\ ~first => Count(r, e) > 0 /\ s = NewestEntry(list, r, e)
        /\ Count(r, e) = 0 => add
        /\ Count(r, e) > 0 => ~(Along(w, NewestEntry(list, r, e)) < length)
    BY <1>6, <1>7, <1>8 DEF C, newest
  <2>6. PICK kind \in {"begins", "continues", "other"} :
          (kind = "begins" <=> first) /\ (kind = "other" <=> ~add)
    BY <2>1
  <2>7. PICK x \in Cells : x = s
    BY <1>7
  <2>8. /\ kind = "begins" => x = w
        /\ entries \in [Entries -> Cells]
        /\ \A i \in Entries : kind = "other" \/ i # e => entries[i] = list[i]
        /\ kind # "other" => entries[e] = x
        /\ end = (IF kind = "other" THEN e ELSE Slot(e, 1))
        /\ IF Count(r, e) = 0 \/ (Count(r, e) = 1 /\ kind = "other") THEN from = r
           ELSE \E k \in 0 .. Count(r, e) - 1 :
                 /\ from = Slot(r, k) /\ ~(Along(w, entries[Slot(r, k)]) < length)
                 /\ \A l \in 0 .. k - 1 : Along(w, entries[Slot(r, l)]) < length
        /\ kind = "continues" => Count(r, e) > 0 /\ x = NewestEntry(list, r, e)
        /\ Count(r, e) = 0 => kind # "other"
        /\ \A p \in Cells :
             /\ ~(Along(w, p) < length) => c[p] = b[p]
             /\ Along(w, p) < length => (c[p].key <=> kind = "begins" /\ p = w)
    BY <1>3, <1>7, <1>11, <1>18, <2>1, <2>2, <2>4, <2>5, <2>6, <2>7
  <2>14. ListOf(n, w, b, list, r, e, q)
    BY <1>2, <2>11
  <2>15. /\ kind = "begins" => q = 0 /\ 1 + o = KeyFrameBuffers /\ MinKey <= length
         /\ kind = "continues" => q = 1 + o
         /\ kind = "other" => q = o
    BY <2>6, <2>13
  <2>9. /\ ListOf(m, v, c, entries, from, end, o) /\ Count(from, end) > 0
        /\ NewestEntry(entries, from, end) =
             IF kind = "other" THEN NewestEntry(list, r, e) ELSE x
    <3>1. RingOf(n, w, cb_wrap, b) /\ m = n + length /\ v = (w + length) % cb_len
      BY <1>2, <1>15, <1>17
    <3>2. Pushing(n, w, b, list, r, e, q, length, c, kind, o, x, entries, end, from)
      <4>1. length \in 1 .. MaxLength /\ kind \in {"begins", "continues", "other"}
        BY <1>0
      <4>2. Count(r, e) > 0 => ~(Along(w, NewestEntry(list, r, e)) < length)
        BY <2>5
      <4> HIDE DEF n, w, b, list, r, e, Pending
      <4>3. QED
        BY <2>8, <2>11, <2>12, <2>15, <4>1, <4>2 DEF Pushing
    <3> HIDE DEF n, w, b, list, r, e, Pending
    <3>3. QED
      BY <2>3, <2>14, <3>1, <3>2, ListPush
  <2>10. QED
    BY <2>6, <2>7, <2>9, <2>12 DEF newest
<1>21. cb_wptr' = v /\ cb_wrap' = wrap /\ pushed' = m /\ iframe_buff' = entries
  BY <1>1, <1>15, <1>16, <1>17 DEF Put, Wrapped
<1>22. m - Due(m, v, NewestEntry(entries, from, end)) <= Since(frame', parts') * MaxLength
  <2>1. CASE first
    <3>1. Due(m, v, w) = n
      BY <1>3, <1>15, <1>17, DueMoves
    <3>2. NewestEntry(entries, from, end) = w /\ Since(frame', parts') = 1
      BY <1>5, <1>7, <1>20, <2>1 DEF first, add
    <3>3. QED
      BY <1>3, <1>17, <3>1, <3>2, RingSizes
  <2>2. CASE ~first
    <3>1. NewestEntry(entries, from, end) = newest /\ C > 0 /\ n > 0
      BY <1>3, <1>4, <1>7, <1>8, <1>20, <2>2 DEF C, newest
    <3>2. newest \in Cells /\ ~(Along(w, newest) < length)
      BY <1>6, <3>1
    <3>3. Due(m, v, newest) = Due(n, w, newest) /\ Due(n, w, newest) \in Int
      BY <1>3, <1>15, <1>17, <3>2, DueMoves
    <3>4. (Since(frame, parts) + 1) * MaxLength = Since(frame, parts) * MaxLength + MaxLength
          /\ Since(frame, parts) * MaxLength \in Nat
      BY <1>5, RingSizes, Multiples
    <3>5. PICK d \in Nat : d = Since(frame, parts) * MaxLength
      BY <3>4
    <3>6. Since(frame', parts') * MaxLength = d + MaxLength
      BY <1>5, <2>2, <3>4, <3>5
    <3>7. n - Due(n, w, newest) <= d
      BY <1>4, <3>1, <3>5 DEF newest
    <3>8. m - Due(m, v, newest) <= d + MaxLength
      BY <1>3, <1>17, <3>3, <3>7, RingSizes
    <3>9. QED
      BY <3>1, <3>6, <3>8
  <2>3. QED
    BY <2>1, <2>2
<1>23. /\ (parts' = 0 => frame_start' = -1)
       /\ (parts' > 0 => frame_start' = NewestEntry(entries, from, end))
  <2>1. parts' > 0 => ~last /\ add
    BY <1>5 DEF last
  <2>2. QED
    BY <1>1, <1>5, <1>20, <2>1
<1>24. FrameOf(m, v, entries, from, end, frame', parts', frame_start')
  <2>1. m > 0
    BY <1>3, <1>17
  <2>2. QED
    BY <1>5, <1>20, <1>22, <1>23, <2>1 DEF FrameOf
<1>25. RingInv' = (/\ RingOf(m, v, wrap, c)
                   /\ ListOf(m, v, c, entries, from, end, Pending(frame', parts'))
                   /\ FrameOf(m, v, entries, from, end, frame', parts', frame_start'))
  BY <1>12, <1>14, <1>19, <1>21 DEF RingInv, Pending
<1>26. QED
  BY <1>18, <1>20, <1>24, <1>25

LEMMA RingInit == CircularInit => RingInv
<1> SUFFICES ASSUME CircularInit PROVE RingInv
  OBVIOUS
<1>1. /\ pushed = 0 /\ frame = 0 /\ parts = 0 /\ frame_start = -1 /\ cb_wptr = 0
      /\ cb_wrap = FALSE /\ iframe_buff_rpos = 0 /\ iframe_buff_wpos = 0
      /\ iframe_buff = [i \in Entries |-> 0]
      /\ cb_buff = [p \in Cells |-> [unit |-> -1, key |-> FALSE]]
  BY DEF CircularInit, Entries, Cells
<1>2. 0 \in Cells /\ 0 \in Entries /\ Count(0, 0) = 0
  BY RingSizes DEF Cells, Entries, Count
<1>3. RingOf(pushed, cb_wptr, cb_wrap, cb_buff)
  <2>1. /\ cb_buff \in [Cells -> [unit : Int, key : BOOLEAN]]
        /\ \A p \in Cells : cb_buff[p].unit = -1 /\ ~cb_buff[p].key
    BY <1>1
  <2>2. \A p \in Cells : Due(pushed, cb_wptr, p) < 0 /\ Due(pushed, cb_wptr, p) \in Int
    BY <1>1, RingSizes DEF Due, Along, Cells
  <2>3. \A p \in Cells : ~(Due(pushed, cb_wptr, p) >= 0)
    BY <2>2
  <2>4. \A p \in Cells :
          /\ Due(pushed, cb_wptr, p) >= 0 => cb_buff[p].unit = Due(pushed, cb_wptr, p)
          /\ Due(pushed, cb_wptr, p) < 0 => cb_buff[p].unit = -1 /\ ~cb_buff[p].key
    BY <2>1, <2>3
  <2>5. /\ pushed \in Nat /\ cb_wptr \in Cells /\ cb_wrap \in BOOLEAN
        /\ cb_wrap => pushed > cb_len
        /\ pushed < cb_len => cb_wptr = pushed
        /\ pushed = cb_len => cb_wptr = 0
        /\ pushed \in 1 .. cb_len => cb_buff[0].key
    <3>1. pushed = 0 /\ cb_wptr = 0 /\ ~cb_wrap /\ cb_wrap \in BOOLEAN
      BY <1>1
    <3>2. QED
      BY <1>2, <3>1, RingSizes
  <2>6. QED
    BY <2>1, <2>4, <2>5 DEF RingOf
<1>4. ListOf(pushed, cb_wptr, cb_buff, iframe_buff, iframe_buff_rpos, iframe_buff_wpos,
             Pending(frame, parts))
  BY <1>1, <1>2 DEF ListOf
<1>5. FrameOf(pushed, cb_wptr, iframe_buff, iframe_buff_rpos, iframe_buff_wpos,
              frame, parts, frame_start)
  BY <1>1, <1>2, RingSizes DEF FrameOf
<1>6. QED
  BY <1>3, <1>4, <1>5 DEF RingInv

LEMMA RingNext == ASSUME RoomForKeys, RingInv, [CircularNext]_circularVars PROVE RingInv'
<1>1. CASE Push
  BY <1>1, RingPush
<1>2. CASE ~Push
  <2>1. UNCHANGED <<partVars, bufferVars, iframeVars>>
    BY <1>2 DEF CircularNext, circularVars, Header, Trigger, ReadPositions, SaveEnd, SaveStart
  <2>2. QED
    BY <2>1 DEF RingInv, Pending, partVars, bufferVars, iframeVars
<1>3. QED
  BY <1>1, <1>2

LEMMA SaveNext == ASSUME SaveInv, [CircularNext]_circularVars PROVE SaveInv'
<1> USE DEF circularVars, partVars, bufferVars, iframeVars, saveVars
<1>1. CASE Header
  BY <1>1 DEF Header, SaveInv, Chosen, Oldest, FromStart, Bytes
<1>2. CASE Push
  <2> SUFFICES ASSUME ~late' PROVE ~(saving' \in {"end", "start", "done"})
    BY DEF SaveInv
  <2>1. saving # "done" /\ saving' = saving /\ (late' = (late \/ saving \in {"end", "start"}))
    BY <1>2 DEF Push
  <2>2. QED
    BY <2>1
<1>3. CASE Trigger
  BY <1>3 DEF Trigger, SaveInv
<1>4. CASE ReadPositions
  BY <1>4 DEF ReadPositions, SaveInv, Chosen, Oldest, FromStart
<1>5. CASE SaveEnd
  <2> SUFFICES ASSUME ~late' PROVE Chosen' /\ file' = Bytes(Oldest, copy_from_end)'
    BY <1>5 DEF SaveInv, SaveEnd
  <2>1. Chosen /\ UNCHANGED <<cb_wrap, cb_wptr, cb_buff, iframe_buff, iframe_buff_rpos,
                              copy_from_end, copy_from_start>>
    BY <1>5 DEF SaveInv, SaveEnd
  <2>2. file' = Bytes(Oldest, copy_from_end)
    BY <1>5 DEF SaveEnd
  <2>3. QED
    BY <2>1, <2>2 DEF Chosen, Oldest, FromStart, Bytes
<1>6. CASE SaveStart
  <2> SUFFICES ASSUME ~late'
               PROVE  Chosen' /\ file' = (Bytes(Oldest, copy_from_end)
                                            \o Bytes(0, copy_from_start))'
    BY <1>6 DEF SaveInv, SaveStart
  <2>1. Chosen /\ UNCHANGED <<cb_wrap, cb_wptr, cb_buff, iframe_buff, iframe_buff_rpos,
                              copy_from_end, copy_from_start>>
    BY <1>6 DEF SaveInv, SaveStart
  <2>2. file' = Bytes(Oldest, copy_from_end) \o Bytes(0, copy_from_start)
    BY <1>6 DEF SaveInv, SaveStart
  <2>3. QED
    BY <2>1, <2>2 DEF Chosen, Oldest, FromStart, Bytes
<1>7. CASE UNCHANGED circularVars
  BY <1>7 DEF SaveInv, Chosen, Oldest, FromStart, Bytes
<1>8. QED
  BY <1>1, <1>2, <1>3, <1>4, <1>5, <1>6, <1>7 DEF CircularNext

LEMMA ListIsTrue == RingInv => IframeListTrue
<1> SUFFICES ASSUME RingInv PROVE Live = {p \in Cells : cb_buff[p].key}
  BY DEF IframeListTrue, Cells
<1> DEFINE r == iframe_buff_rpos
           e == iframe_buff_wpos
<1>1. /\ ListOf(pushed, cb_wptr, cb_buff, iframe_buff, r, e, Pending(frame, parts))
      /\ iframe_buff \in [Entries -> Cells] /\ r \in Entries /\ e \in Entries
      /\ Count(r, e) \in Nat /\ Count(r, e) < IFRAME_BUFSIZE
  BY CountSlots, RingSizes DEF RingInv, ListOf
<1>2. Live = {iframe_buff[i] : i \in {i \in Entries : Count(r, i) < Count(r, e)}}
  <2>1. \A i \in Entries : (i - r) % IFRAME_BUFSIZE = Count(r, i)
    BY <1>1, IndexSlots
  <2>2. (e - r) % IFRAME_BUFSIZE = Count(r, e)
    BY <1>1, IndexSlots
  <2>3. {i \in 0..IFRAME_BUFSIZE - 1 : (i - r) % IFRAME_BUFSIZE < (e - r) % IFRAME_BUFSIZE}
          = {i \in Entries : Count(r, i) < Count(r, e)}
    BY <2>1, <2>2 DEF Entries
  <2>4. QED
    BY <2>3 DEF Live
<1> HIDE DEF r, e
<1>3. ASSUME NEW i \in Entries, Count(r, i) < Count(r, e)
      PROVE  iframe_buff[i] \in Cells /\ cb_buff[iframe_buff[i]].key
  <2>1. Count(r, i) \in 0 .. IFRAME_BUFSIZE - 1 /\ Slot(r, Count(r, i)) = i
    BY <1>1, CountSlots
  <2>2. Count(r, i) \in 0 .. Count(r, e) - 1
    BY <1>1, <1>3, <2>1, RingSizes
  <2>3. QED
    BY <1>1, <2>1, <2>2 DEF ListOf
<1>4. ASSUME NEW p \in Cells, cb_buff[p].key
      PROVE  \E i \in Entries : Count(r, i) < Count(r, e) /\ iframe_buff[i] = p
  <2>1. PICK k \in 0 .. Count(r, e) - 1 : iframe_buff[Slot(r, k)] = p
    BY <1>1, <1>4 DEF ListOf
  <2>2. k \in 0 .. IFRAME_BUFSIZE /\ k < IFRAME_BUFSIZE /\ k < Count(r, e)
    BY <1>1, RingSizes
  <2>3. Slot(r, k) \in Entries /\ Count(r, Slot(r, k)) = k
    BY <1>1, <2>2, SlotMoves
  <2>4. QED
    BY <2>1, <2>2, <2>3
<1>5. QED
  BY <1>2, <1>3, <1>4

LEMMA BytesOfRing ==
  ASSUME RingInv, NEW i \in Cells, NEW k \in Nat, i + k <= cb_len
  PROVE  /\ Bytes(i, k) \in Seq([unit : Int, key : BOOLEAN]) /\ Len(Bytes(i, k)) = k
         /\ \A j \in 1 .. k : i + j - 1 \in Cells /\ Bytes(i, k)[j] = cb_buff[i + j - 1]
<1>1. cb_buff \in [Cells -> [unit : Int, key : BOOLEAN]]
  BY DEF RingInv, RingOf
<1>2. \A j \in 1 .. k : i + j - 1 \in Cells /\ i + j - 1 < cb_len
  BY RingSizes DEF Cells
<1>3. Bytes(i, k) = [j \in 1 .. k |-> cb_buff[i + j - 1]]
  BY <1>2 DEF Bytes
<1>4. \A j \in 1 .. k : cb_buff[i + j - 1] \in [unit : Int, key : BOOLEAN]
  BY <1>1, <1>2
<1>5. Bytes(i, k) \in Seq([unit : Int, key : BOOLEAN])
  <2>1. Bytes(i, k) \in [1 .. k -> [unit : Int, key : BOOLEAN]]
    BY <1>3, <1>4
  <2>2. QED
    BY <2>1, SeqDef
<1>6. QED
  BY <1>2, <1>3, <1>5

\* The saved file, from what main chose to copy.
LEMMA SaveIsTrue == RingInv /\ SaveInv => SavedFromOldestKey
<1> SUFFICES ASSUME RingInv, SaveInv, Saved
             PROVE  /\ file # <<>> /\ file[1].key
                    /\ \A p \in Cells : cb_buff[p].key => cb_buff[p].unit >= file[1].unit
                    /\ pushed - file[1].unit <= Len(file)
                    /\ Follows(pushed - file[1].unit)
  BY DEF SavedFromOldestKey, Cells
<1> DEFINE n == pushed
           w == cb_wptr
           o == Oldest
<1>1. /\ saving = "done" /\ pushed > 0 /\ ~late /\ (pushed >= cb_len => cb_wrap)
      /\ Chosen /\ file = Bytes(Oldest, copy_from_end) \o Bytes(0, copy_from_start)
  BY DEF Saved, SaveInv
<1>2. /\ n \in Nat /\ w \in Int /\ 0 <= w /\ w < cb_len /\ w \in Cells /\ 0 \in Cells
      /\ cb_buff \in [Cells -> [unit : Int, key : BOOLEAN]]
      /\ \A p \in Cells : /\ Due(n, w, p) >= 0 => cb_buff[p].unit = Due(n, w, p)
                          /\ Due(n, w, p) < 0 => cb_buff[p].unit = -1 /\ ~cb_buff[p].key
                          /\ Due(n, w, p) \in Int /\ Due(n, w, p) = n - cb_len + Along(w, p)
                          /\ Along(w, p) \in Nat
      /\ cb_wrap => n > cb_len
      /\ n < cb_len => w = n
      /\ n \in 1 .. cb_len => cb_buff[0].key
  <2>1. RingOf(n, w, cb_wrap, cb_buff)
    BY DEF RingInv
  <2>2. w \in Cells /\ 0 \in Cells
    BY <2>1, RingSizes DEF RingOf, Cells
  <2>3. n \in Nat /\ w \in Int /\ 0 <= w /\ w < cb_len
    BY <2>1, <2>2, RingSizes DEF RingOf, Cells
  <2>4. \A p \in Cells : /\ Due(n, w, p) = n - cb_len + Along(w, p) /\ Along(w, p) \in Nat
                         /\ Due(n, w, p) \in Int
    BY <2>2, <2>3, AlongInside, RingSizes DEF Due
  <2>5. QED
    BY <2>1, <2>2, <2>3, <2>4 DEF RingOf
\* The oldest entry is that of the oldest key frame.
<1>3. /\ o \in Cells /\ cb_buff[o].key
      /\ \A p \in Cells : cb_buff[p].key => Due(n, w, o) <= Due(n, w, p)
  <2> DEFINE r == iframe_buff_rpos
             e == iframe_buff_wpos
             C == Count(r, e)
             G(k) == iframe_buff[Slot(r, k)]
  <2>1. /\ ListOf(n, w, cb_buff, iframe_buff, r, e, Pending(frame, parts)) /\ r \in Entries /\ e \in Entries
        /\ iframe_buff \in [Entries -> Cells] /\ C \in Nat /\ C > 0
    <3>1. ListOf(n, w, cb_buff, iframe_buff, r, e, Pending(frame, parts)) /\ (n > 0 => C > 0)
      BY DEF RingInv, FrameOf
    <3>2. /\ r \in Entries /\ e \in Entries /\ iframe_buff \in [Entries -> Cells]
      BY <3>1 DEF ListOf
    <3>3. C \in 0 .. IFRAME_BUFSIZE - 1
      BY <3>2, CountSlots
    <3>4. QED
      BY <1>1, <3>1, <3>2, <3>3, RingSizes
  <2>2. Slot(r, 0) = r /\ G(0) = o
    BY <2>1, SlotMoves, RingSizes DEF Oldest
  <2>3. \A k \in 0 .. C - 1 : /\ cb_buff[G(k)].key
                              /\ \A l \in 0 .. k : Due(n, w, G(l)) <= Due(n, w, G(k))
    BY <2>1 DEF ListOf
  <2>4. \A p \in Cells : cb_buff[p].key => \E k \in 0 .. C - 1 : G(k) = p
    BY <2>1 DEF ListOf
  <2>5. o \in Cells
    BY <2>1 DEF Oldest
  <2> HIDE DEF G, C, r, e, o
  <2>6. \A k \in 0 .. C - 1 : 0 \in 0 .. k
    BY <2>1
  <2>7. 0 \in 0 .. C - 1
    BY <2>1
  <2>8. QED
    BY <2>2, <2>3, <2>4, <2>5, <2>6, <2>7
<1>4. o \in Int /\ 0 <= o /\ o < cb_len
  BY <1>3, RingSizes DEF Cells
<1>5. CASE cb_wrap
  <2> DEFINE a == Along(w, o)
             x == n - Due(n, w, o)
             start == IF w < o THEN w ELSE o
             f == Bytes(o, cb_len - o)
             g == Bytes(0, start)
  <2>1. copy_from_end = cb_len - o /\ copy_from_start = start /\ n > cb_len
    BY <1>1, <1>2, <1>4, <1>5, RingSizes DEF Chosen, FromStart
  <2>2. /\ f \in Seq([unit : Int, key : BOOLEAN]) /\ Len(f) = cb_len - o
        /\ \A j \in 1 .. cb_len - o : o + j - 1 \in Cells /\ f[j] = cb_buff[o + j - 1]
    <3>1. PICK i \in Cells : i = o
      BY <1>3
    <3>2. PICK k \in Nat : k = cb_len - o
      BY <1>4, RingSizes
    <3>3. i + k <= cb_len
      BY <1>4, <3>1, <3>2, RingSizes
    <3>4. /\ Bytes(i, k) \in Seq([unit : Int, key : BOOLEAN]) /\ Len(Bytes(i, k)) = k
          /\ \A j \in 1 .. k : i + j - 1 \in Cells /\ Bytes(i, k)[j] = cb_buff[i + j - 1]
      BY <3>3, BytesOfRing
    <3>5. QED
      BY <3>1, <3>2, <3>4
  <2>3. /\ g \in Seq([unit : Int, key : BOOLEAN]) /\ Len(g) = start
        /\ \A j \in 1 .. start : j - 1 \in Cells /\ g[j] = cb_buff[j - 1]
    <3>1. PICK i \in Nat : i = start
      BY <1>2, <1>4
    <3>2. 0 \in Cells /\ 0 + i <= cb_len
      BY <1>2, <1>4, <3>1, RingSizes
    <3>3. /\ Bytes(0, i) \in Seq([unit : Int, key : BOOLEAN]) /\ Len(Bytes(0, i)) = i
          /\ \A j \in 1 .. i : 0 + j - 1 \in Cells /\ Bytes(0, i)[j] = cb_buff[0 + j - 1]
      BY <3>2, BytesOfRing
    <3>4. \A j \in 1 .. i : 0 + j - 1 = j - 1
      OBVIOUS
    <3>5. QED
      BY <3>1, <3>3, <3>4
  <2> HIDE DEF f, g
  <2>4. start \in Nat /\ cb_len - o \in Nat /\ cb_len - o >= 1
    BY <1>2, <1>4, RingSizes
  <2>5. /\ file \in Seq([unit : Int, key : BOOLEAN]) /\ Len(file) = cb_len - o + start
        /\ \A j \in 1 .. cb_len - o + start :
             file[j] = IF j <= cb_len - o THEN f[j] ELSE g[j - (cb_len - o)]
    <3>1. file = f \o g
      BY <1>1, <2>1 DEF f, g
    <3>2. /\ f \o g \in Seq([unit : Int, key : BOOLEAN]) /\ Len(f \o g) = Len(f) + Len(g)
          /\ \A j \in 1 .. Len(f) + Len(g) :
               (f \o g)[j] = IF j <= Len(f) THEN f[j] ELSE g[j - Len(f)]
      BY <2>2, <2>3, ConcatProperties
    <3>3. QED
      BY <2>2, <2>3, <3>1, <3>2
  <2>6. file # <<>> /\ file[1] = cb_buff[o]
    <3>1. 1 \in 1 .. cb_len - o /\ 1 \in 1 .. cb_len - o + start /\ o + 1 - 1 = o
          /\ 1 <= cb_len - o /\ Len(file) # 0
      BY <1>4, <2>4, <2>5
    <3>2. file[1] = f[1] /\ f[1] = cb_buff[o + 1 - 1]
      BY <2>2, <2>5, <3>1
    <3>3. QED
      BY <2>5, <3>1, <3>2
  <2>7. a \in Nat /\ a < cb_len /\ a = (IF w <= o THEN o - w ELSE o - w + cb_len)
        /\ Due(n, w, o) = n - cb_len + a /\ Due(n, w, o) \in Int /\ x = cb_len - a
        /\ Due(n, w, o) > 0
    <3>1. a \in Nat /\ a < cb_len /\ a = (IF w <= o THEN o - w ELSE o - w + cb_len)
      BY <1>2, <1>4, RingSizes DEF Along
    <3>2. Due(n, w, o) = n - cb_len + a
      BY <1>2, <1>3
    <3>3. QED
      BY <1>2, <2>1, <3>1, <3>2, RingSizes
  <2>8. cb_buff[o].unit = Due(n, w, o)
    BY <1>2, <1>3, <2>7
  <2>9. x <= cb_len - o + start /\ x \in Nat
    BY <1>2, <1>4, <2>7, RingSizes
  <2>10. ASSUME NEW k \in 1 .. x PROVE file[k].unit = Due(n, w, o) + k - 1
    <3>1. PICK p \in Cells : /\ p = (IF k <= cb_len - o THEN o + k - 1 ELSE k - 1 - (cb_len - o))
                             /\ file[k] = cb_buff[p]
      <4>1. k \in 1 .. cb_len - o + start /\ k \in Nat /\ 1 <= k
        BY <2>4, <2>9
      <4>2. CASE k <= cb_len - o
        <5>1. k \in 1 .. cb_len - o
          BY <2>4, <4>1, <4>2
        <5>2. QED
          BY <2>2, <2>5, <4>1, <4>2, <5>1
      <4>3. CASE ~(k <= cb_len - o)
        <5>1. k - (cb_len - o) \in 1 .. start
              /\ k - (cb_len - o) - 1 = k - 1 - (cb_len - o)
          BY <1>4, <2>4, <4>1, <4>3, RingSizes
        <5>2. PICK j \in 1 .. start : j = k - (cb_len - o)
          BY <5>1
        <5>3. file[k] = g[j]
          BY <2>5, <4>1, <4>3, <5>2
        <5>4. j - 1 \in Cells /\ g[j] = cb_buff[j - 1] /\ j - 1 = k - 1 - (cb_len - o)
          BY <2>3, <5>1, <5>2
        <5>5. QED
          BY <4>3, <5>3, <5>4
      <4>4. QED
        BY <4>2, <4>3
    <3>2. Along(w, p) = a + k - 1
      BY <1>2, <1>4, <2>7, <2>9, <3>1, RingSizes DEF Along
    <3>3. Due(n, w, p) = Due(n, w, o) + k - 1 /\ Due(n, w, p) >= 0
      BY <1>2, <2>7, <2>9, <3>2, RingSizes
    <3>4. QED
      BY <1>2, <3>1, <3>3
  <2>11. Follows(n - file[1].unit)
    <3>1. n - file[1].unit = x
      BY <2>6, <2>8
    <3>2. \A k \in 2 .. x : k \in 1 .. x /\ k - 1 \in 1 .. x
      BY <2>9
    <3>3. ASSUME NEW k \in 2 .. x PROVE file[k].unit = file[k - 1].unit + 1
      <4>1. file[k].unit = Due(n, w, o) + k - 1
            /\ file[k - 1].unit = Due(n, w, o) + (k - 1) - 1
        BY <2>10, <3>2
      <4>2. QED
        BY <2>7, <2>9, <4>1
    <3>4. QED
      BY <3>1, <3>3 DEF Follows
  <2>12. \A p \in Cells : cb_buff[p].key => cb_buff[p].unit >= file[1].unit
    <3> SUFFICES ASSUME NEW p \in Cells, cb_buff[p].key PROVE cb_buff[p].unit >= file[1].unit
      OBVIOUS
    <3>1. Due(n, w, o) <= Due(n, w, p) /\ Due(n, w, p) \in Int /\ ~(Due(n, w, p) < 0)
      BY <1>2, <1>3
    <3>2. Due(n, w, p) >= 0
      BY <3>1
    <3>3. QED
      BY <1>2, <2>6, <2>7, <2>8, <3>1, <3>2
  <2>13. n - file[1].unit <= Len(file)
    BY <2>5, <2>6, <2>8, <2>9
  <2>14. QED
    BY <1>3, <2>6, <2>11, <2>12, <2>13
<1>6. CASE ~cb_wrap
  <2>1. copy_from_end = 0 /\ copy_from_start = n /\ n < cb_len /\ w = n /\ n >= 1
    BY <1>1, <1>2, <1>6, RingSizes DEF Chosen
  <2> DEFINE f == Bytes(o, 0)
             g == Bytes(0, n)
  <2>2. f \in Seq([unit : Int, key : BOOLEAN]) /\ Len(f) = 0
    BY <1>3, <1>4, RingSizes, BytesOfRing
  <2>3. /\ g \in Seq([unit : Int, key : BOOLEAN]) /\ Len(g) = n
        /\ \A j \in 1 .. n : 0 + j - 1 \in Cells /\ g[j] = cb_buff[0 + j - 1]
    <3>1. n \in Nat /\ 0 \in Cells /\ 0 + n <= cb_len
      BY <1>2, <2>1, RingSizes
    <3>2. QED
      BY <3>1, BytesOfRing
  <2> HIDE DEF f, g
  <2>4. file = f \o g
    BY <1>1, <2>1 DEF f, g
  <2>5. Len(file) = n /\ \A j \in 1 .. n : file[j] = cb_buff[j - 1] /\ j - 1 \in Cells
    <3>1. Len(f \o g) = 0 + n /\ \A j \in 1 .. 0 + n :
            (f \o g)[j] = IF j <= 0 THEN f[j] ELSE g[j - 0]
      BY <2>2, <2>3, ConcatProperties
    <3>2. \A j \in 1 .. n : ~(j <= 0) /\ j - 0 = j /\ 0 + j - 1 = j - 1 /\ j \in 1 .. 0 + n
      BY <1>2
    <3>3. Len(file) = n
      BY <1>2, <2>4, <3>1
    <3>4. ASSUME NEW j \in 1 .. n PROVE file[j] = cb_buff[j - 1] /\ j - 1 \in Cells
      <4>1. file[j] = g[j]
        BY <2>4, <3>1, <3>2
      <4>2. g[j] = cb_buff[j - 1] /\ j - 1 \in Cells
        BY <2>3, <3>2
      <4>3. QED
        BY <4>1, <4>2
    <3>5. QED
      BY <3>3, <3>4
  <2>6. ASSUME NEW j \in 1 .. n PROVE file[j].unit = j - 1
    <3>1. PICK p \in Cells : p = j - 1 /\ file[j] = cb_buff[p]
      BY <2>5
    <3>2. Along(w, p) = p - n + cb_len
      BY <1>2, <2>1, <3>1, RingSizes DEF Along
    <3>3. Due(n, w, p) = p /\ p >= 0
      BY <1>2, <3>1, <3>2, RingSizes
    <3>4. QED
      BY <1>2, <3>1, <3>3
  <2>7. 1 \in 1 .. n /\ file[1] = cb_buff[0] /\ file[1].unit = 0 /\ n \in 1 .. cb_len
    <3>1. 1 \in 1 .. n /\ n \in 1 .. cb_len
      BY <1>2, <2>1, RingSizes
    <3>2. QED
      BY <2>5, <2>6, <3>1
  <2>8. file[1].key /\ file # <<>>
    BY <1>2, <2>5, <2>7
  <2>9. \A p \in Cells : cb_buff[p].key => cb_buff[p].unit >= 0
    <3> SUFFICES ASSUME NEW p \in Cells, cb_buff[p].key PROVE cb_buff[p].unit >= 0
      OBVIOUS
    <3>1. Due(n, w, p) \in Int /\ ~(Due(n, w, p) < 0)
      BY <1>2
    <3>2. Due(n, w, p) >= 0
      BY <3>1
    <3>3. QED
      BY <1>2, <3>1, <3>2
  <2>10. Follows(n - file[1].unit)
    <3>1. n - file[1].unit = n
      BY <1>2, <2>7
    <3>2. \A k \in 2 .. n : k \in 1 .. n /\ k - 1 \in 1 .. n /\ (k - 1) - 1 + 1 = k - 1
      BY <1>2
    <3>3. \A k \in 2 .. n : file[k].unit = file[k - 1].unit + 1
      BY <2>6, <3>2
    <3>4. QED
      BY <3>1, <3>3 DEF Follows
  <2>11. n - file[1].unit <= Len(file)
    BY <1>2, <2>5, <2>7
  <2>12. QED
    BY <2>7, <2>8, <2>9, <2>10, <2>11
<1>7. QED
  BY <1>5, <1>6

LEMMA OutputIsCircular ==
  /\ OutputInit => CircularInit
  /\ [OutputNext]_outputVars => [CircularNext]_circularVars
BY DEF OutputInit, OutputNext, outputVars

\* If two key frames fit into the buffer, every entry of the list is where a key
\* frame begins and every key frame in the buffer is listed, after each callback:
\* what "Error in iframe list" reports cannot be (RaspiVidBalls.c:1286-1334).
THEOREM KeyFramesListed == ASSUME RoomForKeys PROVE OutputSpec => []IframeListTrue
<1>1. OutputInit => RingInv
  BY OutputIsCircular, RingInit
<1>2. RingInv /\ [OutputNext]_outputVars => RingInv'
  BY OutputIsCircular, RingNext
<1>3. RingInv => IframeListTrue
  BY ListIsTrue
<1>4. QED
  BY <1>1, <1>2, <1>3, PTL DEF OutputSpec

\* And then what is saved begins with the oldest key frame and has all that came
\* since, if no output comes between and the buffer was not filled to its last
\* byte only (RaspiVidBalls.c:2925-2944).
THEOREM SaveBeginsWithKey == ASSUME RoomForKeys PROVE OutputSpec => []SavedFromOldestKey
<1>1. OutputInit => RingInv /\ SaveInv
  <2>1. CircularInit => SaveInv
    BY DEF CircularInit, SaveInv
  <2>2. QED
    BY <2>1, OutputIsCircular, RingInit
<1>2. RingInv /\ SaveInv /\ [OutputNext]_outputVars => RingInv' /\ SaveInv'
  BY OutputIsCircular, RingNext, SaveNext
<1>3. RingInv /\ SaveInv => SavedFromOldestKey
  BY SaveIsTrue
<1>4. QED
  BY <1>1, <1>2, <1>3, PTL DEF OutputSpec
=============================================================================
