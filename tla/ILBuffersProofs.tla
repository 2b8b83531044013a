---------------------------- MODULE ILBuffersProofs ----------------------------
(***************************************************************************)
(* Proofs about the buffers of a port that is not tunnelled (ILBuffers.tla) *)
(* for any set of buffers and any number of refusals.                      *)
(*                                                                         *)
(* BufferInOnePlace: the lists of buffers are sequences without repetition *)
(* over disjoint sets whose union is what OpenMAX knows of.  The local     *)
(* list is empty outside the statements that use it (else TakeBuffers would *)
(* overwrite it), and the client holds a buffer exactly between            *)
(* ilclient_get_input_buffer and OMX_EmptyThisBuffer.                      *)
(*                                                                         *)
(* NothingLeaked needs to know which event ended the waiting: an answer is  *)
(* queued at most once, that of PortDisable only when nothing is allocated, *)
(* and that of a cancelled PortEnable only while enable_port_buffers is the *)
(* caller, when all buffers have been freed.                               *)
(***************************************************************************)
EXTENDS ILBuffers, SequenceTheorems, WellFoundedInduction, TLAPS

-----------------------------------------------------------------------------
(* Sequences without repetition: what ToSet and IsInjective are after each  *)
(* operation on the lists.                                                  *)

LEMMA EmptyElements == ToSet(<<>>) = {} /\ IsInjective(<<>>)
BY DEF ToSet, IsInjective

\* Both in terms of the indexes.
LEMMA ElementsOf ==
  ASSUME NEW S, NEW s \in Seq(S)
  PROVE  /\ ToSet(s) = {s[i] : i \in 1 .. Len(s)}
         /\ ToSet(s) \subseteq S
         /\ IsInjective(s) <=> \A i, j \in 1 .. Len(s) : s[i] = s[j] => i = j
BY DEF ToSet, IsInjective

LEMMA ElementsOfOne ==
  ASSUME NEW S, NEW x \in S
  PROVE  <<x>> \in Seq(S) /\ ToSet(<<x>>) = {x} /\ IsInjective(<<x>>)
<1> DEFINE s == <<x>>
<1>1. s \in Seq(S) /\ Len(s) = 1 /\ s[1] = x
  OBVIOUS
<1> HIDE DEF s
<1>2. \A i \in 1 .. Len(s) : i = 1
  BY <1>1
<1>3. 1 \in 1 .. Len(s)
  BY <1>1
<1>4. ToSet(s) = {s[i] : i \in 1 .. Len(s)}
  BY <1>1, ElementsOf
<1>5. ToSet(s) = {x}
  BY <1>1, <1>2, <1>3, <1>4
<1>6. IsInjective(s)
  BY <1>1, <1>2, ElementsOf
<1>7. QED
  BY <1>1, <1>5, <1>6 DEF s

LEMMA ElementsOfAppend ==
  ASSUME NEW S, NEW s \in Seq(S), NEW x \in S
  PROVE  /\ Append(s, x) \in Seq(S)
         /\ ToSet(Append(s, x)) = ToSet(s) \cup {x}
         /\ IsInjective(s) /\ x \notin ToSet(s) => IsInjective(Append(s, x))
<1> DEFINE t == Append(s, x)
<1>1. t \in Seq(S) /\ Len(t) = Len(s) + 1 /\ t[Len(t)] = x
      /\ \A i \in 1 .. Len(s) : t[i] = s[i]
  BY AppendProperties
<1> HIDE DEF t
<1>2. Len(s) \in Nat
  OBVIOUS
<1>3. \A i \in 1 .. Len(t) : i \in 1 .. Len(s) \/ i = Len(t)
  BY <1>1, <1>2
<1>4. ToSet(t) = ToSet(s) \cup {x}
  BY <1>1, <1>2, <1>3, ElementsOf
<1>5. ASSUME IsInjective(s), x \notin ToSet(s) PROVE IsInjective(t)
  BY <1>1, <1>2, <1>3, <1>5, ElementsOf
<1>6. QED
  BY <1>1, <1>4, <1>5 DEF t

LEMMA ElementsOfConcat ==
  ASSUME NEW S, NEW s \in Seq(S), NEW t \in Seq(S)
  PROVE  /\ s \o t \in Seq(S)
         /\ ToSet(s \o t) = ToSet(s) \cup ToSet(t)
         /\ IsInjective(s \o t) <=>
              IsInjective(s) /\ IsInjective(t) /\ ToSet(s) \cap ToSet(t) = {}
<1> DEFINE u == s \o t
           m == Len(s)
           n == Len(t)
<1>1. /\ u \in Seq(S) /\ Len(u) = m + n
      /\ \A i \in 1 .. m + n : u[i] = IF i <= m THEN s[i] ELSE t[i - m]
  BY ConcatProperties
<1>2. m \in Nat /\ n \in Nat
  OBVIOUS
<1>3. /\ ToSet(s) = {s[i] : i \in 1 .. m}
      /\ IsInjective(s) <=> \A i, j \in 1 .. m : s[i] = s[j] => i = j
  BY ElementsOf
<1>4. /\ ToSet(t) = {t[i] : i \in 1 .. n}
      /\ IsInjective(t) <=> \A i, j \in 1 .. n : t[i] = t[j] => i = j
  BY ElementsOf
<1>5. /\ ToSet(u) = {u[i] : i \in 1 .. m + n}
      /\ IsInjective(u) <=> \A i, j \in 1 .. m + n : u[i] = u[j] => i = j
  BY <1>1, ElementsOf
<1> HIDE DEF u, m, n
<1>6. /\ \A i \in 1 .. m : i \in 1 .. m + n /\ u[i] = s[i]
      /\ \A i \in 1 .. n : m + i \in 1 .. m + n /\ u[m + i] = t[i]
      /\ \A i \in 1 .. m + n : i \notin 1 .. m => i - m \in 1 .. n /\ u[i] = t[i - m]
  BY <1>1, <1>2
<1>7. ToSet(u) = ToSet(s) \cup ToSet(t)
  <2>1. \A x \in ToSet(u) : x \in ToSet(s) \cup ToSet(t)
    BY <1>3, <1>4, <1>5, <1>6
  <2>2. \A x \in ToSet(s) \cup ToSet(t) : x \in ToSet(u)
    BY <1>3, <1>4, <1>5, <1>6
  <2>3. QED
    BY <2>1, <2>2
<1>8. ASSUME IsInjective(u)
      PROVE  IsInjective(s) /\ IsInjective(t) /\ ToSet(s) \cap ToSet(t) = {}
  <2>1. \A i, j \in 1 .. m : s[i] = s[j] => i = j
    BY <1>5, <1>6, <1>8
  <2>2. \A i, j \in 1 .. n : t[i] = t[j] => i = j
    <3>1. \A i, j \in 1 .. n : t[i] = t[j] => m + i = m + j
      BY <1>5, <1>6, <1>8
    <3>2. QED
      BY <3>1, <1>2
  <2>3. \A i \in 1 .. m, j \in 1 .. n : s[i] # t[j]
    <3>1. \A i \in 1 .. m, j \in 1 .. n : s[i] = t[j] => i = m + j
      BY <1>5, <1>6, <1>8
    <3>2. QED
      BY <3>1, <1>2
  <2>4. QED
    BY <2>1, <2>2, <2>3, <1>3, <1>4
<1>9. ASSUME IsInjective(s), IsInjective(t), ToSet(s) \cap ToSet(t) = {}
      PROVE  IsInjective(u)
  <2>1. ASSUME NEW i \in 1 .. m + n, NEW j \in 1 .. m + n, u[i] = u[j] PROVE i = j
    <3>1. CASE i \in 1 .. m /\ j \in 1 .. m
      BY <1>3, <1>6, <1>9, <2>1, <3>1
    <3>2. CASE i \notin 1 .. m /\ j \notin 1 .. m
      <4>1. i - m = j - m
        BY <1>4, <1>6, <1>9, <2>1, <3>2
      <4>2. QED
        BY <4>1, <1>2
    <3>3. CASE i \in 1 .. m /\ j \notin 1 .. m
      <4>1. s[i] \in ToSet(s) /\ u[i] = s[i]
        BY <1>3, <1>6, <3>3
      <4>2. t[j - m] \in ToSet(t) /\ u[j] = t[j - m]
        BY <1>4, <1>6, <3>3
      <4>3. QED
        BY <4>1, <4>2, <1>9, <2>1
    <3>4. CASE i \notin 1 .. m /\ j \in 1 .. m
      <4>1. s[j] \in ToSet(s) /\ u[j] = s[j]
        BY <1>3, <1>6, <3>4
      <4>2. t[i - m] \in ToSet(t) /\ u[i] = t[i - m]
        BY <1>4, <1>6, <3>4
      <4>3. QED
        BY <4>1, <4>2, <1>9, <2>1
    <3>5. QED
      BY <3>1, <3>2, <3>3, <3>4
  <2>2. QED
    BY <1>5, <2>1
<1>10. QED
  BY <1>1, <1>7, <1>8, <1>9 DEF u

\* Fetching the first buffer removes it and nothing else.
LEMMA ElementsOfTail ==
  ASSUME NEW S, NEW s \in Seq(S), s # <<>>, IsInjective(s)
  PROVE  /\ Tail(s) \in Seq(S) /\ Head(s) \in ToSet(s)
         /\ ToSet(Tail(s)) = ToSet(s) \ {Head(s)}
         /\ IsInjective(Tail(s))
<1> DEFINE t == Tail(s)
<1>1. /\ t \in Seq(S) /\ Len(s) \in Nat \ {0} /\ Len(t) = Len(s) - 1 /\ Head(s) = s[1]
      /\ \A i \in 1 .. Len(t) : t[i] = s[i + 1]
  <2>1. t \in Seq(S) /\ Len(t) = Len(s) - 1 /\ \A i \in 1 .. Len(t) : t[i] = s[i + 1]
    BY HeadTailProperties
  <2>2. Len(s) \in Nat \ {0} /\ Head(s) = s[1]
    BY EmptySeq, HeadTailProperties
  <2>3. QED
    BY <2>1, <2>2
<1> HIDE DEF t
<1>2. \A i \in 1 .. Len(s) : i = 1 \/ (i - 1 \in 1 .. Len(t) /\ s[i] = t[i - 1])
  BY <1>1
<1>3. /\ ToSet(s) = {s[i] : i \in 1 .. Len(s)} /\ ToSet(t) = {t[i] : i \in 1 .. Len(t)}
      /\ \A i, j \in 1 .. Len(s) : s[i] = s[j] => i = j
      /\ IsInjective(t) <=> \A i, j \in 1 .. Len(t) : t[i] = t[j] => i = j
  BY <1>1, ElementsOf
<1>4. \A i \in 1 .. Len(t) : i + 1 \in 1 .. Len(s) /\ t[i] = s[i + 1] /\ t[i] # s[1]
  BY <1>1, <1>3
<1>5. ToSet(t) = ToSet(s) \ {s[1]} /\ s[1] \in ToSet(s)
  <2>1. /\ \A i \in 1 .. Len(s) : s[i] \in ToSet(s)
        /\ \A i \in 1 .. Len(t) : t[i] \in ToSet(t)
    BY <1>3
  <2>2. ASSUME NEW x \in ToSet(t) PROVE x \in ToSet(s) \ {s[1]}
    BY <2>1, <1>3, <1>4
  <2>3. ASSUME NEW x \in ToSet(s), x # s[1] PROVE x \in ToSet(t)
    <3>1. PICK i \in 1 .. Len(s) : x = s[i]
      BY <1>3
    <3>2. i - 1 \in 1 .. Len(t) /\ x = t[i - 1]
      BY <3>1, <2>3, <1>2
    <3>3. QED
      BY <3>2, <2>1
  <2>4. 1 \in 1 .. Len(s)
    BY <1>1
  <2>5. QED
    BY <2>1, <2>2, <2>3, <2>4
<1>6. \A i, j \in 1 .. Len(t) : t[i] = t[j] => i = j
  <2>1. \A i, j \in 1 .. Len(t) : t[i] = t[j] => i + 1 = j + 1
    BY <1>3, <1>4
  <2>2. QED
    BY <2>1, <1>1
<1>7. QED
  BY <1>1, <1>3, <1>5, <1>6 DEF t

\* disable_port_buffers takes the list in reverse.
LEMMA ElementsOfReverse ==
  ASSUME NEW S, NEW s \in Seq(S)
  PROVE  /\ Reverse(s) \in Seq(S)
         /\ ToSet(Reverse(s)) = ToSet(s)
         /\ IsInjective(s) => IsInjective(Reverse(s))
<1> DEFINE t == Reverse(s)
<1>1. /\ t \in Seq(S) /\ Len(t) = Len(s) /\ Len(s) \in Nat
      /\ \A i \in 1 .. Len(s) : t[i] = s[(Len(s) - i) + 1]
                                /\ (Len(s) - i) + 1 \in 1 .. Len(s)
  BY DEF Reverse
<1> HIDE DEF t
<1>2. \A i \in 1 .. Len(s) : s[i] = t[(Len(s) - i) + 1]
  BY <1>1
<1> DEFINE m == Len(s)
           back(i) == (m - i) + 1
<1>e. /\ ToSet(s) = {s[i] : i \in 1 .. m} /\ ToSet(t) = {t[i] : i \in 1 .. m}
      /\ IsInjective(s) <=> \A i, j \in 1 .. m : s[i] = s[j] => i = j
      /\ IsInjective(t) <=> \A i, j \in 1 .. m : t[i] = t[j] => i = j
  BY <1>1, ElementsOf
<1>f. /\ \A i \in 1 .. m : back(i) \in 1 .. m /\ t[i] = s[back(i)] /\ s[i] = t[back(i)]
      /\ \A i, j \in 1 .. m : back(i) = back(j) => i = j
  BY <1>1, <1>2
<1> HIDE DEF m, back
<1>3. ToSet(t) = ToSet(s)
  <2>0. \A i \in 1 .. m : t[i] \in ToSet(t) /\ s[i] \in ToSet(s)
    BY <1>e
  <2>1. ASSUME NEW x \in ToSet(s) PROVE x \in ToSet(t)
    <3>1. PICK i \in 1 .. m : x = s[i]
      BY <1>e
    <3>2. QED
      BY <3>1, <2>0, <1>f
  <2>2. ASSUME NEW x \in ToSet(t) PROVE x \in ToSet(s)
    <3>1. PICK i \in 1 .. m : x = t[i]
      BY <1>e
    <3>2. QED
      BY <3>1, <2>0, <1>f
  <2>3. QED
    BY <2>1, <2>2
<1>4. ASSUME IsInjective(s) PROVE IsInjective(t)
  BY <1>4, <1>e, <1>f
<1>5. QED
  BY <1>1, <1>3, <1>4 DEF t

-----------------------------------------------------------------------------
(* Where the buffers are                                                    *)

placeVars == <<in_list, taken, emptying, buf, allocated>>

Queues ==
  /\ in_list \in Seq(Buffer) /\ taken \in Seq(Buffer) /\ emptying \in Seq(Buffer)
  /\ buf \in Buffer \cup {NoBuffer} /\ allocated \subseteq Buffer
Once == IsInjective(in_list) /\ IsInjective(taken) /\ IsInjective(emptying)
Held == {buf} \ {NoBuffer}
Apart ==
  /\ ToSet(in_list) \cap ToSet(taken) = {} /\ ToSet(in_list) \cap ToSet(emptying) = {}
  /\ ToSet(taken) \cap ToSet(emptying) = {}
  /\ Held \cap ToSet(in_list) = {} /\ Held \cap ToSet(taken) = {}
  /\ Held \cap ToSet(emptying) = {}
Somewhere == ToSet(in_list) \cup ToSet(taken) \cup ToSet(emptying) \cup Held = allocated

Enabling == {"enable", "use", "queue", "enable_wait", "get"}
PlaceInStage ==
  /\ at \notin {"use", "queue", "free"} => taken = <<>>
  /\ at \in Enabling => buf = NoBuffer
  /\ at \in {"submit", "last"} => buf # NoBuffer

PlaceInv == Queues /\ Once /\ Apart /\ Somewhere /\ PlaceInStage

LEMMA PlaceInit == Init => PlaceInv
BY EmptyElements, ILBuffersAssumption
   DEF Init, PlaceInv, Queues, Once, Apart, Somewhere, Held, PlaceInStage

LEMMA PlaceImplies == PlaceInv => BufferInOnePlace
<1> SUFFICES ASSUME PlaceInv PROVE BufferInOnePlace
  OBVIOUS
<1> USE DEF PlaceInv, Queues, Once, Apart, Somewhere, Held
<1> DEFINE one == IF buf = NoBuffer THEN <<>> ELSE <<buf>>
           two == in_list \o taken
           three == two \o emptying
<1>1. one \in Seq(Buffer) /\ ToSet(one) = Held /\ IsInjective(one)
  <2>1. CASE buf = NoBuffer
    BY <2>1, EmptyElements
  <2>2. CASE buf # NoBuffer
    <3>1. one = <<buf>> /\ buf \in Buffer
      BY <2>2
    <3>2. QED
      BY <3>1, <2>2, ElementsOfOne
  <2>3. QED
    BY <2>1, <2>2
<1> HIDE DEF one, Held
<1>2. /\ two \in Seq(Buffer) /\ IsInjective(two)
      /\ ToSet(two) = ToSet(in_list) \cup ToSet(taken)
  BY ElementsOfConcat
<1> HIDE DEF two
<1>3. /\ three \in Seq(Buffer) /\ IsInjective(three)
      /\ ToSet(three) = ToSet(two) \cup ToSet(emptying)
  <2>1. ToSet(two) \cap ToSet(emptying) = {}
    BY <1>2
  <2>2. QED
    BY <1>2, <2>1, ElementsOfConcat
<1> HIDE DEF three
<1>4. /\ IsInjective(three \o one)
      /\ ToSet(three \o one) = ToSet(three) \cup ToSet(one)
  <2>1. ToSet(three) \cap ToSet(one) = {}
    BY <1>1, <1>2, <1>3
  <2>2. QED
    BY <1>1, <1>3, <2>1, ElementsOfConcat
<1>5. Places = three \o one
  BY DEF Places, three, two, one
<1>6. QED
  BY <1>1, <1>2, <1>3, <1>4, <1>5 DEF BufferInOnePlace

\* The client goes on, and no buffer moves.
LEMMA PlaceSettled ==
  ASSUME PlaceInv, UNCHANGED placeVars,
         at' = at \/ taken = <<>>,
         at' \in Enabling => at \in Enabling,
         at' \in {"submit", "last"} => buf # NoBuffer
  PROVE  PlaceInv'
BY DEF PlaceInv, Queues, Once, Apart, Somewhere, Held, PlaceInStage, placeVars, Enabling

LEMMA PlaceNext == PlaceInv /\ [Next]_vars => PlaceInv'
<1> SUFFICES ASSUME PlaceInv, [Next]_vars PROVE PlaceInv'
  OBVIOUS
<1> USE DEF Goto
<1>1. CASE EnablePort
  BY <1>1, PlaceSettled DEF EnablePort, bufferVars, placeVars, PlaceInv, PlaceInStage, Enabling
<1>2. CASE UseBuffer
  <2>1. CASE taken' = taken /\ allocated' = allocated
    BY <1>2, <2>1 DEF UseBuffer, PlaceInv, Queues, Once, Apart, Somewhere, Held,
                      PlaceInStage, Enabling
  <2>2. ASSUME NEW b \in Buffer \ allocated, allocated' = allocated \cup {b},
               taken' = Append(taken, b), at' = at
        PROVE  PlaceInv'
    <3>1. at = "use" /\ UNCHANGED <<in_list, buf, emptying>>
      BY <1>2 DEF UseBuffer
    <3>2. b \notin ToSet(taken) /\ b \notin ToSet(in_list) /\ b \notin ToSet(emptying)
          /\ b # buf
      BY ILBuffersAssumption DEF PlaceInv, Queues, Somewhere, Held
    <3>3. taken' \in Seq(Buffer) /\ ToSet(taken') = ToSet(taken) \cup {b} /\ IsInjective(taken')
      BY <2>2, <3>2, ElementsOfAppend DEF PlaceInv, Queues, Once
    <3>4. QED
      BY <2>2, <3>1, <3>2, <3>3
         DEF PlaceInv, Queues, Once, Apart, Somewhere, Held, PlaceInStage, Enabling
  <2>3. QED
    BY <1>2, <2>1, <2>2 DEF UseBuffer
<1>3. CASE QueueBuffers
  <2>1. /\ in_list' = taken \o in_list /\ taken' = <<>>
        /\ UNCHANGED <<buf, emptying, allocated>>
        /\ at \in {"use", "queue"} /\ at' \in {"enable_wait", "disable"}
    BY <1>3 DEF QueueBuffers, omxVars
  <2>2. /\ in_list' \in Seq(Buffer) /\ IsInjective(in_list')
        /\ ToSet(in_list') = ToSet(taken) \cup ToSet(in_list)
    <3>1. ToSet(taken) \cap ToSet(in_list) = {}
      BY DEF PlaceInv, Apart
    <3>2. QED
      BY <2>1, <3>1, ElementsOfConcat DEF PlaceInv, Queues, Once
  <2>3. taken' \in Seq(Buffer) /\ ToSet(taken') = {} /\ IsInjective(taken')
    BY <2>1, EmptyElements
  <2>4. QED
    BY <2>1, <2>2, <2>3
       DEF PlaceInv, Queues, Once, Apart, Somewhere, Held, PlaceInStage, Enabling
<1>4. CASE EnableWait
  BY <1>4, PlaceSettled DEF EnableWait, WaitForCommand, bufferVars, omxVars, placeVars,
                            PlaceInv, PlaceInStage, Enabling
<1>5. CASE ClearError
  BY <1>5, PlaceSettled DEF ClearError, bufferVars, omxVars, placeVars,
                            PlaceInv, PlaceInStage, Enabling
<1>6. CASE GetInputBuffer
  <2>1. CASE at' = at /\ UNCHANGED <<in_list, buf>>
    BY <1>6, <2>1, PlaceSettled DEF GetInputBuffer, omxVars, placeVars,
                                    PlaceInv, PlaceInStage, Enabling
  <2>2. CASE in_list # <<>> /\ buf' = Head(in_list) /\ Unlink /\ at' = "submit"
    <3>1. /\ at = "get" /\ taken = <<>> /\ buf = NoBuffer
          /\ UNCHANGED <<taken, emptying, allocated>>
      BY <1>6 DEF GetInputBuffer, omxVars, PlaceInv, PlaceInStage, Enabling
    <3>2. /\ in_list' \in Seq(Buffer) /\ IsInjective(in_list') /\ buf' \in ToSet(in_list)
          /\ ToSet(in_list') = ToSet(in_list) \ {buf'}
      BY <2>2, ElementsOfTail DEF Unlink, PlaceInv, Queues, Once
    <3>3. buf' \in Buffer /\ buf' # NoBuffer
      BY <3>2, ElementsOf, ILBuffersAssumption DEF PlaceInv, Queues
    <3>4. QED
      BY <2>2, <3>1, <3>2, <3>3
         DEF PlaceInv, Queues, Once, Apart, Somewhere, Held, PlaceInStage, Enabling
  <2>3. QED
    BY <1>6, <2>1, <2>2 DEF GetInputBuffer
<1>7. CASE Submit
  <2>1. CASE UNCHANGED <<emptying, buf>>
    BY <1>7, <2>1, PlaceSettled DEF Submit, placeVars, PlaceInv, PlaceInStage, Enabling
  <2>2. CASE emptying' = Append(emptying, buf) /\ buf' = NoBuffer
             /\ at \in {"submit", "last"} /\ at' \in {"get", "disable"}
    <3>1. UNCHANGED <<in_list, taken, allocated>>
      BY <1>7 DEF Submit
    <3>2. buf \in Buffer /\ buf # NoBuffer /\ buf \notin ToSet(emptying) /\ taken = <<>>
          /\ buf \notin ToSet(in_list) /\ buf \notin ToSet(taken)
      BY <2>2 DEF PlaceInv, Queues, Apart, Held, PlaceInStage
    <3>3. /\ emptying' \in Seq(Buffer) /\ IsInjective(emptying')
          /\ ToSet(emptying') = ToSet(emptying) \cup {buf}
      BY <2>2, <3>2, ElementsOfAppend DEF PlaceInv, Queues, Once
    <3>4. QED
      BY <2>2, <3>1, <3>2, <3>3
         DEF PlaceInv, Queues, Once, Apart, Somewhere, Held, PlaceInStage, Enabling
  <2>3. QED
    BY <1>7, <2>1, <2>2 DEF Submit
<1>8. CASE EndLoop
  BY <1>8, PlaceSettled DEF EndLoop, bufferVars, omxVars, placeVars,
                            PlaceInv, PlaceInStage, Enabling
<1>9. CASE DisablePort
  BY <1>9, PlaceSettled DEF DisablePort, Return, placeVars, PlaceInv, PlaceInStage, Enabling
<1>10. CASE TakeBuffers
  <2>1. /\ at = "take" /\ at' = "free" /\ taken' = Reverse(in_list) /\ in_list' = <<>>
        /\ taken = <<>> /\ UNCHANGED <<buf, emptying, allocated>>
    BY <1>10 DEF TakeBuffers, omxVars, PlaceInv, PlaceInStage
  <2>2. /\ taken' \in Seq(Buffer) /\ IsInjective(taken')
        /\ ToSet(taken') = ToSet(in_list)
    BY <2>1, ElementsOfReverse DEF PlaceInv, Queues, Once
  <2>3. in_list' \in Seq(Buffer) /\ ToSet(in_list') = {} /\ IsInjective(in_list')
    BY <2>1, EmptyElements
  <2>4. ToSet(taken) = {}
    BY <2>1, EmptyElements
  <2>5. QED
    BY <2>1, <2>2, <2>3, <2>4
       DEF PlaceInv, Queues, Once, Apart, Somewhere, Held, PlaceInStage, Enabling
<1>11. CASE FreeBuffer
  <2> DEFINE b == Head(taken)
  <2>1. /\ at = "free" /\ at' = at /\ taken # <<>> /\ taken' = Tail(taken)
        /\ allocated' = allocated \ {b} /\ UNCHANGED <<in_list, buf, emptying>>
    BY <1>11 DEF FreeBuffer
  <2>2. /\ taken' \in Seq(Buffer) /\ IsInjective(taken') /\ b \in ToSet(taken)
        /\ ToSet(taken') = ToSet(taken) \ {b}
    BY <2>1, ElementsOfTail DEF PlaceInv, Queues, Once
  <2> HIDE DEF b
  <2>3. b \notin ToSet(in_list) /\ b \notin ToSet(emptying) /\ b \notin Held
    BY <2>2 DEF PlaceInv, Apart
  <2>4. QED
    BY <2>1, <2>2, <2>3
       DEF PlaceInv, Queues, Once, Apart, Somewhere, Held, PlaceInStage, Enabling
<1>12. CASE FreedAll
  BY <1>12, PlaceSettled DEF FreedAll, bufferVars, omxVars, placeVars,
                             PlaceInv, PlaceInStage, Enabling
<1>13. CASE WaitMissing
  BY <1>13, PlaceSettled DEF WaitMissing, omxVars, placeVars, PlaceInv, PlaceInStage, Enabling
<1>14. CASE LookForEnd
  BY <1>14, PlaceSettled DEF LookForEnd, Return, bufferVars, omxVars, placeVars,
                             PlaceInv, PlaceInStage, Enabling
<1>15. CASE DisableWait
  BY <1>15, PlaceSettled DEF DisableWait, WaitForCommand, Return, bufferVars, omxVars,
                             placeVars, PlaceInv, PlaceInStage, Enabling
<1>16. CASE ilclient_empty_buffer_done
  <2>1. CASE UNCHANGED <<in_list, emptying>>
    BY <1>16, <2>1, PlaceSettled DEF ilclient_empty_buffer_done, placeVars,
                                     PlaceInv, PlaceInStage, Enabling
  <2>2. CASE emptying # <<>> /\ AppendBuffer
    <3> DEFINE b == Head(emptying)
    <3>1. /\ in_list' = Append(in_list, b) /\ emptying' = Tail(emptying)
          /\ UNCHANGED <<at, buf, taken, allocated>>
      BY <1>16, <2>2 DEF ilclient_empty_buffer_done, AppendBuffer
    <3>2. /\ emptying' \in Seq(Buffer) /\ IsInjective(emptying') /\ b \in ToSet(emptying)
          /\ ToSet(emptying') = ToSet(emptying) \ {b}
      BY <2>2, <3>1, ElementsOfTail DEF PlaceInv, Queues, Once
    <3> HIDE DEF b
    <3>3. b \in Buffer /\ b \notin ToSet(in_list) /\ b \notin ToSet(taken) /\ b \notin Held
      BY <3>2, ElementsOf DEF PlaceInv, Queues, Apart
    <3>4. /\ in_list' \in Seq(Buffer) /\ IsInjective(in_list')
          /\ ToSet(in_list') = ToSet(in_list) \cup {b}
      BY <3>1, <3>3, ElementsOfAppend DEF PlaceInv, Queues, Once
    <3>5. QED
      BY <3>1, <3>2, <3>3, <3>4
         DEF PlaceInv, Queues, Once, Apart, Somewhere, Held, PlaceInStage, Enabling
  <2>3. QED
    BY <1>16, <2>1, <2>2 DEF ilclient_empty_buffer_done, AppendFirst, SetFlag
<1>17. CASE PortEnabled \/ EnableFailed \/ PortDisabled \/ StreamCorrupt
  BY <1>17, PlaceSettled DEF PortEnabled, EnableFailed, PortDisabled, StreamCorrupt, Answer,
                             bufferVars, omxVars, placeVars, PlaceInv, PlaceInStage, Enabling
<1>18. CASE UNCHANGED vars
  BY <1>18, PlaceSettled DEF vars, bufferVars, omxVars, placeVars,
                             PlaceInv, PlaceInStage, Enabling
<1>19. QED
  BY <1>1, <1>2, <1>3, <1>4, <1>5, <1>6, <1>7, <1>8, <1>9, <1>10, <1>11, <1>12, <1>13,
     <1>14, <1>15, <1>16, <1>17, <1>18
     DEF Next, Client, OpenMAX

\* A buffer of the port is never in two of the places the library keeps buffers
\* in, and OpenMAX knows of exactly the buffers that are in one of them
\* (ilclient.c:894-993): whatever the number of buffers, and however often
\* OpenMAX refuses a call.
THEOREM BuffersInOnePlace == Spec => []BufferInOnePlace
<1>1. Spec => []PlaceInv
  BY PlaceInit, PlaceNext, PTL DEF Spec
<1>2. QED
  BY <1>1, PlaceImplies, PTL

-----------------------------------------------------------------------------
(* The event list of the decoder                                            *)

\* A set of natural numbers has a least element: SelectInSeq finds a place in
\* the list unless it returns 0.
LEMMA LeastPlace == ASSUME NEW I \in SUBSET Nat, I # {} PROVE Min(I) \in I
<1>1. \E x \in I : \A y \in I : ~(<<y, x>> \in OpToRel(<, Nat))
  BY NatLessThanWellFounded, WFMin
<1>2. \A x, y \in Nat : y < x => <<y, x>> \in OpToRel(<, Nat)
  BY DEF OpToRel
<1>a. \A x, y \in Nat : ~(y < x) => x <= y
  OBVIOUS
<1>b. \E x \in I : \A y \in I : x <= y
  BY <1>1, <1>2, <1>a
<1>3. QED
  BY <1>b DEF Min

\* Taking an event out of the list.
LEMMA ElementsOfRemoveAt ==
  ASSUME NEW S, NEW s \in Seq(S), NEW i \in 1 .. Len(s)
  PROVE  /\ RemoveAt(s, i) \in Seq(S) /\ ToSet(RemoveAt(s, i)) \subseteq ToSet(s)
         /\ IsInjective(s) => IsInjective(RemoveAt(s, i))
<1> DEFINE n == Len(s)
           a == SubSeq(s, 1, i - 1)
           b == SubSeq(s, i + 1, n)
           t == a \o b
           from(k) == IF k < i THEN k ELSE k + 1
<1>1. n \in Nat /\ i \in 1 .. n /\ \A k \in 1 .. n : s[k] \in S
  OBVIOUS
<1>2. a \in Seq(S) /\ Len(a) = i - 1 /\ \A k \in 1 .. i - 1 : a[k] = s[k]
  BY <1>1, SubSeqProperties
<1>3. b \in Seq(S) /\ Len(b) = n - i /\ \A k \in 1 .. n - i : b[k] = s[i + k]
  BY <1>1, SubSeqProperties
<1>4. t \in Seq(S) /\ Len(t) = Len(a) + Len(b)
      /\ \A k \in 1 .. Len(a) + Len(b) : t[k] = IF k <= Len(a) THEN a[k] ELSE b[k - Len(a)]
  BY <1>2, <1>3, ConcatProperties
<1> HIDE DEF n, a, b, t
<1>5. \A k \in 1 .. Len(t) : from(k) \in 1 .. n /\ t[k] = s[from(k)]
  <2> SUFFICES ASSUME NEW k \in 1 .. Len(t) PROVE from(k) \in 1 .. n /\ t[k] = s[from(k)]
    OBVIOUS
  <2>1. CASE k < i
    BY <1>1, <1>2, <1>3, <1>4, <2>1
  <2>2. CASE ~(k < i)
    <3>1. k - (i - 1) \in 1 .. n - i /\ t[k] = b[k - (i - 1)]
      BY <1>1, <1>2, <1>3, <1>4, <2>2
    <3>2. i + (k - (i - 1)) = k + 1
      BY <1>1, <1>2, <1>3, <1>4
    <3>3. QED
      BY <1>1, <1>3, <3>1, <3>2, <2>2
  <2>3. QED
    BY <2>1, <2>2
<1>6. \A k, l \in 1 .. Len(t) : from(k) = from(l) => k = l
  BY <1>1, <1>2, <1>3, <1>4
<1> HIDE DEF from
<1>7. ToSet(s) = {s[k] : k \in 1 .. n} /\ ToSet(t) = {t[k] : k \in 1 .. Len(t)}
      /\ (IsInjective(s) <=> \A k, l \in 1 .. n : s[k] = s[l] => k = l)
      /\ (IsInjective(t) <=> \A k, l \in 1 .. Len(t) : t[k] = t[l] => k = l)
  BY <1>4, ElementsOf DEF n
<1>8. ToSet(t) \subseteq ToSet(s)
  BY <1>5, <1>7
<1>9. IsInjective(s) => IsInjective(t)
  BY <1>5, <1>6, <1>7
<1>10. QED
  BY <1>4, <1>8, <1>9 DEF RemoveAt, t, a, b, n

EnableDone == CmdComplete("PortEnable", Port)
DisableDone == CmdComplete("PortDisable", Port)
EnableFail == Error("Failed", "1")
Corrupt == Error("StreamCorrupt", "0")
Events == {EnableDone, DisableDone, EnableFail, Corrupt}
Queued == ToSet(list[decode])

ListOK == list \in [Component -> Seq(Events)] /\ IsInjective(list[decode])

\* Taking an event leaves a list of other events.
LEMMA ListShrinks ==
  ASSUME ListOK, NEW i \in 1 .. Len(list[decode]), TakeEvent(decode, i)
  PROVE  ListOK' /\ Queued' \subseteq Queued
<1>1. decode \in Component
  BY ILBuffersAssumption
<1>2. list[decode] \in Seq(Events)
  BY <1>1 DEF ListOK
<1>3. list' = [list EXCEPT ![decode] = RemoveAt(list[decode], i)]
  BY DEF TakeEvent
<1>4. RemoveAt(list[decode], i) \in Seq(Events)
  BY <1>2, ElementsOfRemoveAt
<1>5. list' \in [Component -> Seq(Events)] /\ list'[decode] = RemoveAt(list[decode], i)
  BY <1>1, <1>3, <1>4 DEF ListOK
<1>6. QED
  BY <1>2, <1>5, ElementsOfRemoveAt DEF ListOK, Queued

\* The handler queues an event that is not there at most; as none is there
\* twice, it drops no duplicates.
LEMMA ListGrows ==
  ASSUME ListOK, NEW e \in Events, e \notin Queued, ilclient_event_handler(decode, e)
  PROVE  ListOK' /\ Queued' \subseteq Queued \cup {e}
<1> DEFINE l == list[decode]
<1>1. decode \in Component /\ l \in Seq(Events)
  BY ILBuffersAssumption DEF ListOK
<1>2. WithoutDuplicates(l) = l
  BY DEF WithoutDuplicates, ListOK
<1>3. list' = [list EXCEPT ![decode] = <<e>> \o l] \/ list' = [list EXCEPT ![decode] = l]
  BY <1>2 DEF ilclient_event_handler
<1> HIDE DEF l
<1>4. /\ <<e>> \o l \in Seq(Events) /\ ToSet(<<e>> \o l) = {e} \cup ToSet(l)
      /\ IsInjective(<<e>> \o l)
  <2>1. <<e>> \in Seq(Events) /\ ToSet(<<e>>) = {e} /\ IsInjective(<<e>>)
    BY ElementsOfOne
  <2>2. IsInjective(l) /\ {e} \cap ToSet(l) = {}
    BY DEF ListOK, Queued, l
  <2>3. QED
    BY <1>1, <2>1, <2>2, ElementsOfConcat
<1>5. list' \in [Component -> Seq(Events)] /\ list'[decode] \in {<<e>> \o l, l}
  BY <1>1, <1>3, <1>4 DEF ListOK
<1>6. QED
  BY <1>4, <1>5 DEF ListOK, Queued, l

-----------------------------------------------------------------------------
(* What the decoder still owes, and what the client has come to             *)

NotRefused == "PortEnable" \notin refused
Disabling == {"take", "free", "missing", "look", "disable_wait", "disabled", "assert",
              "clear", "over"}
BeforeDisable == {"use", "queue", "enable_wait", "get", "submit", "last", "disable"}

\* An answer is queued once, and only when its command is not pending any more.
AnsweredOnce ==
  /\ EnableDone \in Queued \/ EnableFail \in Queued => "PortEnable" \notin pending
  /\ DisableDone \in Queued => "PortDisable" \notin pending
AnswerInStage ==
  /\ at = "enable" => Queued = {} /\ pending = {}
  /\ "PortDisable" \in pending => at \in Disabling
  /\ DisableDone \in Queued => at \in Disabling /\ allocated = {}
  /\ NotRefused /\ EnableFail \in Queued => at \in Disabling
Streaming == at = "get" \/ caller = "video_decode_test"
EnabledForGood ==
  NotRefused /\ Streaming => "PortEnable" \notin pending /\ EnableFail \notin Queued
CallerInStage ==
  /\ caller \in {"enable_port_buffers", "video_decode_test"}
  /\ at \in {"enable", "use", "queue", "enable_wait"} => caller = "enable_port_buffers"
  /\ at \in {"submit", "last"} => caller = "video_decode_test"
  /\ caller = "enable_port_buffers" => emptying = <<>> /\ buf = NoBuffer
  /\ caller = "enable_port_buffers" /\ at \in {"free", "missing", "look"} => in_list = <<>>
FreedInStage ==
  /\ at \in {"enable"} \cup BeforeDisable \cup Disabling
  /\ at = "enable" => allocated = {}
  /\ NotRefused /\ at \in BeforeDisable => bEnabled
  /\ NotRefused /\ at \in {"disabled", "clear", "over"} => allocated = {}

LeakInv ==
  /\ PlaceInv /\ ListOK /\ AnsweredOnce /\ AnswerInStage /\ EnabledForGood
  /\ CallerInStage /\ FreedInStage

LEMMA LeakInit == Init => LeakInv
<1> SUFFICES ASSUME Init PROVE LeakInv
  OBVIOUS
<1>1. decode \in Component
  BY ILBuffersAssumption
<1>2. list = [c \in Component |-> <<>>]
  BY DEF Init, EventsInit
<1>3. ListOK /\ Queued = {}
  BY <1>1, <1>2, EmptyElements DEF ListOK, Queued
<1>4. QED
  BY <1>3, PlaceInit DEF Init, LeakInv, AnsweredOnce, AnswerInStage, EnabledForGood,
     Streaming, CallerInStage, FreedInStage, BeforeDisable

LEMMA LeakImplies == LeakInv => NothingLeaked
BY DEF LeakInv, FreedInStage, NothingLeaked, NotRefused

\* The events that the client looks for.
LEMMA EventFound ==
  ASSUME ListOK, NEW i \in 1 .. Len(list[decode])
  PROVE  list[decode][i] \in Queued /\ list[decode][i] \in Events
BY ILBuffersAssumption, ElementsOf DEF ListOK, Queued

\* The four events that can be in the list are told apart.
LEMMA EventsDiffer ==
  /\ EnableDone # DisableDone /\ EnableDone # EnableFail /\ EnableDone # Corrupt
  /\ DisableDone # EnableFail /\ DisableDone # Corrupt /\ EnableFail # Corrupt
  /\ \A e \in Events : FailedCommand(e) => e = EnableFail
  /\ \A e \in Events : Succeeded(e) => e \in {EnableDone, DisableDone}
BY DEF EnableDone, DisableDone, EnableFail, Corrupt, Events, FailedCommand, Succeeded,
       CmdComplete, Error

\* The wait for a command succeeds only with the answer to that command.
LEMMA WaitFinds ==
  ASSUME ListOK, NEW command \in {"PortEnable", "PortDisable"}, NEW r \in {0, -1},
         WaitReturns(decode, command, Port, NoComponent, r)
  PROVE  /\ ListOK' /\ Queued' \subseteq Queued
         /\ r = 0 => CmdComplete(command, Port) \in Queued
<1> DEFINE I == {k \in 1 .. Len(list[decode]) :
                   CompletesOrFails(list[decode][k], command, Port)}
           i == IF I # {} THEN Min(I) ELSE 0
<1>1. TakeEvent(decode, i) /\ r = (IF Succeeded(list[decode][i]) THEN 0 ELSE -1)
  BY DEF WaitReturns, PlaceOfEnd, SelectInSeq
<1>2. I # {} /\ i = Min(I)
  BY <1>1 DEF TakeEvent
<1>3. i \in 1 .. Len(list[decode]) /\ CompletesOrFails(list[decode][i], command, Port)
  <2>1. I \in SUBSET Nat
    OBVIOUS
  <2>2. i \in I
    BY <1>2, <2>1, LeastPlace
  <2>3. QED
    BY <2>2
<1> HIDE DEF i, I
<1>4. ListOK' /\ Queued' \subseteq Queued
  BY <1>1, <1>3, ListShrinks
<1>5. ASSUME r = 0 PROVE CmdComplete(command, Port) \in Queued
  <2>1. Succeeded(list[decode][i])
    BY <1>1, <1>5
  <2>2. list[decode][i] \in {EnableDone, DisableDone} /\ list[decode][i] \in Queued
    BY <1>3, <2>1, EventFound, EventsDiffer
  <2>3. ~FailedCommand(list[decode][i])
    BY <2>2, EventsDiffer DEF Events
  <2>4. QED
    BY <1>3, <2>2, <2>3 DEF CompletesOrFails
<1>6. QED
  BY <1>4, <1>5

LEMMA ListSame == ListOK /\ UNCHANGED list => ListOK' /\ Queued' = Queued
BY DEF ListOK, Queued

\* Nothing is freed, enabled, asked or refused: the client goes on.
LEMMA LeakSettled ==
  ASSUME LeakInv, PlaceInv', ListOK', Queued' \subseteq Queued,
         UNCHANGED <<allocated, bEnabled, pending, refused, caller, buf, emptying>>,
         \/ at' = at
         \/ at \in Disabling /\ at' \in Disabling
         \/ at \in BeforeDisable /\ at' \in BeforeDisable \cup {"take"},
         at' \in {"use", "queue", "enable_wait"} => at \in {"use", "queue", "enable_wait"},
         at' = "get" => at = "get" \/ (NotRefused => EnableDone \in Queued),
         at' \in {"submit", "last"} => at \in {"submit", "last"},
         caller = "enable_port_buffers" /\ at' \in {"free", "missing", "look"}
           => in_list' = <<>>,
         NotRefused /\ at' \in {"disabled", "clear", "over"} => allocated = {}
  PROVE  LeakInv'
BY DEF LeakInv, AnsweredOnce, AnswerInStage, EnabledForGood, Streaming, CallerInStage,
       FreedInStage, NotRefused, Disabling, BeforeDisable

\* With nothing handed over or to be taken, nothing is left with OpenMAX.
LEMMA EnablingFreesAll ==
  ASSUME LeakInv, caller = "enable_port_buffers", at \in {"missing", "look"}
  PROVE  allocated = {}
<1>1. /\ in_list = <<>> /\ taken = <<>> /\ emptying = <<>> /\ buf = NoBuffer
      /\ ToSet(in_list) \cup ToSet(taken) \cup ToSet(emptying) \cup Held = allocated
  BY DEF LeakInv, CallerInStage, PlaceInv, PlaceInStage, Somewhere
<1>2. QED
  BY <1>1, EmptyElements DEF Held

LEMMA LeakNext == LeakInv /\ [Next]_vars => LeakInv'
<1> SUFFICES ASSUME LeakInv, [Next]_vars PROVE LeakInv'
  OBVIOUS
<1> USE DEF Goto
<1>0. PlaceInv' /\ PlaceInv /\ ListOK /\ CallerInStage /\ FreedInStage
  BY PlaceNext DEF LeakInv
<1>s. ASSUME UNCHANGED list PROVE ListOK' /\ Queued' = Queued
  BY <1>0, <1>s, ListSame
<1>t. ASSUME NEW i, NEW I \in SUBSET (1 .. Len(list[decode])),
             i = (IF I # {} THEN Min(I) ELSE 0), TakeEvent(decode, i)
      PROVE  ListOK' /\ Queued' \subseteq Queued /\ i \in I /\ i \in 1 .. Len(list[decode])
  <2>1. I # {} /\ I \in SUBSET Nat
    BY <1>t DEF TakeEvent
  <2>2. i \in I /\ i \in 1 .. Len(list[decode])
    BY <2>1, <1>t, LeastPlace
  <2>3. QED
    BY <1>0, <1>t, <2>2, ListShrinks
<1>1. CASE EnablePort
  <2>1. UNCHANGED list
    BY <1>1 DEF EnablePort, Silent, eventVars
  <2>2. QED
    BY <1>0, <1>1, <1>s, <2>1
       DEF LeakInv, AnsweredOnce, AnswerInStage, EnabledForGood, Streaming,
           CallerInStage, FreedInStage, NotRefused, Disabling, BeforeDisable,
           EnablePort, bufferVars
<1>2. CASE UseBuffer
  <2>1. UNCHANGED list
    BY <1>2 DEF UseBuffer, Silent, eventVars
  <2>2. QED
    BY <1>0, <1>2, <1>s, <2>1
       DEF LeakInv, AnsweredOnce, AnswerInStage, EnabledForGood, Streaming,
           CallerInStage, FreedInStage, NotRefused, Disabling, BeforeDisable,
           UseBuffer, Refuse
<1>3. CASE QueueBuffers
  <2>1. UNCHANGED list
    BY <1>3 DEF QueueBuffers, Silent, eventVars
  <2>2. at' \in {"enable_wait", "disable"} /\ at \in {"use", "queue"}
    BY <1>3 DEF QueueBuffers
  <2>3. QED
    BY <1>0, <1>3, <1>s, <2>1, <2>2, LeakSettled
       DEF QueueBuffers, omxVars, Disabling, BeforeDisable
<1>4. CASE EnableWait
  <2>1. CASE UNCHANGED <<list, at>>
    BY <1>0, <1>4, <1>s, <2>1, LeakSettled
       DEF EnableWait, WaitForCommand, bufferVars, omxVars, Disabling, BeforeDisable
  <2>2. ASSUME NEW r \in {0, -1}, at = "enable_wait",
               WaitReturns(decode, "PortEnable", Port, NoComponent, r),
               at' = IF r = 0 THEN "get" ELSE "disable"
        PROVE  LeakInv'
    <3>1. /\ ListOK' /\ Queued' \subseteq Queued
          /\ (r = 0 => EnableDone \in Queued)
      BY <1>0, <2>2, WaitFinds DEF EnableDone
    <3>2. at' = "disable" \/ (at' = "get" /\ EnableDone \in Queued)
      BY <2>2, <3>1
    <3>3. QED
      BY <1>0, <1>4, <2>2, <3>1, <3>2, LeakSettled
         DEF EnableWait, WaitForCommand, bufferVars, omxVars, Disabling, BeforeDisable
  <2>3. QED
    BY <1>4, <2>1, <2>2 DEF EnableWait, WaitForCommand, Silent, FlagsGet, eventVars
<1>5. CASE ClearError
  <2> DEFINE I == {k \in 1 .. Len(list[decode]) : FailedCommand(list[decode][k])}
             i == IF I # {} THEN Min(I) ELSE 0
  <2>1. TakeEvent(decode, i) \/ UNCHANGED list
    BY <1>5 DEF ClearError, SelectInSeq
  <2>2. I \in SUBSET (1 .. Len(list[decode]))
    OBVIOUS
  <2> HIDE DEF I
  <2>3. ListOK' /\ Queued' \subseteq Queued
    BY <1>s, <1>t, <2>1, <2>2
  <2>4. /\ at = "clear" /\ at' = "over" /\ UNCHANGED <<bufferVars, omxVars>>
    BY <1>5 DEF ClearError
  <2>5. QED
    BY <1>0, <2>3, <2>4, LeakSettled
       DEF FreedInStage, bufferVars, omxVars, Disabling, BeforeDisable
<1>6. CASE GetInputBuffer
  <2>1. UNCHANGED list
    BY <1>6 DEF GetInputBuffer, Silent, FlagsGet, eventVars
  <2>2. QED
    BY <1>0, <1>6, <1>s, <2>1
       DEF LeakInv, AnsweredOnce, AnswerInStage, EnabledForGood, Streaming,
           CallerInStage, FreedInStage, NotRefused, Disabling, BeforeDisable,
           GetInputBuffer, omxVars
<1>7. CASE Submit
  <2>1. UNCHANGED list
    BY <1>7 DEF Submit, Silent, eventVars
  <2>2. QED
    BY <1>0, <1>7, <1>s, <2>1
       DEF LeakInv, AnsweredOnce, AnswerInStage, EnabledForGood, Streaming,
           CallerInStage, FreedInStage, NotRefused, Disabling, BeforeDisable,
           Submit, Refuse
<1>8. CASE EndLoop
  <2>1. UNCHANGED list
    BY <1>8 DEF EndLoop, Silent, eventVars
  <2>2. QED
    BY <1>0, <1>8, <1>s, <2>1, LeakSettled
       DEF EndLoop, bufferVars, omxVars, Disabling, BeforeDisable
<1>9. CASE DisablePort
  <2>1. UNCHANGED list
    BY <1>9 DEF DisablePort, Silent, eventVars
  <2>2. QED
    BY <1>0, <1>9, <1>s, <2>1
       DEF LeakInv, AnsweredOnce, AnswerInStage, EnabledForGood, Streaming,
           CallerInStage, FreedInStage, NotRefused, Disabling, BeforeDisable,
           DisablePort, Return
<1>10. CASE TakeBuffers
  <2>1. UNCHANGED list
    BY <1>10 DEF TakeBuffers, Silent, eventVars
  <2>2. QED
    BY <1>0, <1>10, <1>s, <2>1, LeakSettled
       DEF TakeBuffers, omxVars, Disabling, BeforeDisable
<1>11. CASE FreeBuffer
  <2>1. UNCHANGED list
    BY <1>11 DEF FreeBuffer, Silent, eventVars
  <2>2. QED
    BY <1>0, <1>11, <1>s, <2>1
       DEF LeakInv, AnsweredOnce, AnswerInStage, EnabledForGood, Streaming,
           CallerInStage, FreedInStage, NotRefused, Disabling, BeforeDisable,
           FreeBuffer
<1>12. CASE FreedAll
  <2>1. UNCHANGED list
    BY <1>12 DEF FreedAll, Silent, eventVars
  <2>2. QED
    BY <1>0, <1>12, <1>s, <2>1, LeakSettled
       DEF FreedAll, bufferVars, omxVars, CallerInStage, Disabling, BeforeDisable
<1>13. CASE WaitMissing
  <2>1. UNCHANGED list
    BY <1>13 DEF WaitMissing, FlagsGet
  <2>2. QED
    BY <1>0, <1>13, <1>s, <2>1, LeakSettled
       DEF WaitMissing, omxVars, CallerInStage, Disabling, BeforeDisable
<1>14. CASE LookForEnd
  <2> DEFINE F == {k \in 1 .. Len(list[decode]) :
                     EndsDisable(list[decode][k]) /\ IsError(list[decode][k])}
             D == {k \in 1 .. Len(list[decode]) : EndsDisable(list[decode][k])}
             f == IF F # {} THEN Min(F) ELSE 0
             d == IF D # {} THEN Min(D) ELSE 0
  <2>1. /\ at = "look" /\ UNCHANGED <<bufferVars, omxVars>>
        /\ \/ TakeEvent(decode, f) /\ Return
           \/ TakeEvent(decode, d) /\ Return
           \/ at' = "take" /\ UNCHANGED list
    BY <1>14 DEF LookForEnd, SelectInSeq
  <2>2. CASE at' = "take" /\ UNCHANGED list
    BY <1>0, <1>s, <2>1, <2>2, LeakSettled DEF bufferVars, omxVars, Disabling, BeforeDisable
  <2>3. ASSUME NEW i \in 1 .. Len(list[decode]), EndsDisable(list[decode][i]),
               TakeEvent(decode, i), Return
        PROVE  LeakInv'
    <3>1. ListOK' /\ Queued' \subseteq Queued
      BY <1>0, <2>3, ListShrinks
    <3>2. at' = IF caller = "enable_port_buffers" THEN "clear" ELSE "over"
      BY <2>3 DEF Return
    <3>3. EnableFail \in Queued \/ DisableDone \in Queued
      <4>1. list[decode][i] \in Queued /\ list[decode][i] \in Events
        BY <1>0, EventFound
      <4>2. QED
        BY <2>3, <4>1, EventsDiffer DEF EndsDisable, DisableDone
    <3>4. NotRefused => allocated = {}
      <4>1. CASE caller = "enable_port_buffers"
        BY <2>1, <4>1, EnablingFreesAll
      <4>2. CASE caller # "enable_port_buffers"
        BY <4>2, <3>3 DEF LeakInv, CallerInStage, EnabledForGood, Streaming, AnswerInStage
      <4>3. QED
        BY <4>1, <4>2
    <3>5. QED
      BY <1>0, <2>1, <3>1, <3>2, <3>4, LeakSettled
         DEF bufferVars, omxVars, NotRefused, Disabling, BeforeDisable
  <2>4. F \in SUBSET (1 .. Len(list[decode])) /\ D \in SUBSET (1 .. Len(list[decode]))
        /\ (\A k \in F : EndsDisable(list[decode][k]))
        /\ (\A k \in D : EndsDisable(list[decode][k]))
    OBVIOUS
  <2> HIDE DEF F, D
  <2>5. CASE TakeEvent(decode, f) /\ Return
    <3>1. f \in F /\ f \in 1 .. Len(list[decode])
      BY <1>t, <2>4, <2>5
    <3>2. QED
      BY <2>3, <2>4, <2>5, <3>1
  <2>6. CASE TakeEvent(decode, d) /\ Return
    <3>1. d \in D /\ d \in 1 .. Len(list[decode])
      BY <1>t, <2>4, <2>6
    <3>2. QED
      BY <2>3, <2>4, <2>6, <3>1
  <2>7. QED
    BY <2>1, <2>2, <2>5, <2>6
<1>15. CASE DisableWait
  <2>1. CASE UNCHANGED list /\ (at' = at \/ (at = "disabled" /\ Return))
    <3>1. /\ UNCHANGED <<bufferVars, omxVars>> /\ ListOK' /\ Queued' = Queued
          /\ at \in {"disable_wait", "disabled"} /\ at' \in {at, "clear", "over"}
          /\ at' # at => at = "disabled"
      BY <1>15, <1>s, <2>1 DEF DisableWait, WaitForCommand, Return
    <3>2. QED
      BY <1>0, <3>1, LeakSettled
         DEF bufferVars, omxVars, FreedInStage, NotRefused, Disabling, BeforeDisable
  <2>2. ASSUME NEW r \in {0, -1}, at = "disable_wait",
               WaitReturns(decode, "PortDisable", Port, NoComponent, r),
               at' = (IF r = 0 THEN "disabled" ELSE "assert")
        PROVE  LeakInv'
    <3>1. /\ ListOK' /\ Queued' \subseteq Queued
          /\ (r = 0 => DisableDone \in Queued)
      BY <1>0, <2>2, WaitFinds DEF DisableDone
    <3>2. at' = "assert" \/ (at' = "disabled" /\ allocated = {})
      BY <2>2, <3>1 DEF LeakInv, AnswerInStage
    <3>3. UNCHANGED <<bufferVars, omxVars>>
      BY <1>15, <2>2 DEF DisableWait, WaitForCommand
    <3>4. QED
      BY <1>0, <2>2, <3>1, <3>2, <3>3, LeakSettled
         DEF bufferVars, omxVars, Disabling, BeforeDisable
  <2>3. QED
    BY <1>15, <2>1, <2>2 DEF DisableWait, WaitForCommand, Silent, FlagsGet, eventVars
<1>16. CASE ilclient_empty_buffer_done
  <2>1. UNCHANGED list
    BY <1>16 DEF ilclient_empty_buffer_done, AppendFirst, AppendBuffer, SetFlag, Silent,
                 eventVars
  <2>2. CASE UNCHANGED <<in_list, emptying>>
    BY <1>0, <1>16, <1>s, <2>1, <2>2, LeakSettled
       DEF ilclient_empty_buffer_done, CallerInStage, FreedInStage
  <2>3. CASE emptying # <<>>
    BY <1>0, <1>16, <1>s, <2>1, <2>3
       DEF LeakInv, AnsweredOnce, AnswerInStage, EnabledForGood, Streaming,
           CallerInStage, FreedInStage, NotRefused, Disabling, BeforeDisable,
           ilclient_empty_buffer_done
  <2>4. QED
    BY <1>16, <2>2, <2>3 DEF ilclient_empty_buffer_done, AppendFirst, SetFlag
<1>17. CASE PortEnabled
  <2>1. /\ "PortEnable" \in pending /\ pending' = pending \ {"PortEnable"}
        /\ ilclient_event_handler(decode, EnableDone)
        /\ UNCHANGED <<at, phase, bufferVars, allocated, emptying, done, bEnabled, refused>>
    BY <1>17 DEF PortEnabled, Answer, EnableDone
  <2>2. EnableDone \notin Queued /\ EnableDone \in Events
    BY <2>1 DEF LeakInv, AnsweredOnce, Events
  <2>3. ListOK' /\ Queued' \subseteq Queued \cup {EnableDone}
    BY <1>0, <2>1, <2>2, ListGrows
  <2>4. QED
    BY <1>0, <2>1, <2>3, EventsDiffer
       DEF LeakInv, AnsweredOnce, AnswerInStage, EnabledForGood, Streaming,
           CallerInStage, FreedInStage, NotRefused, Disabling, BeforeDisable,
           bufferVars
<1>18. CASE EnableFailed
  <2>1. /\ "PortEnable" \in pending /\ pending' = pending \ {"PortEnable"}
        /\ ilclient_event_handler(decode, EnableFail)
        /\ UNCHANGED <<at, phase, bufferVars, allocated, emptying, done>>
        /\ \/ "PortDisable" \in pending /\ UNCHANGED <<bEnabled, refused>>
           \/ refused' = refused \cup {"PortEnable"}
    BY <1>18 DEF EnableFailed, Answer, EnableFail, Refuse
  <2>2. EnableFail \notin Queued /\ EnableFail \in Events
    BY <2>1 DEF LeakInv, AnsweredOnce, Events
  <2>3. ListOK' /\ Queued' \subseteq Queued \cup {EnableFail}
    BY <1>0, <2>1, <2>2, ListGrows
  <2>4. QED
    BY <1>0, <2>1, <2>3, EventsDiffer
       DEF LeakInv, AnsweredOnce, AnswerInStage, EnabledForGood, Streaming,
           CallerInStage, FreedInStage, NotRefused, Disabling, BeforeDisable,
           bufferVars
<1>19. CASE PortDisabled
  <2>1. /\ "PortDisable" \in pending /\ pending' = pending \ {"PortDisable"}
        /\ ilclient_event_handler(decode, DisableDone) /\ allocated = {}
        /\ UNCHANGED <<at, phase, bufferVars, allocated, emptying, done, bEnabled, refused>>
    BY <1>19 DEF PortDisabled, Answer, DisableDone
  <2>2. DisableDone \notin Queued /\ DisableDone \in Events
    BY <2>1 DEF LeakInv, AnsweredOnce, Events
  <2>3. ListOK' /\ Queued' \subseteq Queued \cup {DisableDone}
    BY <1>0, <2>1, <2>2, ListGrows
  <2>4. QED
    BY <1>0, <2>1, <2>3, EventsDiffer
       DEF LeakInv, AnsweredOnce, AnswerInStage, EnabledForGood, Streaming,
           CallerInStage, FreedInStage, NotRefused, Disabling, BeforeDisable,
           bufferVars
<1>20. CASE StreamCorrupt
  <2>1. /\ emptying # <<>> /\ ~Contains(list[decode], Corrupt)
        /\ ilclient_event_handler(decode, Corrupt)
        /\ UNCHANGED <<at, phase, bufferVars, omxVars>>
    BY <1>20 DEF StreamCorrupt, Corrupt
  <2>2. Corrupt \notin Queued /\ Corrupt \in Events
    BY <1>0, <2>1, ElementsOf, ILBuffersAssumption DEF ListOK, Contains, Queued, Events
  <2>3. ListOK' /\ Queued' \subseteq Queued \cup {Corrupt}
    BY <1>0, <2>1, <2>2, ListGrows
  <2>4. QED
    BY <1>0, <2>1, <2>3, EventsDiffer
       DEF LeakInv, AnsweredOnce, AnswerInStage, EnabledForGood, Streaming,
           CallerInStage, FreedInStage, NotRefused, Disabling, BeforeDisable,
           bufferVars, omxVars
<1>21. CASE UNCHANGED vars
  BY <1>0, <1>s, <1>21, LeakSettled
     DEF vars, eventVars, bufferVars, omxVars, CallerInStage, FreedInStage
<1>22. QED
  BY <1>1, <1>2, <1>3, <1>4, <1>5, <1>6, <1>7, <1>8, <1>9, <1>10, <1>11, <1>12, <1>13,
     <1>14, <1>15, <1>16, <1>17, <1>18, <1>19, <1>20, <1>21
     DEF Next, Client, OpenMAX

\* When the client is through with the port, no buffer is left with OpenMAX,
\* unless OpenMAX refused to enable the port (ilclient.c:863-996): the error
\* answer that a cancelled enable command leaves in the list ends the waiting
\* of disable_port_buffers, but only when all buffers are freed by then.
THEOREM NoBufferLeaks == Spec => []NothingLeaked
<1>1. Spec => []LeakInv
  BY LeakInit, LeakNext, PTL DEF Spec
<1>2. QED
  BY <1>1, LeakImplies, PTL
=============================================================================
