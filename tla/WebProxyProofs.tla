---------------------------- MODULE WebProxyProofs ----------------------------
(***************************************************************************)
(* Proofs about the web proxy (WebProxy.tla) for any set of clients, any   *)
(* heartbeat limit and any number of processes, lines and messages.        *)
(*                                                                         *)
(* The heartbeat: the lock is held exactly where the timer is used, so the *)
(* value the heartbeat thread read is still the timer when it stores it.   *)
(*                                                                         *)
(* The processes: without a lock around startTracking and stopTracking,    *)
(* what holds is conditional.  As long as no two threads were in them at   *)
(* once, a thread about to start or to forget a process knows that none    *)
(* lives, and a living one is `camprocess`.                                *)
(*                                                                         *)
(* The lines: a line may be sent twice only if the reader meets a client   *)
(* twice in one walk along a list that changes under it.  It cannot, since *)
(* a client joins at the end and once, and one that leaves moves the later *)
(* ones towards the front.                                                 *)
(***************************************************************************)
EXTENDS WebProxy, SequenceTheorems, WellFoundedInduction, TLAPS

-----------------------------------------------------------------------------
(* The heartbeat                                                            *)

PcOK == pc = [t \in Thread |-> pc[t]]
\* Where a thread holds the lock.
Holder(t) ==
  \/ t \in Client /\ pc[t] = "reset"
  \/ t = HB /\ pc[t] \in {"count", "store"}
LockHeld == \A t \in Thread : Holder(t) => heartbeatLock = t
SeenTimer ==
  /\ heartbeatTimer = silent
  /\ pc[HB] = "store" => seen = heartbeatTimer

BeatInv == PcOK /\ LockHeld /\ SeenTimer

\* What the assumption says of the threads.
LEMMA Distinct ==
  /\ HB \in Thread /\ Reader \in Thread /\ Reader # HB
  /\ \A c \in Client : c \in Thread /\ c # HB /\ c # Reader
  /\ \A t \in Thread : t # None
BY ProxyAssumption DEF Thread

\* Nobody holds or uses anything at the start.
LEMMA PcInit == Init => PcOK /\ \A t \in Thread : pc[t] \in {"tick", "open", "absent"}
<1> SUFFICES ASSUME Init PROVE PcOK /\ \A t \in Thread : pc[t] \in {"tick", "open", "absent"}
  OBVIOUS
<1> DEFINE first(t) == CASE t = HB -> "tick" [] t = Reader -> "open" [] OTHER -> "absent"
<1>1. pc = [t \in Thread |-> first(t)]
  BY DEF Init
<1>2. \A t \in Thread : first(t) \in {"tick", "open", "absent"}
  <2> SUFFICES ASSUME NEW t \in Thread PROVE first(t) \in {"tick", "open", "absent"}
    OBVIOUS
  <2>1. CASE t = HB
    BY <2>1, Zenon
  <2>2. CASE t # HB /\ t = Reader
    BY <2>2, Zenon
  <2>3. CASE t # HB /\ t # Reader
    BY <2>3, Zenon
  <2>4. QED
    BY <2>1, <2>2, <2>3
<1> HIDE DEF first
<1>3. QED
  BY <1>1, <1>2 DEF PcOK

\* Where stopTracking returns to.
LEMMA StopGoesOn == ASSUME NEW t \in Thread PROVE AfterStop(t) \in {"tick", "remove", "read"}
<1>1. CASE t = HB
  BY <1>1, Zenon DEF AfterStop
<1>2. CASE t # HB /\ t \in leaving
  BY <1>2, Zenon DEF AfterStop
<1>3. CASE t # HB /\ t \notin leaving
  BY <1>3, Zenon DEF AfterStop
<1>4. QED
  BY <1>1, <1>2, <1>3

LEMMA BeatInit == Init => BeatInv
BY PcInit, Distinct DEF Init, BeatInv, LockHeld, Holder, SeenTimer

Elsewhere(l) == l \notin {"reset", "count", "store", "stop"}

\* A step that leaves the heartbeat alone moves one thread at most, and not to
\* where the lock is held.
LEMMA BeatSettled ==
  ASSUME BeatInv, UNCHANGED beatVars,
         \/ UNCHANGED pc
         \/ \E t \in Thread : \E l : Elsewhere(l) /\ pc' = [pc EXCEPT ![t] = l]
         \/ \E t \in Client : \E l : l # "reset" /\ pc' = [pc EXCEPT ![t] = l]
  PROVE  BeatInv' /\ (pc'[HB] = "stop" => pc[HB] = "stop")
BY Distinct DEF BeatInv, PcOK, LockHeld, Holder, SeenTimer, beatVars, Elsewhere

\* Every step: whoever holds the lock is alone, and only TickStore stops.
LEMMA BeatNext ==
  BeatInv /\ [Next]_vars =>
    BeatInv' /\ (pc[HB] # "stop" /\ pc'[HB] = "stop" => silent' = HeartbeatLimit)
<1> DEFINE Stopped == pc[HB] # "stop" /\ pc'[HB] = "stop" => silent' = HeartbeatLimit
<1> SUFFICES ASSUME BeatInv, [Next]_vars PROVE BeatInv' /\ Stopped
  OBVIOUS
<1> USE DEF Goto, Elsewhere
<1>1. ASSUME NEW t \in Thread, Raise(t)
      PROVE  pc' = [pc EXCEPT ![t] = "finish"] \/ pc' = [pc EXCEPT ![t] = "ended"]
  BY <1>1 DEF Raise
<1>2. ASSUME NEW t \in Thread, CastNext(t) \/ SendTo(t) PROVE BeatInv' /\ Stopped
  BY <1>1, <1>2, BeatSettled DEF CastNext, SendTo
<1>3. ASSUME NEW t \in Thread, startTracking(t) \/ Spawn(t) \/ Terminate(t)
      PROVE  BeatInv' /\ Stopped
  BY <1>1, <1>3, BeatSettled DEF startTracking, Spawn, Terminate
<1>4. ASSUME NEW t \in Thread, stopTracking(t) PROVE BeatInv' /\ Stopped
  BY <1>4, BeatSettled DEF stopTracking
<1>5. ASSUME NEW t \in Thread, Clear(t) PROVE BeatInv' /\ Stopped
  <2>1. AfterStop(t) \in {"tick", "remove", "read"}
    BY StopGoesOn
  <2>2. pc' = [pc EXCEPT ![t] = AfterStop(t)] /\ UNCHANGED beatVars
    BY <1>5 DEF Clear
  <2>3. QED
    BY <2>1, <2>2, BeatSettled
<1>6. ASSUME NEW c \in Client,
             Connect(c) \/ PeerGone(c) \/ doReplay(c) \/ ReadEnds(c) \/ Finish(c)
               \/ Unregister(c)
      PROVE  BeatInv' /\ Stopped
  BY <1>6, BeatSettled, Distinct
     DEF Connect, PeerGone, doReplay, ReadEnds, Finish, Unregister
<1>r. ASSUME NEW c \in Client, NEW m \in {"start", "stop", "replay", "heartbeat"},
             Receive(c, m)
      PROVE  BeatInv' /\ Stopped
  BY <1>r, BeatSettled, Distinct DEF Receive
<1>7. ASSUME NEW t \in Thread, NEW from \in {"heartbeat", "tick"}, NEW to \in {"reset", "count"},
             Acquire(t, from, to),
             (t \in Client /\ to = "reset") \/ (t = HB /\ to = "count")
      PROVE  BeatInv' /\ Stopped
  <2>1. /\ heartbeatLock = None /\ heartbeatLock' = t /\ pc' = [pc EXCEPT ![t] = to]
        /\ UNCHANGED <<heartbeatTimer, seen, silent>>
    BY <1>7 DEF Acquire, LockFree
  <2>2. \A u \in Thread : ~Holder(u)
    BY <2>1, Distinct DEF BeatInv, LockHeld
  <2>3. QED
    BY <1>7, <2>1, <2>2, Distinct DEF BeatInv, PcOK, LockHeld, Holder, SeenTimer
<1>8. ASSUME NEW c \in Client, Beat(c) PROVE BeatInv' /\ Stopped
  <2>1. /\ pc[c] = "reset" /\ heartbeatTimer' = 0 /\ silent' = 0 /\ heartbeatLock' = None
        /\ pc' = [pc EXCEPT ![c] = "read"] /\ UNCHANGED seen
    BY <1>8 DEF Beat
  <2>2. heartbeatLock = c /\ \A u \in Thread : Holder(u) => u = c
    BY <2>1, Distinct DEF BeatInv, LockHeld, Holder
  <2>3. QED
    BY <2>1, <2>2, Distinct DEF BeatInv, PcOK, LockHeld, Holder, SeenTimer
<1>9. CASE TickRead
  BY <1>9, Distinct DEF TickRead, BeatInv, PcOK, LockHeld, Holder, SeenTimer
<1>10. CASE TickStore
  <2>1. /\ pc[HB] = "store" /\ heartbeatTimer' = seen + 1 /\ silent' = silent + 1
        /\ heartbeatLock' = None
        /\ pc' = [pc EXCEPT ![HB] =
                    IF heartbeatTimer' = HeartbeatLimit THEN "stop" ELSE "tick"]
    BY <1>10 DEF TickStore
  <2>2. heartbeatLock = HB /\ \A u \in Thread : Holder(u) => u = HB
    BY <2>1, Distinct DEF BeatInv, LockHeld, Holder
  <2>3. heartbeatTimer' = silent'
    BY <2>1 DEF BeatInv, SeenTimer
  <2>4. pc'[HB] \in {"stop", "tick"} /\ (pc'[HB] = "stop" => heartbeatTimer' = HeartbeatLimit)
        /\ \A t \in Thread : t # HB => pc'[t] = pc[t]
    BY <2>1, Distinct DEF BeatInv, PcOK
  <2>5. PcOK'
    BY <2>1, Distinct DEF BeatInv, PcOK
  <2>6. QED
    BY <2>2, <2>3, <2>4, <2>5, Distinct DEF BeatInv, LockHeld, Holder, SeenTimer
<1>11. CASE ReaderOpens \/ ReaderReads
  BY <1>11, BeatSettled, Distinct DEF ReaderOpens, ReaderReads
<1>12. ASSUME NEW k, Pkill(k) \/ Exec(k) \/ Crash(k) PROVE BeatInv' /\ Stopped
  BY <1>12, BeatSettled DEF Pkill, Exec, Crash
<1>13. ASSUME NEW k, TrackerWrites(k) PROVE BeatInv' /\ Stopped
  <2>1. UNCHANGED pc \/ pc' = [pc EXCEPT ![Reader] = "read"]
    BY <1>13, Zenon DEF TrackerWrites
  <2>2. UNCHANGED beatVars
    BY <1>13 DEF TrackerWrites
  <2>3. QED
    BY <2>1, <2>2, BeatSettled, Distinct
<1>14. CASE UNCHANGED vars
  BY <1>14, BeatSettled DEF vars
<1>15. ASSUME NEW c \in Client, Handler(c) PROVE BeatInv' /\ Stopped
  <2>1. c \in Thread
    BY Distinct
  <2>2. CASE CastNext(c) \/ SendTo(c) \/ startTracking(c) \/ Spawn(c) \/ Terminate(c)
             \/ stopTracking(c) \/ Clear(c)
    BY <1>2, <1>3, <1>4, <1>5, <2>1, <2>2
  <2>3. CASE doReplay(c) \/ ReadEnds(c) \/ Finish(c) \/ Unregister(c)
    BY <1>6, <2>3
  <2>4. CASE Acquire(c, "heartbeat", "reset")
    BY <1>7, <2>1, <2>4
  <2>5. CASE Beat(c)
    BY <1>8, <2>5
  <2>6. QED
    BY <1>15, <2>2, <2>3, <2>4, <2>5 DEF Handler
<1>16. CASE HeartbeatThread
  BY <1>3, <1>4, <1>5, <1>7, <1>9, <1>10, <1>16, Distinct DEF HeartbeatThread
<1>17. CASE ReadThread
  BY <1>2, <1>11, <1>17, Distinct DEF ReadThread
<1>18. QED
  BY <1>6, <1>r, <1>12, <1>13, <1>14, <1>15, <1>16, <1>17 DEF Next

\* No tick overwrites a heartbeat: when the heartbeat thread goes on to stop the
\* camera, it has counted the whole limit since the last one
\* (webproxy.py:80-84, 130-139).
THEOREM NoHeartbeatLost == Spec => HeartbeatHonoured
<1>1. Spec => []BeatInv
  BY BeatInit, BeatNext, PTL DEF Spec
<1>2. BeatInv /\ [Next]_vars
        => [pc[HB] # "stop" /\ pc'[HB] = "stop" => silent' = HeartbeatLimit]_vars
  BY BeatNext
<1>3. QED
  BY <1>1, <1>2, PTL DEF Spec, HeartbeatHonoured

-----------------------------------------------------------------------------
(* The processes                                                            *)

\* Processes that live, and threads between the test of camprocess and its use.
Alive == {"script", "cleared", "running"}
Mid == {"spawn", "terminate", "clear"}
TrackingOK == proc = [k \in 1 .. MaxSpawns |-> proc[k]]
OneInTracking == \A t, u \in Thread : pc[t] \in Mid /\ pc[u] \in Mid => t = u
Controlled == \A k \in 1 .. MaxSpawns : proc[k] \in Alive => camprocess = k
NoneAlive == \A k \in 1 .. MaxSpawns : proc[k] \notin Alive
NothingToStop ==
  (\E t \in Thread : pc[t] \in {"spawn", "clear"}) => NoneAlive

TrackInv ==
  /\ PcOK /\ TrackingOK
  /\ ~overlapped => OneInTracking /\ Controlled /\ NothingToStop

LEMMA TrackInit == Init => TrackInv
<1> SUFFICES ASSUME Init PROVE TrackInv
  OBVIOUS
<1>1. PcOK /\ \A t \in Thread : pc[t] \notin Mid
  BY PcInit DEF Mid
<1>2. TrackingOK /\ NoneAlive
  BY DEF Init, TrackingOK, NoneAlive, Alive
<1>3. QED
  BY <1>1, <1>2 DEF TrackInv, OneInTracking, Controlled, NothingToStop, NoneAlive, Mid

\* A thread moves to where it neither starts nor stops the camera.
LEMMA TrackSettled ==
  ASSUME TrackInv, UNCHANGED camVars,
         \/ UNCHANGED pc
         \/ \E t \in Thread : \E l : l \notin Mid /\ pc' = [pc EXCEPT ![t] = l]
  PROVE  TrackInv'
BY DEF TrackInv, PcOK, TrackingOK, OneInTracking, Controlled, NothingToStop, NoneAlive,
       Mid, camVars

\* A process comes no nearer to life.
LEMMA TrackProcesses ==
  ASSUME TrackInv, TrackingOK', UNCHANGED <<pc, overlapped, camprocess>>,
         \A k \in 1 .. MaxSpawns : proc'[k] \in Alive => proc[k] \in Alive
  PROVE  TrackInv'
BY DEF TrackInv, PcOK, OneInTracking, Controlled, NothingToStop, NoneAlive

\* The only thread that starts or stops the camera.
LEMMA Alone ==
  ASSUME TrackInv, NEW t \in Thread, InTracking(t), NoteOverlap(t), ~overlapped'
  PROVE  /\ ~overlapped /\ OneInTracking /\ Controlled /\ NothingToStop
         /\ \A u \in Thread : u # t => pc[u] \notin Mid
BY DEF TrackInv, InTracking, NoteOverlap, Mid

LEMMA TrackNext == TrackInv /\ [Next]_vars => TrackInv'
<1> SUFFICES ASSUME TrackInv, [Next]_vars PROVE TrackInv'
  OBVIOUS
<1> USE DEF Goto
<1>0. PcOK /\ TrackingOK
  BY DEF TrackInv
<1>1. ASSUME NEW t \in Thread, CastNext(t) \/ SendTo(t) PROVE TrackInv'
  BY <1>1, TrackSettled DEF CastNext, SendTo, Raise, Mid
<1>2. ASSUME NEW c \in Client,
             Connect(c) \/ PeerGone(c) \/ doReplay(c) \/ ReadEnds(c) \/ Finish(c)
               \/ Unregister(c)
      PROVE  TrackInv'
  BY <1>2, TrackSettled, Distinct
     DEF Connect, PeerGone, doReplay, ReadEnds, Finish, Unregister, Mid
<1>3. ASSUME NEW c \in Client, NEW m \in {"start", "stop", "replay", "heartbeat"},
             Receive(c, m)
      PROVE  TrackInv'
  BY <1>3, TrackSettled, Distinct DEF Receive, Mid
<1>4. ASSUME NEW t \in Thread, startTracking(t) PROVE TrackInv'
  <2>1. /\ InTracking(t) /\ NoteOverlap(t) /\ UNCHANGED <<camprocess, proc>>
        /\ pc' = [pc EXCEPT ![t] = IF camprocess = None THEN "spawn" ELSE "read"]
    BY <1>4 DEF startTracking, InTracking, MayStart
  <2>2. PcOK' /\ TrackingOK' /\ \A u \in Thread : u # t => pc'[u] = pc[u]
    BY <2>1, <1>0 DEF PcOK, TrackingOK
  <2>3. ASSUME ~overlapped' PROVE OneInTracking' /\ Controlled' /\ NothingToStop'
    <3>1. /\ Controlled /\ NothingToStop
          /\ \A u \in Thread : u # t => pc'[u] \notin Mid
      BY <2>1, <2>2, <2>3, Alone
    <3>2. pc'[t] = "spawn" => NoneAlive
      <4>1. pc'[t] = "spawn" => camprocess = None
        BY <2>1, <1>0 DEF PcOK
      <4>2. None \notin 1 .. MaxSpawns
        BY DEF None
      <4>3. QED
        BY <3>1, <4>1, <4>2 DEF Controlled, NoneAlive
    <3>3. pc'[t] \in {"spawn", "read"}
      BY <2>1, <1>0 DEF PcOK
    <3>4. QED
      BY <3>1, <3>2, <3>3, <2>1 DEF OneInTracking, Controlled, NothingToStop, NoneAlive, Mid
  <2>4. QED
    BY <2>2, <2>3 DEF TrackInv
<1>5. ASSUME NEW t \in Thread, Spawn(t) PROVE TrackInv'
  <2>1. PICK k \in 1 .. MaxSpawns :
          proc' = [proc EXCEPT ![k] = "script"] /\ camprocess' = k
    BY <1>5 DEF Spawn
  <2>2. /\ InTracking(t) /\ NoteOverlap(t) /\ pc[t] = "spawn"
        /\ pc' = [pc EXCEPT ![t] = "read"]
    BY <1>5 DEF Spawn, InTracking
  <2>3. /\ PcOK' /\ TrackingOK' /\ pc'[t] = "read"
        /\ \A u \in Thread : u # t => pc'[u] = pc[u]
    BY <2>1, <2>2, <1>0 DEF PcOK, TrackingOK
  <2>4. ASSUME ~overlapped' PROVE OneInTracking' /\ Controlled' /\ NothingToStop'
    <3>1. /\ NothingToStop /\ \A u \in Thread : u # t => pc'[u] \notin Mid
      BY <2>2, <2>3, <2>4, Alone
    <3>2. NoneAlive
      BY <2>2, <3>1 DEF NothingToStop
    <3>3. \A j \in 1 .. MaxSpawns : j # k => proc'[j] \notin Alive
      BY <2>1, <3>2, <1>0 DEF TrackingOK, NoneAlive
    <3>4. QED
      BY <2>1, <2>3, <3>1, <3>3 DEF OneInTracking, Controlled, NothingToStop, Mid
  <2>5. QED
    BY <2>3, <2>4 DEF TrackInv
<1>6. ASSUME NEW t \in Thread, stopTracking(t) PROVE TrackInv'
  <2>1. /\ InTracking(t) /\ NoteOverlap(t) /\ UNCHANGED <<camprocess, proc>>
        /\ pc' = [pc EXCEPT ![t] = IF camprocess # None THEN "terminate" ELSE "clear"]
    BY <1>6 DEF stopTracking, InTracking
  <2>2. /\ PcOK' /\ TrackingOK' /\ pc'[t] \in {"terminate", "clear"}
        /\ pc'[t] = "clear" => camprocess = None
        /\ \A u \in Thread : u # t => pc'[u] = pc[u]
    BY <2>1, <1>0 DEF PcOK, TrackingOK
  <2>3. ASSUME ~overlapped' PROVE OneInTracking' /\ Controlled' /\ NothingToStop'
    <3>1. /\ Controlled /\ NothingToStop
          /\ \A u \in Thread : u # t => pc'[u] \notin Mid
      BY <2>1, <2>2, <2>3, Alone
    <3>2. camprocess = None => NoneAlive
      <4>1. None \notin 1 .. MaxSpawns
        BY DEF None
      <4>2. QED
        BY <3>1, <4>1 DEF Controlled, NoneAlive
    <3>3. QED
      BY <3>1, <3>2, <2>1, <2>2
         DEF OneInTracking, Controlled, NothingToStop, NoneAlive, Mid
  <2>4. QED
    BY <2>2, <2>3 DEF TrackInv
<1>7. ASSUME NEW t \in Thread, Terminate(t) PROVE TrackInv'
  <2>1. /\ InTracking(t) /\ NoteOverlap(t) /\ UNCHANGED camprocess
        /\ \/ /\ UNCHANGED proc
              /\ \E l \in {"finish", "ended"} : pc' = [pc EXCEPT ![t] = l]
           \/ /\ proc' = [proc EXCEPT ![camprocess] = "dead"]
              /\ pc' = [pc EXCEPT ![t] = "clear"]
    BY <1>7 DEF Terminate, InTracking, Raise
  <2>2. /\ PcOK' /\ TrackingOK' /\ \A u \in Thread : u # t => pc'[u] = pc[u]
    BY <2>1, <1>0 DEF PcOK, TrackingOK
  <2>3. ASSUME ~overlapped' PROVE OneInTracking' /\ Controlled' /\ NothingToStop'
    <3>1. /\ Controlled /\ NothingToStop
          /\ \A u \in Thread : u # t => pc'[u] \notin Mid
      BY <2>1, <2>2, <2>3, Alone
    <3>2. CASE UNCHANGED proc /\ \E l \in {"finish", "ended"} : pc' = [pc EXCEPT ![t] = l]
      <4>1. pc'[t] \in {"finish", "ended"}
        BY <3>2, <1>0 DEF PcOK
      <4>2. QED
        BY <2>1, <3>1, <3>2, <4>1
           DEF OneInTracking, Controlled, NothingToStop, NoneAlive, Mid
    <3>3. CASE /\ proc' = [proc EXCEPT ![camprocess] = "dead"]
               /\ pc' = [pc EXCEPT ![t] = "clear"]
      <4>1. \A k \in 1 .. MaxSpawns : proc'[k] \notin Alive
        BY <3>1, <3>3, <1>0 DEF Controlled, TrackingOK, Alive
      <4>2. QED
        BY <3>1, <4>1 DEF OneInTracking, Controlled, NothingToStop, NoneAlive, Mid
    <3>4. QED
      BY <2>1, <3>2, <3>3
  <2>4. QED
    BY <2>2, <2>3 DEF TrackInv
<1>8. ASSUME NEW t \in Thread, Clear(t) PROVE TrackInv'
  <2>1. /\ InTracking(t) /\ NoteOverlap(t) /\ pc[t] = "clear" /\ UNCHANGED proc
        /\ \E l \in {"tick", "remove", "read"} : pc' = [pc EXCEPT ![t] = l]
    BY <1>8, StopGoesOn DEF Clear, InTracking
  <2>2. /\ PcOK' /\ TrackingOK' /\ pc'[t] \in {"tick", "remove", "read"}
        /\ \A u \in Thread : u # t => pc'[u] = pc[u]
    BY <2>1, <1>0 DEF PcOK, TrackingOK
  <2>3. ASSUME ~overlapped' PROVE OneInTracking' /\ Controlled' /\ NothingToStop'
    <3>1. /\ NothingToStop /\ \A u \in Thread : u # t => pc'[u] \notin Mid
      BY <2>1, <2>2, <2>3, Alone
    <3>2. NoneAlive
      BY <2>1, <3>1 DEF NothingToStop
    <3>3. QED
      BY <2>1, <2>2, <3>1, <3>2
         DEF OneInTracking, Controlled, NothingToStop, NoneAlive, Mid
  <2>4. QED
    BY <2>2, <2>3 DEF TrackInv
<1>9. ASSUME NEW t \in Thread, NEW from, NEW to \in {"reset", "count"}, Acquire(t, from, to)
      PROVE  TrackInv'
  BY <1>9, TrackSettled DEF Acquire, Mid
<1>10. ASSUME NEW c \in Client, Beat(c) PROVE TrackInv'
  BY <1>10, TrackSettled, Distinct DEF Beat, Mid
<1>11. CASE TickRead \/ TickStore
  BY <1>11, TrackSettled, Distinct DEF TickRead, TickStore, Mid
<1>12. CASE ReaderOpens \/ ReaderReads
  BY <1>12, TrackSettled, Distinct DEF ReaderOpens, ReaderReads, Mid
<1>13. ASSUME NEW k \in 1 .. MaxSpawns, Pkill(k) PROVE TrackInv'
  <2> DEFINE after(j) == CASE j = k -> "cleared"
                           [] proc[j] = "running" -> "dead"
                           [] OTHER -> proc[j]
  <2>1. /\ proc[k] = "script" /\ proc' = [j \in DOMAIN proc |-> after(j)]
        /\ UNCHANGED <<camprocess, overlapped, pc>>
    BY <1>13 DEF Pkill
  <2>2. \A j \in 1 .. MaxSpawns : j = k \/ after(j) \in {"dead", proc[j]}
    <3> SUFFICES ASSUME NEW j \in 1 .. MaxSpawns, j # k PROVE after(j) \in {"dead", proc[j]}
      OBVIOUS
    <3>1. CASE proc[j] = "running"
      BY <3>1, Zenon
    <3>2. CASE proc[j] # "running"
      BY <3>2, Zenon
    <3>3. QED
      BY <3>1, <3>2
  <2> HIDE DEF after
  <2>3. DOMAIN proc = 1 .. MaxSpawns
    BY <1>0 DEF TrackingOK
  <2>4. TrackingOK' /\ \A j \in 1 .. MaxSpawns : proc'[j] = after(j)
    BY <2>1, <2>3 DEF TrackingOK
  <2>5. \A j \in 1 .. MaxSpawns : proc'[j] \in Alive => proc[j] \in Alive
    BY <2>1, <2>2, <2>4 DEF Alive
  <2>6. QED
    BY <2>1, <2>4, <2>5, TrackProcesses
<1>14. ASSUME NEW k \in 1 .. MaxSpawns, Exec(k) \/ Crash(k) PROVE TrackInv'
  <2>1. /\ proc[k] \in Alive /\ UNCHANGED <<camprocess, overlapped, pc>>
        /\ \E l : proc' = [proc EXCEPT ![k] = l]
    BY <1>14 DEF Exec, Crash, Alive
  <2>2. TrackingOK' /\ \A j \in 1 .. MaxSpawns : proc'[j] \in Alive => proc[j] \in Alive
    BY <2>1, <1>0 DEF TrackingOK
  <2>3. QED
    BY <2>1, <2>2, TrackProcesses
<1>15. ASSUME NEW k \in 1 .. MaxSpawns, TrackerWrites(k) PROVE TrackInv'
  <2>1. UNCHANGED pc \/ pc' = [pc EXCEPT ![Reader] = "read"]
    BY <1>15, Zenon DEF TrackerWrites
  <2>2. UNCHANGED camVars
    BY <1>15 DEF TrackerWrites
  <2>3. QED
    BY <2>1, <2>2, TrackSettled, Distinct DEF Mid
<1>16. CASE UNCHANGED vars
  BY <1>16, TrackSettled DEF vars
<1>17. ASSUME NEW c \in Client, Handler(c) PROVE TrackInv'
  BY <1>1, <1>2, <1>4, <1>5, <1>6, <1>7, <1>8, <1>9, <1>10, <1>17, Distinct DEF Handler
<1>18. CASE HeartbeatThread
  BY <1>5, <1>6, <1>7, <1>8, <1>9, <1>11, <1>18, Distinct DEF HeartbeatThread
<1>19. CASE ReadThread
  BY <1>1, <1>12, <1>19, Distinct DEF ReadThread
<1>20. QED
  BY <1>2, <1>3, <1>13, <1>14, <1>15, <1>16, <1>17, <1>18, <1>19 DEF Next

\* As long as startTracking and stopTracking did not overlap, a process that
\* lives is the one stopTracking would terminate, whatever crashes, however the
\* scripts kill each other and whoever leaves (webproxy.py:38-48).
THEOREM TrackerAlwaysControlled == Spec => []TrackerControlled
<1>1. TrackInv => TrackerControlled
  BY DEF TrackInv, TrackerControlled, TrackingOK, Controlled, Alive
<1>2. QED
  BY <1>1, TrackInit, TrackNext, PTL DEF Spec

-----------------------------------------------------------------------------
(* The lines                                                                *)

\* A set of places that is not empty has a first one.
LEMMA LeastPlace == ASSUME NEW I \in SUBSET Nat, I # {} PROVE Min(I) \in I
<1>1. \E x \in I : \A y \in I : ~(<<y, x>> \in OpToRel(<, Nat))
  BY NatLessThanWellFounded, WFMin
<1>2. \A x, y \in Nat : y < x => <<y, x>> \in OpToRel(<, Nat)
  BY DEF OpToRel
<1>3. \A x, y \in Nat : ~(y < x) => x <= y
  OBVIOUS
<1>4. \E x \in I : \A y \in I : x <= y
  BY <1>1, <1>2, <1>3
<1>5. QED
  BY <1>4 DEF Min

NoRepeat(s) == \A i, j \in 1 .. Len(s) : s[i] = s[j] => i = j

\* Taking a client out of the list moves the later ones one place forward.
LEMMA WithoutFirst ==
  ASSUME NEW S, NEW s \in Seq(S), NEW e
  PROVE  /\ RemoveFirst(s, e) \in Seq(S)
         /\ \A j \in 1 .. Len(RemoveFirst(s, e)) :
              \/ j \in 1 .. Len(s) /\ RemoveFirst(s, e)[j] = s[j]
              \/ j + 1 \in 1 .. Len(s) /\ RemoveFirst(s, e)[j] = s[j + 1]
         /\ NoRepeat(s) => NoRepeat(RemoveFirst(s, e))
<1>1. CASE ~\E i \in 1 .. Len(s) : s[i] = e
  BY <1>1 DEF RemoveFirst
<1>2. CASE \E i \in 1 .. Len(s) : s[i] = e
  <2> DEFINE I == {k \in 1 .. Len(s) : s[k] = e}
             i == IF I # {} THEN Min(I) ELSE 0
             n == Len(s)
             a == SubSeq(s, 1, i - 1)
             b == SubSeq(s, i + 1, n)
             t == a \o b
             from(k) == IF k < i THEN k ELSE k + 1
  <2>1. RemoveFirst(s, e) = t
    BY <1>2 DEF RemoveFirst, RemoveAt, SelectInSeq
  <2>2. n \in Nat /\ i \in 1 .. n
    <3>1. I # {} /\ I \in SUBSET Nat
      BY <1>2
    <3>2. i \in I
      BY <3>1, LeastPlace
    <3>3. QED
      BY <3>2
  <2> HIDE DEF i, I
  <2>3. \A k \in 1 .. n : s[k] \in S
    OBVIOUS
  <2>4. a \in Seq(S) /\ Len(a) = i - 1 /\ \A k \in 1 .. i - 1 : a[k] = s[k]
    BY <2>2, <2>3, SubSeqProperties
  <2>5. b \in Seq(S) /\ Len(b) = n - i /\ \A k \in 1 .. n - i : b[k] = s[i + k]
    BY <2>2, <2>3, SubSeqProperties
  <2>6. t \in Seq(S) /\ Len(t) = Len(a) + Len(b)
        /\ \A k \in 1 .. Len(a) + Len(b) : t[k] = IF k <= Len(a) THEN a[k] ELSE b[k - Len(a)]
    BY <2>4, <2>5, ConcatProperties
  <2> HIDE DEF n, a, b, t
  <2>7. \A k \in 1 .. Len(t) : from(k) \in 1 .. n /\ t[k] = s[from(k)]
    <3> SUFFICES ASSUME NEW k \in 1 .. Len(t) PROVE from(k) \in 1 .. n /\ t[k] = s[from(k)]
      OBVIOUS
    <3>1. CASE k < i
      BY <2>2, <2>4, <2>5, <2>6, <3>1
    <3>2. CASE ~(k < i)
      <4>1. k - (i - 1) \in 1 .. n - i /\ t[k] = b[k - (i - 1)]
        BY <2>2, <2>4, <2>5, <2>6, <3>2
      <4>2. i + (k - (i - 1)) = k + 1
        BY <2>2, <2>4, <2>5, <2>6
      <4>3. QED
        BY <2>2, <2>5, <4>1, <4>2, <3>2
    <3>3. QED
      BY <3>1, <3>2
  <2>8. \A k, l \in 1 .. Len(t) : from(k) = from(l) => k = l
    BY <2>2, <2>4, <2>5, <2>6
  <2>9. \A k \in 1 .. Len(t) : from(k) = k \/ from(k) = k + 1
    OBVIOUS
  <2> HIDE DEF from
  <2>10. NoRepeat(s) => NoRepeat(t)
    BY <2>7, <2>8 DEF NoRepeat, n
  <2>11. \A k \in 1 .. Len(t) :
           (k \in 1 .. n /\ t[k] = s[k]) \/ (k + 1 \in 1 .. n /\ t[k] = s[k + 1])
    BY <2>7, <2>9
  <2>12. QED
    BY <2>1, <2>6, <2>10, <2>11 DEF n
<1>3. QED
  BY <1>1, <1>2

LinesType ==
  /\ PcOK /\ target = [t \in Thread |-> target[t]] /\ index \in [Thread -> Nat]
  /\ clients \in Seq(Client) /\ fifo \in Seq(Nat) /\ got \in [Client -> Seq(Nat)]
  /\ line \in Nat /\ written \in Nat

\* The reader has still to come to c in its walk along the list.
Remaining(c) == \E j \in 1 .. Len(clients) : index[Reader] <= j /\ clients[j] = c
LastGot(c) == got[c][Len(got[c])]
HasLine(c) == got[c] # <<>> /\ LastGot(c) = line
Casting == pc[Reader] \in {"cast", "send"}

IndexFromOne == index[Reader] >= 1
\* A client that has not connected has no line and is not in the list.
AbsentIsNew ==
  \A c \in Client : pc[c] = "absent" =>
    got[c] = <<>> /\ \A j \in 1 .. Len(clients) : clients[j] # c
\* The pipe has later lines than the one in hand, in order.
PipeInOrder ==
  /\ line <= written
  /\ \A i \in 1 .. Len(fifo) : line < fifo[i] /\ fifo[i] <= written
  /\ \A i, j \in 1 .. Len(fifo) : i < j => fifo[i] < fifo[j]
NothingNewer == \A c \in Client : got[c] # <<>> => LastGot(c) <= line
\* Who has the line in hand is not met again in this walk.
NotTwice == Casting => \A c \in Client : HasLine(c) => ~Remaining(c)
\* Nor is the client in hand, which does not have the line yet.
InHand ==
  pc[Reader] = "send" =>
    /\ target[Reader] \in Client /\ pc[target[Reader]] # "absent"
    /\ ~Remaining(target[Reader]) /\ ~HasLine(target[Reader])

LinesInv ==
  /\ LinesType /\ NoRepeat(clients) /\ AbsentIsNew /\ PipeInOrder /\ NothingNewer
  /\ NotTwice /\ InHand /\ LinesInOrder /\ IndexFromOne

LEMMA LinesInit == Init => LinesInv
<1> SUFFICES ASSUME Init PROVE LinesInv
  OBVIOUS
<1>1. PcOK /\ \A t \in Thread : pc[t] \in {"tick", "open", "absent"}
  BY PcInit
<1>2. /\ clients = <<>> /\ index = [t \in Thread |-> 1] /\ target = [t \in Thread |-> None]
      /\ fifo = <<>> /\ line = 0 /\ written = 0 /\ got = [c \in Client |-> <<>>]
  BY DEF Init, None
<1>3. LinesType
  BY <1>1, <1>2 DEF LinesType
<1>4. pc[Reader] \notin {"cast", "send"}
  BY <1>1, Distinct
<1>5. QED
  BY <1>2, <1>3, <1>4, Distinct DEF LinesInv, NoRepeat, AbsentIsNew, PipeInOrder, NothingNewer, NotTwice,
     Casting, InHand, LinesInOrder, IndexFromOne

\* A thread other than the reader moves, or the reader to where it sends nothing.
LEMMA LinesSettled ==
  ASSUME LinesInv, UNCHANGED <<clients, got, fifoVars>>, target' = [t \in Thread |-> target'[t]],
         index' \in [Thread -> Nat], index'[Reader] >= 1,
         \/ UNCHANGED pc
         \/ \E t \in Thread : \E l :
              /\ l # "absent" /\ pc' = [pc EXCEPT ![t] = l]
              /\ t = Reader => l \notin {"cast", "send"},
         pc'[Reader] \in {"cast", "send"} => UNCHANGED <<index[Reader], target[Reader]>>
  PROVE  LinesInv'
<1> USE DEF LinesInv
<1>0. /\ PcOK' /\ \A c \in Client : pc'[c] = "absent" => pc[c] = "absent"
      /\ \A l \in {"cast", "send"} : pc'[Reader] = l => pc[Reader] = l
  <2>0. PcOK
    BY DEF LinesType
  <2>1. CASE UNCHANGED pc
    BY <2>0, <2>1 DEF PcOK
  <2>2. ASSUME NEW t \in Thread, NEW l, l # "absent", pc' = [pc EXCEPT ![t] = l],
               t = Reader => l \notin {"cast", "send"}
        PROVE  /\ PcOK' /\ \A c \in Client : pc'[c] = "absent" => pc[c] = "absent"
               /\ \A m \in {"cast", "send"} : pc'[Reader] = m => pc[Reader] = m
    BY <2>0, <2>2, Distinct DEF PcOK
  <2>3. QED
    BY <2>1, <2>2
<1>1. LinesType' /\ NoRepeat(clients)'
  BY <1>0 DEF LinesType, NoRepeat, fifoVars
<1>2. /\ \A c \in Client : pc'[c] = "absent" => pc[c] = "absent"
      /\ \A l \in {"cast", "send"} : pc'[Reader] = l => pc[Reader] = l
  BY <1>0
<1>3. AbsentIsNew'
  BY <1>2 DEF AbsentIsNew
<1>4. PipeInOrder' /\ NothingNewer' /\ LinesInOrder'
  BY DEF PipeInOrder, NothingNewer, LastGot, LinesInOrder, fifoVars
<1>5. ASSUME pc'[Reader] \in {"cast", "send"}
      PROVE  \A c : (Remaining(c)' <=> Remaining(c)) /\ (HasLine(c)' <=> HasLine(c))
  <2>1. index'[Reader] = index[Reader]
    BY <1>5
  <2>2. ASSUME NEW c PROVE Remaining(c)' <=> Remaining(c)
    BY <2>1 DEF Remaining
  <2>3. ASSUME NEW c PROVE HasLine(c)' <=> HasLine(c)
    BY DEF HasLine, LastGot, fifoVars
  <2>4. QED
    BY <2>2, <2>3
<1>6. NotTwice'
  <2> SUFFICES ASSUME Casting', NEW c \in Client, HasLine(c)' PROVE ~Remaining(c)'
    BY DEF NotTwice
  <2>1. pc'[Reader] \in {"cast", "send"} /\ Casting
    BY <1>2 DEF Casting
  <2>2. QED
    BY <2>1, <1>5 DEF NotTwice
<1>7. ASSUME pc'[Reader] = "send" PROVE InHand'
  <2>1. /\ target'[Reader] = target[Reader] /\ pc[Reader] = "send"
    BY <1>7, <1>2
  <2>2. pc'[target[Reader]] # "absent"
    BY <2>1, <1>2 DEF InHand
  <2>3. QED
    BY <2>1, <2>2, <1>5, <1>7 DEF InHand
<1>8. QED
  BY <1>1, <1>3, <1>4, <1>6, <1>7 DEF InHand, IndexFromOne

\* The list is one client shorter or longer.
LEMMA LinesListed ==
  ASSUME LinesInv, clients' \in Seq(Client), NoRepeat(clients)', PcOK',
         UNCHANGED <<got, fifoVars, target>>, index' \in [Thread -> Nat],
         index'[Reader] = index[Reader], pc'[Reader] = pc[Reader],
         \A c \in Client : pc'[c] = "absent" => pc[c] = "absent",
         \A c \in Client : Remaining(c)' => Remaining(c) \/ pc[c] = "absent",
         \A c \in Client : pc'[c] = "absent" => \A j \in 1 .. Len(clients') : clients'[j] # c
  PROVE  LinesInv'
<1> USE DEF LinesInv
<1>1. LinesType'
  BY DEF LinesType, fifoVars
<1>2. AbsentIsNew'
  BY DEF AbsentIsNew
<1>3. PipeInOrder' /\ NothingNewer' /\ LinesInOrder'
  BY DEF PipeInOrder, NothingNewer, LastGot, LinesInOrder, fifoVars
<1>4. \A c \in Client : HasLine(c)' <=> HasLine(c)
  BY DEF HasLine, LastGot, fifoVars
<1>5. \A c \in Client : HasLine(c) => pc[c] # "absent"
  BY DEF AbsentIsNew, HasLine
<1>6. NotTwice'
  BY <1>4, <1>5 DEF NotTwice, Casting
<1>7. InHand'
  BY <1>4 DEF InHand
<1>8. QED
  BY <1>1, <1>2, <1>3, <1>6, <1>7 DEF IndexFromOne

\* A new client stands at the end and has no line.
LEMMA ConnectKeepsLines == ASSUME LinesInv, NEW c \in Client, Connect(c) PROVE LinesInv'
<1>1. /\ pc[c] = "absent" /\ clients' = Append(clients, c) /\ index' = [index EXCEPT ![c] = 1]
      /\ pc' = [pc EXCEPT ![c] = "cast"] /\ UNCHANGED <<got, fifoVars, target>>
  BY DEF Connect, Register, Registered, Goto
<1>2. LinesType /\ NoRepeat(clients) /\ \A j \in 1 .. Len(clients) : clients[j] # c
  BY <1>1 DEF LinesInv, AbsentIsNew
<1>3. /\ clients' \in Seq(Client) /\ Len(clients) \in Nat /\ Len(clients') = Len(clients) + 1
      /\ clients'[Len(clients) + 1] = c
      /\ \A j \in 1 .. Len(clients) : clients'[j] = clients[j]
  BY <1>1, <1>2, AppendProperties DEF LinesType
<1>4. \A j \in 1 .. Len(clients') : j \in 1 .. Len(clients) \/ j = Len(clients) + 1
  BY <1>3
<1>5. NoRepeat(clients)'
  BY <1>2, <1>3, <1>4 DEF NoRepeat
<1>6. /\ PcOK' /\ pc'[Reader] = pc[Reader] /\ pc'[c] = "cast"
      /\ \A d \in Client : d # c => pc'[d] = pc[d]
  BY <1>1, <1>2, Distinct DEF LinesType, PcOK
<1>7. index' \in [Thread -> Nat] /\ index'[Reader] = index[Reader]
  BY <1>1, <1>2, Distinct DEF LinesType
<1>8. \A d \in Client : d # c => (Remaining(d)' => Remaining(d))
  BY <1>3, <1>4, <1>7 DEF Remaining
<1>9. ASSUME NEW d \in Client, pc'[d] = "absent"
      PROVE  \A j \in 1 .. Len(clients') : clients'[j] # d
  <2>1. d # c /\ \A j \in 1 .. Len(clients) : clients[j] # d
    BY <1>6, <1>9 DEF LinesInv, AbsentIsNew
  <2>2. QED
    BY <2>1, <1>3, <1>4
<1>10. QED
  BY <1>1, <1>3, <1>5, <1>6, <1>7, <1>8, <1>9, LinesListed

\* The later clients move towards the front, past the reader at worst.
LEMMA UnregisterKeepsLines == ASSUME LinesInv, NEW c \in Client, Unregister(c) PROVE LinesInv'
<1>1. /\ clients' = RemoveFirst(clients, c) /\ pc' = [pc EXCEPT ![c] = "ended"]
      /\ UNCHANGED <<index, got, fifoVars, target>>
  BY DEF Unregister, Goto
<1>2. LinesType /\ NoRepeat(clients) /\ clients \in Seq(Client)
  BY DEF LinesInv, LinesType
<1>3. /\ clients' \in Seq(Client) /\ NoRepeat(clients')
      /\ \A j \in 1 .. Len(clients') :
           \/ j \in 1 .. Len(clients) /\ clients'[j] = clients[j]
           \/ j + 1 \in 1 .. Len(clients) /\ clients'[j] = clients[j + 1]
  BY <1>1, <1>2, WithoutFirst
<1>4. /\ PcOK' /\ pc'[Reader] = pc[Reader] /\ pc'[c] = "ended"
      /\ \A d \in Client : d # c => pc'[d] = pc[d]
  BY <1>1, <1>2, Distinct DEF LinesType, PcOK
<1>5. ASSUME NEW d \in Client, Remaining(d)' PROVE Remaining(d)
  <2>1. PICK j \in 1 .. Len(clients') : index[Reader] <= j /\ clients'[j] = d
    BY <1>1, <1>5 DEF Remaining
  <2>2. index[Reader] \in Nat /\ j \in Nat
    BY <1>2, Distinct DEF LinesType
  <2>3. CASE j \in 1 .. Len(clients) /\ clients'[j] = clients[j]
    BY <2>1, <2>3 DEF Remaining
  <2>4. CASE j + 1 \in 1 .. Len(clients) /\ clients'[j] = clients[j + 1]
    <3>1. index[Reader] <= j + 1
      BY <2>1, <2>2
    <3>2. QED
      BY <2>1, <2>4, <3>1 DEF Remaining
  <2>5. QED
    BY <1>3, <2>3, <2>4
<1>6. ASSUME NEW d \in Client, pc'[d] = "absent"
      PROVE  \A j \in 1 .. Len(clients') : clients'[j] # d
  <2>1. \A j \in 1 .. Len(clients) : clients[j] # d
    BY <1>4, <1>6 DEF LinesInv, AbsentIsNew
  <2>2. QED
    BY <2>1, <1>3
<1>7. QED
  BY <1>1, <1>2, <1>3, <1>4, <1>5, <1>6, LinesListed DEF LinesType

\* The reader comes to the next client, who has not been sent this line and is
\* not further on in the list.
\* The reader's walk: take the next client, send it the line, take a new line.
LEMMA CastKeepsLines == LinesInv /\ CastNext(Reader) => LinesInv'
<1> SUFFICES ASSUME LinesInv, CastNext(Reader) PROVE LinesInv'
  OBVIOUS
<1>1. LinesType /\ NoRepeat(clients) /\ Reader \in Thread /\ index[Reader] \in Nat
      /\ Len(clients) \in Nat
  BY Distinct DEF LinesInv, LinesType
<1>2. CASE index[Reader] > Len(clients)
  <2>1. /\ pc' = [pc EXCEPT ![Reader] = "read"] /\ index' = [index EXCEPT ![Reader] = 1]
        /\ UNCHANGED <<clients, got, fifoVars, target>>
    BY <1>1, <1>2 DEF CastNext, Goto
  <2>2. /\ index' \in [Thread -> Nat] /\ target' = [t \in Thread |-> target'[t]]
        /\ pc'[Reader] = "read" /\ index'[Reader] = 1
    BY <2>1, <1>1 DEF LinesType, PcOK
  <2>3. \E t \in Thread : \E l :
          /\ l # "absent" /\ pc' = [pc EXCEPT ![t] = l]
          /\ t = Reader => l \notin {"cast", "send"}
    <3>1. /\ "read" # "absent" /\ pc' = [pc EXCEPT ![Reader] = "read"]
          /\ Reader = Reader => "read" \notin {"cast", "send"}
      BY <2>1
    <3>2. QED
      BY <3>1, <1>1
  <2>4. /\ UNCHANGED <<clients, got, fifoVars>> /\ index'[Reader] >= 1
        /\ pc'[Reader] \in {"cast", "send"} => UNCHANGED <<index[Reader], target[Reader]>>
    BY <2>1, <2>2
  <2>5. QED
    BY <2>2, <2>3, <2>4, LinesSettled
<1>3. CASE index[Reader] <= Len(clients)
  <2>i. PICK i : i = index[Reader]
    OBVIOUS
  <2>c. PICK c : c = clients[i]
    OBVIOUS
  <2>1. /\ pc[Reader] = "cast" /\ pc' = [pc EXCEPT ![Reader] = "send"]
        /\ index' = [index EXCEPT ![Reader] = i + 1] /\ target' = [target EXCEPT ![Reader] = c]
        /\ UNCHANGED <<clients, got, fifoVars>>
    BY <1>3, <2>i, <2>c DEF CastNext, Goto
  <2>2. LinesType' /\ NoRepeat(clients)'
    <3>1. PcOK'
      BY <2>1, <1>1 DEF LinesType, PcOK
    <3>2. target' = [t \in Thread |-> target'[t]]
      BY <2>1, <1>1 DEF LinesType
    <3>3. index' \in [Thread -> Nat]
      BY <2>1, <2>i, <1>1 DEF LinesType
    <3>4. QED
      BY <3>1, <3>2, <3>3, <2>1, <1>1 DEF LinesType, NoRepeat, fifoVars
  <2>3. /\ index'[Reader] = i + 1 /\ target'[Reader] = c /\ pc'[Reader] = "send"
        /\ \A d \in Client : pc'[d] = pc[d]
    BY <2>1, <1>1, Distinct DEF LinesType, PcOK
  <2>4. \A d \in Client : Remaining(d)' => Remaining(d)
    <3> SUFFICES ASSUME NEW d \in Client, Remaining(d)' PROVE Remaining(d)
      OBVIOUS
    <3>1. PICK j \in 1 .. Len(clients) : i + 1 <= j /\ clients[j] = d
      BY <2>1, <2>3 DEF Remaining
    <3>2. i <= j
      BY <3>1, <2>i, <1>1
    <3>3. QED
      BY <3>1, <3>2, <2>i DEF Remaining
  <2>5. \A d \in Client : HasLine(d)' <=> HasLine(d)
    BY <2>1 DEF HasLine, LastGot, fifoVars
  <2>6. c \in Client /\ pc[c] # "absent" /\ ~HasLine(c) /\ ~Remaining(c)'
    <3>2. i \in 1 .. Len(clients)
      BY <1>1, <1>3, <2>i DEF LinesInv, IndexFromOne
    <3>3. c \in Client
      BY <3>2, <2>c, <1>1 DEF LinesType
    <3>4. pc[c] # "absent"
      BY <3>2, <3>3, <2>c DEF LinesInv, AbsentIsNew
    <3>5. ~HasLine(c)
      <4>1. Remaining(c)
        BY <3>2, <2>i, <2>c, <1>1 DEF Remaining
      <4>2. Casting
        BY <2>1 DEF Casting
      <4>3. QED
        BY <3>3, <4>1, <4>2 DEF LinesInv, NotTwice
    <3>6. ~Remaining(c)'
      <4> SUFFICES ASSUME NEW j \in 1 .. Len(clients), i + 1 <= j, clients[j] = c PROVE FALSE
        BY <2>1, <2>3 DEF Remaining
      <4>1. j = i
        BY <3>2, <2>c, <1>1 DEF NoRepeat
      <4>2. QED
        BY <4>1, <2>i, <1>1
    <3>7. QED
      BY <3>3, <3>4, <3>5, <3>6
  <2>7. AbsentIsNew' /\ PipeInOrder' /\ NothingNewer' /\ LinesInOrder'
    BY <2>1, <2>3 DEF LinesInv, AbsentIsNew, PipeInOrder, NothingNewer, LastGot, LinesInOrder,
                      fifoVars
  <2>8. NotTwice'
    <3>1. Casting
      BY <2>1 DEF Casting
    <3>2. QED
      BY <3>1, <2>4, <2>5 DEF LinesInv, NotTwice
  <2>9. InHand'
    BY <2>3, <2>5, <2>6 DEF InHand
  <2>10. IndexFromOne'
    BY <2>3, <2>i, <1>1 DEF IndexFromOne
  <2>11. QED
    BY <2>2, <2>7, <2>8, <2>9, <2>10 DEF LinesInv
<1>4. QED
  BY <1>1, <1>2, <1>3

LEMMA SendKeepsLines == LinesInv /\ SendTo(Reader) => LinesInv'
<1> SUFFICES ASSUME LinesInv, SendTo(Reader) PROVE LinesInv'
  OBVIOUS
<1>c. PICK c : c = target[Reader]
  OBVIOUS
<1>1. LinesType /\ Reader \in Thread /\ Reader \notin Client
  BY Distinct DEF LinesInv, LinesType
<1>2. /\ pc[Reader] = "send" /\ target' = [target EXCEPT ![Reader] = None]
      /\ UNCHANGED <<clients, index, fifoVars>>
      /\ \/ got' = [got EXCEPT ![c] = Append(got[c], line)] /\ pc' = [pc EXCEPT ![Reader] = "cast"]
         \/ UNCHANGED got /\ pc' = [pc EXCEPT ![Reader] = "ended"]
  BY <1>c, <1>1 DEF SendTo, Goto, Raise
<1>3. /\ target' = [t \in Thread |-> target'[t]] /\ index' \in [Thread -> Nat]
      /\ index'[Reader] >= 1
  BY <1>1, <1>2 DEF LinesType, LinesInv, IndexFromOne
<1>4. CASE UNCHANGED got /\ pc' = [pc EXCEPT ![Reader] = "ended"]
  <2>1. pc'[Reader] = "ended"
    BY <1>1, <1>4 DEF LinesType, PcOK
  <2>2. QED
    BY <1>1, <1>2, <1>3, <1>4, <2>1, LinesSettled
<1>5. CASE /\ got' = [got EXCEPT ![c] = Append(got[c], line)]
           /\ pc' = [pc EXCEPT ![Reader] = "cast"]
  <2>1. c \in Client /\ pc[c] # "absent" /\ ~Remaining(c) /\ ~HasLine(c)
    BY <1>2, <1>c DEF LinesInv, InHand
  <2> DEFINE g == got[c]
             n == Len(g)
  <2>2. g \in Seq(Nat) /\ line \in Nat
    BY <1>1, <2>1 DEF LinesType
  <2>3. /\ Append(g, line) \in Seq(Nat) /\ n \in Nat /\ Len(Append(g, line)) = n + 1
        /\ Append(g, line)[n + 1] = line /\ \A i \in 1 .. n : Append(g, line)[i] = g[i]
    BY <2>2, AppendProperties
  <2>4. got' \in [Client -> Seq(Nat)] /\ got'[c] = Append(g, line)
        /\ \A d \in Client : d # c => got'[d] = got[d]
    BY <1>1, <1>5, <2>1, <2>3 DEF LinesType
  <2>5. PcOK' /\ pc'[Reader] = "cast" /\ \A d \in Client : pc'[d] = pc[d]
    BY <1>1, <1>5, Distinct DEF LinesType, PcOK
  <2>6. LinesType' /\ NoRepeat(clients)'
    BY <1>1, <1>2, <1>3, <2>4, <2>5 DEF LinesInv, LinesType, NoRepeat, fifoVars
  <2>7. AbsentIsNew'
    BY <1>2, <2>1, <2>4, <2>5 DEF LinesInv, AbsentIsNew
  <2>8. PipeInOrder' /\ IndexFromOne'
    BY <1>2 DEF LinesInv, PipeInOrder, IndexFromOne, fifoVars
  <2>9. LastGot(c)' = line
    BY <2>3, <2>4 DEF LastGot
  <2>10. NothingNewer'
    <3> SUFFICES ASSUME NEW d \in Client, got'[d] # <<>> PROVE LastGot(d)' <= line'
      BY DEF NothingNewer
    <3>1. CASE d = c
      BY <1>2, <2>2, <2>9, <3>1 DEF fifoVars
    <3>2. CASE d # c
      BY <1>2, <2>4, <3>2 DEF LinesInv, NothingNewer, LastGot, fifoVars
    <3>3. QED
      BY <3>1, <3>2
  <2>11. NotTwice'
    <3> SUFFICES ASSUME NEW d \in Client, HasLine(d)' PROVE ~Remaining(d)'
      BY DEF NotTwice
    <3>1. Remaining(d)' <=> Remaining(d)
      BY <1>2 DEF Remaining
    <3>2. CASE d = c
      BY <3>1, <3>2, <2>1
    <3>3. CASE d # c
      <4>1. HasLine(d) /\ Casting
        BY <1>2, <2>4, <3>3 DEF HasLine, LastGot, Casting, fifoVars
      <4>2. QED
        BY <3>1, <4>1 DEF LinesInv, NotTwice
    <3>4. QED
      BY <3>2, <3>3
  <2>12. InHand'
    BY <2>5 DEF InHand
  <2>13. LinesInOrder'
    <3> SUFFICES ASSUME NEW d \in Client, NEW i \in 1 .. Len(got'[d]) - 1
                 PROVE  got'[d][i] < got'[d][i + 1]
      BY DEF LinesInOrder
    <3>1. CASE d # c
      BY <2>4, <3>1 DEF LinesInv, LinesInOrder
    <3>2. CASE d = c /\ i < n
      <4>1. i \in 1 .. n - 1 /\ i \in 1 .. n /\ i + 1 \in 1 .. n
        BY <2>3, <2>4, <3>2
      <4>2. g[i] < g[i + 1]
        BY <2>1, <4>1 DEF LinesInv, LinesInOrder
      <4>3. QED
        BY <2>3, <2>4, <3>2, <4>1, <4>2
    <3>3. CASE d = c /\ ~(i < n)
      <4>0. Len(got'[d]) = n + 1 /\ got'[d] = Append(g, line)
        BY <2>3, <2>4, <3>3
      <4>1. i = n /\ n \in 1 .. n /\ got'[d][i] = g[n] /\ got'[d][i + 1] = line
        BY <2>3, <3>3, <4>0
      <4>2. g # <<>> /\ g[n] \in Nat
        BY <4>1, <2>2
      <4>3. g[n] <= line /\ g[n] # line
        BY <4>2, <2>1 DEF LinesInv, NothingNewer, HasLine, LastGot
      <4>4. QED
        BY <4>1, <4>2, <4>3, <2>2
    <3>4. QED
      BY <3>1, <3>2, <3>3
  <2>14. QED
    BY <2>6, <2>7, <2>8, <2>10, <2>11, <2>12, <2>13 DEF LinesInv
<1>6. QED
  BY <1>2, <1>4, <1>5

\* The next line is newer than what anybody has been sent.
LEMMA ReadKeepsLines == LinesInv /\ ReaderReads => LinesInv'
<1> SUFFICES ASSUME LinesInv, ReaderReads PROVE LinesInv'
  OBVIOUS
<1>1. LinesType /\ Reader \in Thread /\ PipeInOrder /\ Reader \notin Client
  BY Distinct DEF LinesInv, LinesType
<1>2. CASE fifo = <<>>
  <2>1. pc' = [pc EXCEPT ![Reader] = "reopen"] /\ UNCHANGED <<clients, got, fifoVars, target, index>>
    BY <1>2 DEF ReaderReads, Goto, fifoVars
  <2>2. pc'[Reader] = "reopen"
    BY <2>1, <1>1 DEF LinesType, PcOK
  <2>3. index'[Reader] >= 1 /\ index' \in [Thread -> Nat] /\ target' = [t \in Thread |-> target'[t]]
    BY <2>1 DEF LinesInv, LinesType, IndexFromOne
  <2>4. QED
    BY <1>1, <2>1, <2>2, <2>3, LinesSettled
<1>3. CASE fifo # <<>>
  <2>1. /\ line' = Head(fifo) /\ fifo' = Tail(fifo) /\ index' = [index EXCEPT ![Reader] = 1]
        /\ pc' = [pc EXCEPT ![Reader] = "cast"]
        /\ UNCHANGED <<clients, target, got, written>>
    BY <1>3 DEF ReaderReads, Goto
  <2> DEFINE n == Len(fifo)
             t == Tail(fifo)
  <2>2. fifo \in Seq(Nat)
    BY <1>1 DEF LinesType
  <2>3. n \in Nat /\ 1 \in 1 .. n /\ Head(fifo) = fifo[1]
    BY <2>2, <1>3
  <2>4. t \in Seq(Nat) /\ Len(t) = n - 1 /\ \A i \in 1 .. Len(t) : t[i] = fifo[i + 1]
    BY <2>2, <1>3, HeadTailProperties
  <2> HIDE DEF n, t
  <2>5. /\ line' = fifo[1] /\ line' \in Nat /\ line < line' /\ line' <= written
        /\ \A i \in 1 .. n : fifo[i] \in Nat
    BY <2>1, <2>2, <2>3, <1>1 DEF PipeInOrder, n
  <2>6. PcOK' /\ pc'[Reader] = "cast" /\ \A d \in Client : pc'[d] = pc[d]
    BY <2>1, <1>1, Distinct DEF LinesType, PcOK
  <2>7. index' \in [Thread -> Nat] /\ index'[Reader] = 1
    BY <2>1, <1>1 DEF LinesType
  <2>8. LinesType' /\ NoRepeat(clients)'
    BY <1>1, <2>1, <2>4, <2>5, <2>6, <2>7 DEF LinesInv, LinesType, NoRepeat, t
  <2>9. AbsentIsNew' /\ LinesInOrder'
    BY <2>1, <2>6 DEF LinesInv, AbsentIsNew, LinesInOrder
  <2>10. PipeInOrder'
    <3>1. \A i \in 1 .. Len(t) : i + 1 \in 1 .. n /\ 1 < i + 1
      BY <2>3, <2>4
    <3>2. \A i \in 1 .. Len(t) : line' < t[i] /\ t[i] <= written
      BY <1>1, <2>3, <2>4, <2>5, <3>1 DEF PipeInOrder, n
    <3>3. \A i, j \in 1 .. Len(t) : i < j => t[i] < t[j]
      <4> SUFFICES ASSUME NEW i \in 1 .. Len(t), NEW j \in 1 .. Len(t), i < j PROVE t[i] < t[j]
        OBVIOUS
      <4>1. i + 1 < j + 1 /\ i + 1 \in 1 .. n /\ j + 1 \in 1 .. n
        BY <3>1
      <4>2. fifo[i + 1] < fifo[j + 1]
        BY <4>1, <1>1 DEF PipeInOrder, n
      <4>3. QED
        BY <4>2, <2>4
    <3>4. QED
      BY <2>1, <2>5, <3>2, <3>3 DEF PipeInOrder, t
  <2>11. ASSUME NEW d \in Client, got[d] # <<>> PROVE LastGot(d) < line'
    <3>1. LastGot(d) <= line
      BY <2>11 DEF LinesInv, NothingNewer
    <3>2. got[d] \in Seq(Nat) /\ Len(got[d]) \in 1 .. Len(got[d])
      BY <2>11, <1>1 DEF LinesType
    <3>3. LastGot(d) \in Nat /\ line \in Nat
      BY <3>2, <1>1 DEF LastGot, LinesType
    <3>4. QED
      BY <3>1, <3>3, <2>5
  <2>12. ASSUME NEW d \in Client, got'[d] # <<>> PROVE LastGot(d)' < line' /\ LastGot(d)' \in Nat
    <3>1. got[d] # <<>> /\ LastGot(d)' = LastGot(d)
      BY <2>1, <2>12 DEF LastGot
    <3>2. got[d] \in Seq(Nat) /\ Len(got[d]) \in 1 .. Len(got[d])
      BY <3>1, <1>1 DEF LinesType
    <3>3. QED
      BY <3>1, <3>2, <2>11 DEF LastGot
  <2>13. NothingNewer' /\ NotTwice'
    BY <2>5, <2>12 DEF NothingNewer, NotTwice, HasLine
  <2>14. InHand' /\ IndexFromOne'
    BY <2>6, <2>7 DEF InHand, IndexFromOne
  <2>15. QED
    BY <2>8, <2>9, <2>10, <2>13, <2>14 DEF LinesInv
<1>4. QED
  BY <1>2, <1>3

\* The tracker's lines are numbered.
LEMMA WriteKeepsLines == ASSUME LinesInv, NEW k, TrackerWrites(k) PROVE LinesInv'
<1>1. LinesType /\ Reader \in Thread /\ PipeInOrder /\ Reader \notin Client
  BY Distinct DEF LinesInv, LinesType
<1>2. /\ written' = written + 1 /\ UNCHANGED <<clients, index, target, got, line>>
  BY DEF TrackerWrites, netVars
<1>3. /\ UNCHANGED pc \/ pc' = [pc EXCEPT ![Reader] = "read"]
      /\ fifo' = fifo \/ fifo' = Append(fifo, written + 1)
  BY <1>2, Zenon DEF TrackerWrites, Goto
<1>4. /\ PcOK' /\ \A d \in Client : pc'[d] = pc[d]
      /\ pc'[Reader] = pc[Reader] \/ pc'[Reader] = "read"
  BY <1>1, <1>3, Distinct DEF LinesType, PcOK
<1>5. PipeInOrder' /\ fifo' \in Seq(Nat)
  <2> DEFINE n == Len(fifo)
             x == written + 1
  <2>1. /\ fifo \in Seq(Nat) /\ line \in Nat /\ written \in Nat /\ x \in Nat /\ n \in Nat
        /\ line <= written /\ \A i \in 1 .. n : fifo[i] \in Nat
    BY <1>1 DEF LinesType, PipeInOrder
  <2>2. CASE fifo' = fifo
    BY <1>1, <1>2, <2>1, <2>2 DEF PipeInOrder
  <2>3. CASE fifo' = Append(fifo, x)
    <3>1. /\ fifo' \in Seq(Nat) /\ Len(fifo') = n + 1 /\ fifo'[n + 1] = x
          /\ \A i \in 1 .. n : fifo'[i] = fifo[i]
      BY <2>1, <2>3, AppendProperties
    <3> HIDE DEF n
    <3>2. \A i \in 1 .. n + 1 : i = n + 1 \/ (i \in 1 .. n /\ i < n + 1)
      BY <2>1
    <3>3. \A i \in 1 .. n : line < fifo[i] /\ fifo[i] <= written
      BY <1>1 DEF PipeInOrder, n
    <3>4. \A i \in 1 .. n + 1 : line < fifo'[i] /\ fifo'[i] <= x
      <4> SUFFICES ASSUME NEW i \in 1 .. n + 1 PROVE line < fifo'[i] /\ fifo'[i] <= x
        OBVIOUS
      <4>1. CASE i = n + 1
        BY <2>1, <3>1, <4>1
      <4>2. CASE i \in 1 .. n
        <5>1. line < fifo[i] /\ fifo[i] <= written /\ fifo[i] \in Nat /\ fifo'[i] = fifo[i]
          BY <2>1, <3>1, <3>3, <4>2
        <5>2. QED
          BY <2>1, <5>1
      <4>3. QED
        BY <3>2, <4>1, <4>2
    <3>5. \A i, j \in 1 .. n + 1 : i < j => fifo'[i] < fifo'[j]
      <4> SUFFICES ASSUME NEW i \in 1 .. n + 1, NEW j \in 1 .. n + 1, i < j
                   PROVE  fifo'[i] < fifo'[j]
        OBVIOUS
      <4>1. i \in 1 .. n
        BY <2>1, <3>2
      <4>2. CASE j = n + 1
        BY <2>1, <3>1, <3>3, <4>1, <4>2
      <4>3. CASE j \in 1 .. n
        BY <1>1, <3>1, <4>1, <4>3 DEF PipeInOrder, n
      <4>4. QED
        BY <3>2, <4>2, <4>3
    <3>6. QED
      BY <1>2, <2>1, <3>1, <3>4, <3>5 DEF PipeInOrder
  <2>4. QED
    BY <1>3, <2>2, <2>3
<1>6. LinesType' /\ NoRepeat(clients)'
  BY <1>1, <1>2, <1>4, <1>5 DEF LinesInv, LinesType, NoRepeat
<1>7. AbsentIsNew' /\ NothingNewer' /\ LinesInOrder' /\ IndexFromOne'
  BY <1>2, <1>4 DEF LinesInv, AbsentIsNew, NothingNewer, LastGot, LinesInOrder, IndexFromOne
<1>8. \A d \in Client : (HasLine(d)' <=> HasLine(d)) /\ (Remaining(d)' <=> Remaining(d))
  BY <1>2 DEF HasLine, LastGot, Remaining
<1>9. NotTwice'
  BY <1>4, <1>8 DEF LinesInv, NotTwice, Casting
<1>10. InHand'
  BY <1>2, <1>4, <1>8 DEF LinesInv, InHand
<1>11. QED
  BY <1>5, <1>6, <1>7, <1>9, <1>10 DEF LinesInv

\* A thread other than the reader moves.
\* The other threads do not touch what the lines are about.
LEMMA OtherMoves ==
  ASSUME LinesInv, UNCHANGED <<clients, got, fifoVars>>,
         NEW t \in Thread \ {Reader}, NEW l, l # "absent", pc' = [pc EXCEPT ![t] = l],
         \/ UNCHANGED <<index, target>>
         \/ (\E i \in Nat : index' = [index EXCEPT ![t] = i]) /\ UNCHANGED target
         \/ (\E i \in Nat : index' = [index EXCEPT ![t] = i])
              /\ \E d : target' = [target EXCEPT ![t] = d]
         \/ UNCHANGED index /\ \E d : target' = [target EXCEPT ![t] = d]
  PROVE  LinesInv'
<1>1. LinesType /\ Reader \in Thread /\ index[Reader] >= 1
  BY Distinct DEF LinesInv, LinesType, IndexFromOne
<1>2. index' \in [Thread -> Nat] /\ index'[Reader] = index[Reader]
  BY <1>1 DEF LinesType
<1>3. target' = [u \in Thread |-> target'[u]] /\ target'[Reader] = target[Reader]
  BY <1>1 DEF LinesType
<1>4. QED
  BY <1>1, <1>2, <1>3, LinesSettled

LEMMA NobodyMoves ==
  ASSUME LinesInv, UNCHANGED <<netVars, fifoVars, pc>>
  PROVE  LinesInv'
<1>1. LinesType /\ Reader \in Thread /\ index[Reader] >= 1
  BY Distinct DEF LinesInv, LinesType, IndexFromOne
<1>2. QED
  BY <1>1, LinesSettled DEF netVars, LinesType

LEMMA LinesNext == LinesInv /\ [Next]_vars => LinesInv'
<1> SUFFICES ASSUME LinesInv, [Next]_vars PROVE LinesInv'
  OBVIOUS
<1> USE DEF Goto
<1>1. ASSUME NEW c \in Client, CastNext(c) PROVE LinesInv'
  <2>1. c \in Thread \ {Reader} /\ index[c] \in Nat
    BY Distinct DEF LinesInv, LinesType
  <2>2. CASE index[c] <= Len(clients)
    <3>1. /\ \E d : target' = [target EXCEPT ![c] = d]
          /\ \E i \in Nat : index' = [index EXCEPT ![c] = i]
          /\ pc' = [pc EXCEPT ![c] = "send"] /\ UNCHANGED <<clients, got, fifoVars>>
      BY <1>1, <2>1, <2>2 DEF CastNext
    <3>2. QED
      BY <2>1, <3>1, OtherMoves
  <2>3. CASE ~(index[c] <= Len(clients))
    <3>1. /\ \E i \in Nat : index' = [index EXCEPT ![c] = i]
          /\ pc' = [pc EXCEPT ![c] = "read"] /\ UNCHANGED <<clients, got, fifoVars, target>>
      BY <1>1, <2>3 DEF CastNext
    <3>2. QED
      BY <2>1, <3>1, OtherMoves
  <2>4. QED
    BY <2>2, <2>3
<1>2. ASSUME NEW c \in Client, SendTo(c) PROVE LinesInv'
  <2>1. c \in Thread \ {Reader}
    BY Distinct
  <2>2. /\ \E d : target' = [target EXCEPT ![c] = d]
        /\ UNCHANGED <<clients, index, got, fifoVars>>
        /\ \E l \in {"cast", "finish", "ended"} : pc' = [pc EXCEPT ![c] = l]
    BY <1>2, <2>1 DEF SendTo, Raise
  <2>3. QED
    BY <2>1, <2>2, OtherMoves
<1>3. ASSUME NEW t \in Client \cup {HB},
             startTracking(t) \/ Spawn(t) \/ stopTracking(t) \/ Terminate(t) \/ Clear(t)
      PROVE  LinesInv'
  <2>1. t \in Thread \ {Reader}
    BY Distinct
  <2>2. AfterStop(t) # "absent"
    BY <2>1, StopGoesOn
  <2>3. UNCHANGED <<netVars, fifoVars>>
    BY <1>3 DEF startTracking, Spawn, stopTracking, Terminate, Clear
  <2>4. \E l : l # "absent" /\ pc' = [pc EXCEPT ![t] = l]
    BY <1>3, <2>2 DEF startTracking, Spawn, stopTracking, Terminate, Clear, Raise
  <2>5. QED
    BY <2>1, <2>3, <2>4, OtherMoves DEF netVars
<1>4. ASSUME NEW c \in Client, doReplay(c) \/ ReadEnds(c) \/ Finish(c) PROVE LinesInv'
  <2>1. c \in Thread \ {Reader}
    BY Distinct
  <2>2. QED
    BY <1>4, <2>1, OtherMoves DEF doReplay, ReadEnds, Finish, netVars
<1>5. ASSUME NEW c \in Client, NEW m \in {"start", "stop", "replay", "heartbeat"},
             Receive(c, m)
      PROVE  LinesInv'
  <2>1. c \in Thread \ {Reader}
    BY Distinct
  <2>2. QED
    BY <1>5, <2>1, OtherMoves DEF Receive, netVars
<1>6. ASSUME NEW t \in Client \cup {HB}, NEW from, NEW to \in {"reset", "count"},
             Acquire(t, from, to)
      PROVE  LinesInv'
  <2>1. t \in Thread \ {Reader}
    BY Distinct
  <2>2. QED
    BY <1>6, <2>1, OtherMoves DEF Acquire, netVars
<1>7. ASSUME NEW c \in Client, Beat(c) PROVE LinesInv'
  <2>1. c \in Thread \ {Reader}
    BY Distinct
  <2>2. QED
    BY <1>7, <2>1, OtherMoves DEF Beat, netVars
<1>8. CASE TickRead \/ TickStore
  <2>1. HB \in Thread \ {Reader}
    BY Distinct
  <2>2. QED
    BY <1>8, <2>1, OtherMoves DEF TickRead, TickStore, netVars
<1>9. CASE ReaderOpens
  <2>1. /\ UNCHANGED <<netVars, fifoVars>> /\ pc' = [pc EXCEPT ![Reader] = "wait"]
    BY <1>9 DEF ReaderOpens
  <2>2. LinesType /\ Reader \in Thread /\ index[Reader] >= 1
    BY Distinct DEF LinesInv, LinesType, IndexFromOne
  <2>3. /\ pc'[Reader] = "wait" /\ index' \in [Thread -> Nat] /\ index'[Reader] >= 1
        /\ target' = [t \in Thread |-> target'[t]] /\ UNCHANGED <<clients, got>>
    BY <2>1, <2>2 DEF LinesType, PcOK, netVars
  <2>4. QED
    BY <2>1, <2>2, <2>3, LinesSettled
<1>10. ASSUME NEW c \in Client, PeerGone(c) PROVE LinesInv'
  BY <1>10, NobodyMoves DEF PeerGone
<1>11. ASSUME NEW k, Pkill(k) \/ Exec(k) \/ Crash(k) PROVE LinesInv'
  BY <1>11, NobodyMoves DEF Pkill, Exec, Crash
<1>12. CASE UNCHANGED vars
  BY <1>12, NobodyMoves DEF vars
<1>13. ASSUME NEW c \in Client, Handler(c) PROVE LinesInv'
  BY <1>1, <1>2, <1>3, <1>4, <1>6, <1>7, <1>13, UnregisterKeepsLines DEF Handler
<1>14. CASE HeartbeatThread
  BY <1>3, <1>6, <1>8, <1>14 DEF HeartbeatThread
<1>15. CASE ReadThread
  BY <1>9, <1>15, ReadKeepsLines, CastKeepsLines, SendKeepsLines DEF ReadThread
<1>16. QED
  BY <1>5, <1>10, <1>11, <1>12, <1>13, <1>14, <1>15, ConnectKeepsLines, WriteKeepsLines
     DEF Next

\* Whoever joins and leaves while a line goes round, no client is sent a line
\* twice or an older one after a newer one (websocket_server.py:135-156).
THEOREM LinesAlwaysInOrder == Spec => []LinesInOrder
<1>1. LinesInv => LinesInOrder
  BY DEF LinesInv
<1>2. QED
  BY <1>1, LinesInit, LinesNext, PTL DEF Spec
=============================================================================
