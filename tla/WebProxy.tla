------------------------------ MODULE WebProxy ------------------------------
(***************************************************************************)
(* webproxy/webproxy.py on webproxy/websocket_server.py: one handler       *)
(* thread per web client, the thread that forwards the tracker's FIFO and  *)
(* the heartbeat thread, sharing the client list and `camprocess` without  *)
(* a lock, and the processes run-camera.sh starts.                         *)
(*                                                                         *)
(* A step is what one thread does between two accesses to shared state.    *)
(* An exception is control flow: it ends the reader and heartbeat threads, *)
(* it makes a handler call finish(), and in finish() it skips the rest.    *)
(***************************************************************************)
EXTENDS Integers, Sequences, SequencesExt, FiniteSets

CONSTANTS
  Client,          \* connections, each used once
  Reader, HB,      \* MyReadThread and HeartbeatThread
  HeartbeatLimit,  \* 5 (webproxy.py:134)
  NeverBeaten,     \* 1000, the initial timer (webproxy.py:35)
  MaxSpawns,       \* bound: processes started
  MaxLines,        \* bound: lines written to the FIFO
  MaxRequests      \* bound: messages received from clients

Thread == Client \union {Reader, HB}
None == 0

ASSUME ProxyAssumption ==
  /\ Reader \notin Client /\ HB \notin Client /\ Reader # HB
  /\ None \notin Thread
  /\ HeartbeatLimit \in Nat \ {0} /\ NeverBeaten \in Nat
  /\ NeverBeaten >= HeartbeatLimit
  /\ MaxSpawns \in Nat /\ MaxLines \in Nat /\ MaxRequests \in Nat

VARIABLES
  clients,         \* server.clients
  pc,              \* [Thread -> Label]
  leaving,         \* handlers that are in finish()
  index, target,   \* _multicast_: loop position and client in hand, by thread
  peer,            \* [Client -> {"absent", "up", "gone"}]: the browser's side
  fifo, line,      \* lines in the pipe, and the one the reader has in hand
  written, got,    \* lines written, and those each client was sent
  camprocess,      \* the Popen object of run-camera.sh: its number or None
  proc,            \* [1 .. MaxSpawns -> what the process is doing]
  heartbeatTimer, heartbeatLock, seen,
  requests,
  silent,          \* history: counts since the last heartbeat
  overlapped       \* history: two threads were in start/stopTracking at once

netVars == <<clients, index, target, got>>
fifoVars == <<fifo, line, written>>
camVars == <<camprocess, proc, overlapped>>
beatVars == <<heartbeatTimer, heartbeatLock, seen, silent>>
vars == <<netVars, fifoVars, camVars, beatVars, pc, leaving, peer, requests>>

Init ==
  /\ clients = <<>> /\ leaving = {}
  /\ pc = [t \in Thread |-> CASE t = HB -> "tick" [] t = Reader -> "open"
                              [] OTHER -> "absent"]
  /\ index = [t \in Thread |-> 1] /\ target = [t \in Thread |-> None]
  /\ peer = [c \in Client |-> "absent"]
  /\ fifo = <<>> /\ line = None /\ written = 0
  /\ got = [c \in Client |-> <<>>]
  /\ camprocess = None /\ proc = [k \in 1 .. MaxSpawns |-> "unborn"]
  /\ heartbeatTimer = NeverBeaten /\ heartbeatLock = None /\ seen = 0
  /\ requests = 0 /\ silent = NeverBeaten /\ overlapped = FALSE

Goto(t, label) == pc' = [pc EXCEPT ![t] = label]

\* An exception in thread t.
Raise(t) ==
  /\ Goto(t, IF t \in Client \ leaving THEN "finish" ELSE "ended")
  /\ leaving' = IF t \in Client THEN leaving \union {t} ELSE leaving

\* Where a thread goes on after stopTracking.
AfterStop(t) ==
  CASE t = HB -> "tick" [] t \in leaving -> "remove" [] OTHER -> "read"

-----------------------------------------------------------------------------
(* Clients                                                                  *)

\* handshake: the client is appended and greeted along with all others.
RegisteredFirst(c) == <<c>> \o clients
Registered(c) == Append(clients, c)
Register(c) == clients' = Registered(c)

Connect(c) ==
  /\ pc[c] = "absent"
  /\ peer' = [peer EXCEPT ![c] = "up"]
  /\ Register(c)
  /\ index' = [index EXCEPT ![c] = 1]
  /\ Goto(c, "cast")
  /\ UNCHANGED <<target, got, leaving, fifoVars, camVars, beatVars, requests>>

PeerGone(c) ==
  /\ peer[c] = "up" /\ peer' = [peer EXCEPT ![c] = "gone"]
  /\ UNCHANGED <<netVars, fifoVars, camVars, beatVars, pc, leaving, requests>>

\* _multicast_ iterates over the live list: position, then the send.
CastNext(t) ==
  /\ pc[t] = "cast"
  /\ IF index[t] <= Len(clients)
     THEN /\ target' = [target EXCEPT ![t] = clients[index[t]]]
          /\ index' = [index EXCEPT ![t] = @ + 1]
          /\ Goto(t, "send")
     ELSE /\ index' = [index EXCEPT ![t] = 1]
          /\ Goto(t, "read") /\ UNCHANGED target
  /\ UNCHANGED <<clients, got, leaving, peer, fifoVars, camVars, beatVars,
                 requests>>

\* The socket takes the text while the peer is there, fails once the handler
\* has closed it, and may do either after the peer has gone.
SendTo(t) ==
  /\ pc[t] = "send"
  /\ LET c == target[t]
     IN  \/ /\ pc[c] # "ended"
            /\ got' = IF t = Reader THEN [got EXCEPT ![c] = Append(@, line)] ELSE got
            /\ Goto(t, "cast") /\ UNCHANGED leaving
         \/ /\ pc[c] = "ended" \/ peer[c] = "gone"
            /\ Raise(t) /\ UNCHANGED got
  /\ target' = [target EXCEPT ![t] = None]
  /\ UNCHANGED <<clients, index, peer, fifoVars, camVars, beatVars, requests>>

\* read_next_message and message_received.
Receive(c, message) ==
  /\ pc[c] = "read" /\ peer[c] = "up" /\ requests < MaxRequests
  /\ requests' = requests + 1
  /\ Goto(c, message)
  /\ UNCHANGED <<netVars, fifoVars, camVars, beatVars, leaving, peer>>

\* doReplay waits for generate-replay.sh and starts replay.sh.
doReplay(c) ==
  /\ pc[c] = "replay" /\ Goto(c, "read")
  /\ UNCHANGED <<netVars, fifoVars, camVars, beatVars, leaving, peer, requests>>

\* A close frame, end of file or reset ends the handler's loop.
ReadEnds(c) ==
  /\ pc[c] = "read" /\ peer[c] = "gone"
  /\ Goto(c, "finish") /\ leaving' = leaving \union {c}
  /\ UNCHANGED <<netVars, fifoVars, camVars, beatVars, peer, requests>>

\* finish: _client_left_ looks the client up, stops tracking, removes it.
Finish(c) ==
  /\ pc[c] = "finish"
  /\ IF Contains(clients, c) THEN Goto(c, "stop") ELSE Goto(c, "ended")
  /\ UNCHANGED <<netVars, fifoVars, camVars, beatVars, leaving, peer, requests>>

Unregister(c) ==
  /\ pc[c] = "remove"
  /\ clients' = RemoveFirst(clients, c)
  /\ Goto(c, "ended")
  /\ UNCHANGED <<index, target, got, leaving, peer, fifoVars, camVars, beatVars,
                 requests>>

-----------------------------------------------------------------------------
(* startTracking, stopTracking and the processes                            *)

InTracking(t) == pc[t] \in {"start", "spawn", "stop", "terminate", "clear"}
NoteOverlap(t) ==
  overlapped' = (overlapped \/ \E u \in Thread \ {t} : InTracking(u))

MayStartAlways == TRUE
MayStart == camprocess = None

startTracking(t) ==
  /\ pc[t] = "start"
  /\ Goto(t, IF MayStart THEN "spawn" ELSE "read")
  /\ NoteOverlap(t)
  /\ UNCHANGED <<netVars, fifoVars, beatVars, camprocess, proc, leaving, peer,
                 requests>>

Spawn(t) ==
  /\ pc[t] = "spawn"
  /\ \E k \in 1 .. MaxSpawns :
       /\ proc[k] = "unborn" /\ \A j \in 1 .. k - 1 : proc[j] # "unborn"
       /\ proc' = [proc EXCEPT ![k] = "script"]
       /\ camprocess' = k
  /\ Goto(t, "read")
  /\ NoteOverlap(t)
  /\ UNCHANGED <<netVars, fifoVars, beatVars, leaving, peer, requests>>

stopTracking(t) ==
  /\ pc[t] = "stop"
  /\ Goto(t, IF camprocess # None THEN "terminate" ELSE "clear")
  /\ NoteOverlap(t)
  /\ UNCHANGED <<netVars, fifoVars, beatVars, camprocess, proc, leaving, peer,
                 requests>>

\* camprocess is read again: None has no terminate().
Terminate(t) ==
  /\ pc[t] = "terminate"
  /\ IF camprocess = None
     THEN Raise(t) /\ UNCHANGED proc
     ELSE /\ proc' = [proc EXCEPT ![camprocess] = "dead"]
          /\ Goto(t, "clear") /\ UNCHANGED leaving
  /\ NoteOverlap(t)
  /\ UNCHANGED <<netVars, fifoVars, beatVars, camprocess, peer, requests>>

Clear(t) ==
  /\ pc[t] = "clear"
  /\ camprocess' = None
  /\ Goto(t, AfterStop(t))
  /\ NoteOverlap(t)
  /\ UNCHANGED <<netVars, fifoVars, beatVars, proc, leaving, peer, requests>>

\* run-camera.sh kills every raspiballs and becomes one.
Pkill(k) ==
  /\ proc[k] = "script"
  /\ proc' = [j \in DOMAIN proc |->
                CASE j = k -> "cleared"
                  [] proc[j] = "running" -> "dead"
                  [] OTHER -> proc[j]]
  /\ UNCHANGED <<netVars, fifoVars, beatVars, camprocess, overlapped, pc,
                 leaving, peer, requests>>
Exec(k) ==
  /\ proc[k] = "cleared" /\ proc' = [proc EXCEPT ![k] = "running"]
  /\ UNCHANGED <<netVars, fifoVars, beatVars, camprocess, overlapped, pc,
                 leaving, peer, requests>>
Crash(k) ==
  /\ proc[k] = "running" /\ proc' = [proc EXCEPT ![k] = "dead"]
  /\ UNCHANGED <<netVars, fifoVars, beatVars, camprocess, overlapped, pc,
                 leaving, peer, requests>>

-----------------------------------------------------------------------------
(* The FIFO                                                                 *)

\* The tracker opens, writes and closes.  The reader keeps its previous file
\* open until the next open() returns, and open() waits for a new writer.
TrackerWrites(k) ==
  /\ proc[k] = "running" /\ written < MaxLines
  /\ written' = written + 1
  /\ CASE pc[Reader] = "ended" \/ pc[Reader] = "open" -> UNCHANGED <<fifo, pc>>
       [] pc[Reader] = "wait" -> fifo' = Append(fifo, written') /\ Goto(Reader, "read")
       [] OTHER -> fifo' = Append(fifo, written') /\ UNCHANGED pc
  /\ UNCHANGED <<netVars, camVars, beatVars, line, leaving, peer, requests>>

ReaderOpens ==
  /\ pc[Reader] \in {"open", "reopen"} /\ Goto(Reader, "wait")
  /\ UNCHANGED <<netVars, fifoVars, camVars, beatVars, leaving, peer, requests>>

ReaderReads ==
  /\ pc[Reader] = "read"
  /\ IF fifo = <<>>
     THEN Goto(Reader, "reopen") /\ UNCHANGED <<fifo, line, index>>
     ELSE /\ line' = Head(fifo) /\ fifo' = Tail(fifo)
          /\ index' = [index EXCEPT ![Reader] = 1]
          /\ Goto(Reader, "cast")
  /\ UNCHANGED <<clients, target, got, written, camVars, beatVars, leaving, peer,
                 requests>>

-----------------------------------------------------------------------------
(* The heartbeat                                                            *)

LockFreeAlways == TRUE
LockFree == heartbeatLock = None
Acquire(t, from, to) ==
  /\ pc[t] = from /\ LockFree
  /\ heartbeatLock' = t /\ Goto(t, to)
  /\ UNCHANGED <<netVars, fifoVars, camVars, heartbeatTimer, seen, silent,
                 leaving, peer, requests>>

\* message_received, "heartbeat".
Beat(c) ==
  /\ pc[c] = "reset"
  /\ heartbeatTimer' = 0 /\ silent' = 0 /\ heartbeatLock' = None
  /\ Goto(c, "read")
  /\ UNCHANGED <<netVars, fifoVars, camVars, seen, leaving, peer, requests>>

\* HeartbeatThread: read, then write, test and release, then sleep a second.
TickRead ==
  /\ pc[HB] = "count" /\ seen' = heartbeatTimer /\ Goto(HB, "store")
  /\ UNCHANGED <<netVars, fifoVars, camVars, heartbeatTimer, heartbeatLock,
                 silent, leaving, peer, requests>>

TickStore ==
  /\ pc[HB] = "store"
  /\ heartbeatTimer' = seen + 1 /\ silent' = silent + 1 /\ heartbeatLock' = None
  /\ seen' = 0
  /\ Goto(HB, IF heartbeatTimer' = HeartbeatLimit THEN "stop" ELSE "tick")
  /\ UNCHANGED <<netVars, fifoVars, camVars, leaving, peer, requests>>

-----------------------------------------------------------------------------
Handler(c) ==
  \/ CastNext(c) \/ SendTo(c) \/ doReplay(c) \/ ReadEnds(c) \/ Finish(c)
  \/ Unregister(c) \/ startTracking(c) \/ Spawn(c) \/ stopTracking(c)
  \/ Terminate(c) \/ Clear(c) \/ Acquire(c, "heartbeat", "reset") \/ Beat(c)

\* The guard bounds the timer: past the limit its value changes nothing.
HeartbeatThread ==
  \/ heartbeatTimer < NeverBeaten /\ Acquire(HB, "tick", "count")
  \/ TickRead \/ TickStore \/ stopTracking(HB) \/ Terminate(HB) \/ Clear(HB)

ReadThread == ReaderOpens \/ ReaderReads \/ CastNext(Reader) \/ SendTo(Reader)

Next ==
  \/ \E c \in Client :
       \/ Handler(c) \/ Connect(c) \/ PeerGone(c)
       \/ \E m \in {"start", "stop", "replay", "heartbeat"} : Receive(c, m)
  \/ HeartbeatThread \/ ReadThread
  \/ \E k \in 1 .. MaxSpawns : Pkill(k) \/ Exec(k) \/ Crash(k) \/ TrackerWrites(k)

Spec == Init /\ [][Next]_vars

-----------------------------------------------------------------------------
(* Properties                                                               *)

\* A heartbeat is never lost against the tick of the other thread: when the
\* heartbeat thread decides to stop the camera it has counted the whole limit
\* since the last heartbeat (webproxy.py:80-84, 130-139).
HeartbeatHonoured ==
  [][pc[HB] # "stop" /\ pc'[HB] = "stop" => silent' = HeartbeatLimit]_vars

\* Whoever joins and leaves while a line goes round, no client is sent a line
\* twice or an older line after a newer one (websocket_server.py:135-156).
LinesInOrder ==
  \A c \in Client : \A i \in 1 .. Len(got[c]) - 1 : got[c][i] < got[c][i + 1]

\* As long as no two threads were in startTracking or stopTracking at once,
\* whatever is sent, crashes or leaves, every process that lives is the one
\* stopTracking would terminate (webproxy.py:38-48).
TrackerControlled ==
  ~overlapped => \A k \in DOMAIN proc :
    proc[k] \in {"script", "cleared", "running"} => camprocess = k
=============================================================================
