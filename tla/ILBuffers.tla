------------------------------ MODULE ILBuffers ------------------------------
(***************************************************************************)
(* The buffers of a port that is not tunnelled: the procedures of the IL   *)
(* client library that enable and disable such a port and pass its buffers *)
(* to and fro (src/src/player/libilclient/ilclient.c), as                  *)
(* video_decode_test calls them for port 130 of the decoder                *)
(* (src/src/player/video.c).                                               *)
(*                                                                         *)
(* Two threads: the client, which allocates, fetches, submits and frees    *)
(* buffers, and that of OpenMAX, which calls back with the ones it has     *)
(* emptied and with events.  A list of buffers linked by pAppPrivate is a  *)
(* sequence; what is done under the semaphore of the component is a step.  *)
(*                                                                         *)
(* OpenMAX is external: a port is enabled from the moment it is told so,   *)
(* but that command is answered when all its buffers are there, and fails  *)
(* when the port is disabled before; a port that is disabled hands all     *)
(* buffers back and answers when the last has been freed.                  *)
(***************************************************************************)
EXTENDS ILEvents, FiniteSets

CONSTANTS
  decode,        \* the component
  Buffer,        \* the buffers the port asks for (nBufferCountActual)
  MaxFailures    \* bound: different calls and commands that OpenMAX refuses

NoBuffer == "none"
Port == "130"
ASSUME ILBuffersAssumption ==
  /\ Component = {decode} /\ IsFiniteSet(Buffer) /\ Buffer # {}
  /\ NoBuffer \notin Buffer /\ MaxFailures \in Nat

VARIABLES
  at,            \* the client: the statement it has come to
  phase,         \* of a wait: "look" at what there is, or "blocked"
  in_list,       \* buffers that have come back to the library
  taken,         \* the local list of enable and disable_port_buffers
  buf,           \* the buffer the client holds, or NoBuffer
  num,           \* disable_port_buffers: buffers not yet freed
  allocated,     \* buffers OpenMAX knows of
  emptying,      \* buffers submitted to OpenMAX, in order
  done,          \* the callback: "idle", or "told" before it sets the flag
  bEnabled,      \* the port is enabled
  pending,       \* commands that are not answered
  refused,       \* the calls and commands OpenMAX has refused so far
  caller,        \* who calls disable_port_buffers
  set            \* flags that the wait of disable_port_buffers returned

bufferVars == <<in_list, taken, buf, num, caller, set>>
omxVars == <<allocated, emptying, done, bEnabled, pending, refused>>
vars == <<eventVars, at, phase, bufferVars, omxVars>>

Init ==
  /\ EventsInit
  /\ at = "enable" /\ phase = "look"
  /\ in_list = <<>> /\ taken = <<>> /\ buf = NoBuffer /\ num = 0
  /\ allocated = {} /\ emptying = <<>> /\ done = "idle"
  /\ bEnabled = FALSE /\ pending = {} /\ refused = {}
  /\ caller = "enable_port_buffers" /\ set = {}

Silent == UNCHANGED eventVars
Goto(l) == at' = l
Refuse(call) ==
  Cardinality(refused) < MaxFailures /\ refused' = refused \cup {call}

-----------------------------------------------------------------------------
(* ilclient_enable_port_buffers                                             *)

\* The port must be disabled and the decoder Idle; it is not Idle when the
\* change of state before has failed.
EnablePort ==
  /\ at = "enable"
  /\ \/ /\ Goto("use") /\ bEnabled' = TRUE
        /\ pending' = pending \cup {"PortEnable"} /\ UNCHANGED refused
     \/ Refuse("state") /\ Goto("over") /\ UNCHANGED <<bEnabled, pending>>
  /\ Silent /\ UNCHANGED <<phase, bufferVars, allocated, emptying, done>>

\* Payloads may not be had, and OpenMAX may refuse one.
UseBuffer ==
  /\ at = "use" /\ allocated # Buffer
  /\ \/ \E b \in Buffer \ allocated :
          /\ allocated' = allocated \cup {b} /\ taken' = Append(taken, b)
          /\ UNCHANGED <<at, refused>>
     \/ Refuse("OMX_UseBuffer") /\ Goto("queue") /\ UNCHANGED <<allocated, taken>>
  /\ Silent
  /\ UNCHANGED <<phase, in_list, buf, num, caller, set, emptying, done, bEnabled,
                 pending>>

QueueBuffers ==
  /\ at = "queue" \/ (at = "use" /\ allocated = Buffer)
  /\ in_list' = taken \o in_list /\ taken' = <<>>
  /\ Goto(IF at = "use" THEN "enable_wait" ELSE "disable")
  /\ Silent /\ UNCHANGED <<phase, buf, num, caller, set, omxVars>>

\* ilclient_wait_for_command_complete, and the statement after each result.
WaitForCommand(from, command, ok, failed) ==
  /\ at = from
  /\ \/ /\ phase = "look" /\ UNCHANGED phase
        /\ \E r \in {0, -1} :
             /\ WaitReturns(decode, command, Port, NoComponent, r)
             /\ Goto(IF r = 0 THEN ok ELSE failed)
             /\ asserted' = (asserted \/ (r = -1 /\ failed = "assert"))
     \/ /\ phase = "look" /\ phase' = "blocked"
        /\ WaitMustBlock(decode, command, Port, NoComponent)
        /\ Silent /\ UNCHANGED at
     \/ /\ phase = "blocked" /\ phase' = "look"
        /\ FlagsGet(decode, WaitMask(command)) /\ UNCHANGED at
  /\ UNCHANGED <<bufferVars, omxVars>>

EnableWait == WaitForCommand("enable_wait", "PortEnable", "get", "disable")

ClearError ==
  /\ at = "clear" /\ Goto("over")
  /\ LET i == SelectInSeq(list[decode], FailedCommand)
     IN  \/ TakeEvent(decode, i)
         \/ i = 0 /\ UNCHANGED <<event_list, list, event>>
  /\ UNCHANGED <<error_mask, related, asserted, phase, bufferVars, omxVars>>

-----------------------------------------------------------------------------
(* ilclient_get_input_buffer and the loop of video_decode_test              *)

UnlinkLast == in_list' = Front(in_list)
Unlink == in_list' = Tail(in_list)
GetInputBuffer ==
  /\ at = "get" /\ caller' = "video_decode_test"
  /\ \/ /\ phase = "look" /\ in_list # <<>>
        /\ buf' = Head(in_list) /\ Unlink
        /\ Goto("submit") /\ Silent /\ UNCHANGED phase
     \/ /\ phase = "look" /\ in_list = <<>>
        /\ phase' = "blocked" /\ Silent /\ UNCHANGED <<at, in_list, buf>>
     \/ /\ phase = "blocked" /\ phase' = "look"
        /\ FlagsGet(decode, {"EMPTY_BUFFER_DONE"})
        /\ UNCHANGED <<at, in_list, buf>>
  /\ UNCHANGED <<taken, num, set, omxVars>>

\* OMX_EmptyThisBuffer.  A refused buffer stays with the client, which submits
\* it once more as the one that ends the stream.
Submit ==
  /\ \/ /\ at \in {"submit", "last"}
        /\ emptying' = Append(emptying, buf) /\ buf' = NoBuffer
        /\ Goto(IF at = "submit" THEN "get" ELSE "disable") /\ UNCHANGED refused
     \/ /\ at = "submit" /\ Refuse("OMX_EmptyThisBuffer")
        /\ Goto("last") /\ UNCHANGED <<emptying, buf>>
     \/ /\ at = "last" /\ Refuse("last OMX_EmptyThisBuffer")
        /\ Goto("disable") /\ UNCHANGED <<emptying, buf>>
  /\ Silent
  /\ UNCHANGED <<phase, in_list, taken, num, caller, set, allocated, done, bEnabled,
                 pending>>

\* No data are left, or the tunnels could not be set up: the loop ends.
EndLoop ==
  /\ at = "submit" /\ Goto("last")
  /\ Silent /\ UNCHANGED <<phase, bufferVars, omxVars>>

-----------------------------------------------------------------------------
(* ilclient_disable_port_buffers, called with no buffers of the client      *)

\* After a failure: "we're left with the error bit set and an error event in
\* the queue.  Clear these now if they exist."
Return == Goto(IF caller = "enable_port_buffers" THEN "clear" ELSE "over")

DisablePort ==
  /\ at = "disable"
  /\ IF bEnabled
     THEN /\ num' = Cardinality(Buffer) /\ Goto("take")
          /\ bEnabled' = FALSE /\ pending' = pending \cup {"PortDisable"}
     ELSE Return /\ UNCHANGED <<num, bEnabled, pending>>
  /\ Silent
  /\ UNCHANGED <<phase, in_list, taken, buf, caller, set, allocated, emptying, done,
                 refused>>

TakeBuffers ==
  /\ at = "take" /\ Goto("free")
  /\ taken' = Reverse(in_list) /\ in_list' = <<>>
  /\ Silent /\ UNCHANGED <<phase, buf, num, caller, set, omxVars>>

FreeBuffer ==
  /\ at = "free" /\ taken # <<>>
  /\ allocated' = allocated \ {Head(taken)}
  /\ taken' = Tail(taken) /\ num' = num - 1
  /\ Silent
  /\ UNCHANGED <<at, phase, in_list, buf, caller, set, emptying, done, bEnabled,
                 pending, refused>>

\* Buffers are missing: wait for one, or for the end of the command "in case we
\* didn't have all the buffers allocated".
DisableMask == {"PORT_DISABLED", "EVENT_ERROR", "EMPTY_BUFFER_DONE"}
FreedAll ==
  /\ at = "free" /\ taken = <<>>
  /\ Goto(IF num = 0 THEN "disable_wait" ELSE "missing")
  /\ Silent /\ UNCHANGED <<phase, bufferVars, omxVars>>

\* vcos_event_flags_get consumes all flags of the mask.
WaitMissing ==
  /\ at = "missing" /\ Goto("look")
  /\ set' = event[decode] \cap DisableMask
  /\ FlagsGet(decode, DisableMask)
  /\ UNCHANGED <<phase, in_list, taken, buf, num, caller, omxVars>>

\* The events looked for are those of the flags that were returned.
EndsAtAnyError(e) == "EVENT_ERROR" \in set /\ IsError(e)
EndsDisable(e) ==
  \/ "EVENT_ERROR" \in set /\ FailedCommand(e)
  \/ "PORT_DISABLED" \in set /\ e = CmdComplete("PortDisable", Port)
LookForEnd ==
  LET failure == SelectInSeq(list[decode], LAMBDA e : EndsDisable(e) /\ IsError(e))
      end == SelectInSeq(list[decode], EndsDisable)
  IN  /\ at = "look"
      /\ \/ TakeEvent(decode, failure) /\ Return
         \/ failure = 0 /\ TakeEvent(decode, end) /\ Return
         \/ /\ end = 0 /\ Goto("take")
            /\ UNCHANGED <<event_list, list, event>>
      /\ UNCHANGED <<error_mask, related, asserted, phase, bufferVars, omxVars>>

DisableWait ==
  \/ WaitForCommand("disable_wait", "PortDisable", "disabled", "assert")
  \/ /\ at = "disabled" /\ Return
     /\ Silent /\ UNCHANGED <<phase, bufferVars, omxVars>>

Client ==
  \/ EnablePort \/ UseBuffer \/ QueueBuffers \/ EnableWait \/ ClearError
  \/ GetInputBuffer \/ Submit \/ EndLoop
  \/ DisablePort \/ TakeBuffers \/ FreeBuffer \/ FreedAll \/ WaitMissing
  \/ LookForEnd \/ DisableWait

-----------------------------------------------------------------------------
(* OpenMAX and the callbacks                                                *)

\* ilclient_empty_buffer_done puts the buffer at the end of the list, under the
\* semaphore, and then sets the flag.
AppendBuffer ==
  /\ in_list' = Append(in_list, Head(emptying)) /\ emptying' = Tail(emptying)
  /\ Silent
SetFlag ==
  /\ event' = [event EXCEPT ![decode] = @ \cup {"EMPTY_BUFFER_DONE"}]
  /\ UNCHANGED <<event_list, list, error_mask, related, asserted, in_list, emptying>>
FlagFirst ==
  \/ done = "idle" /\ emptying # <<>> /\ done' = "told" /\ SetFlag
  \/ done = "told" /\ done' = "idle" /\ AppendBuffer
AppendFirst ==
  \/ done = "idle" /\ emptying # <<>> /\ done' = "told" /\ AppendBuffer
  \/ done = "told" /\ done' = "idle" /\ SetFlag
ilclient_empty_buffer_done ==
  /\ AppendFirst
  /\ UNCHANGED <<at, phase, taken, buf, num, caller, set, allocated, bEnabled,
                 pending, refused>>

Answer(command, e) ==
  /\ command \in pending /\ pending' = pending \ {command}
  /\ ilclient_event_handler(decode, e)
  /\ UNCHANGED <<at, phase, bufferVars, allocated, emptying, done>>

PortEnabled ==
  /\ allocated = Buffer /\ bEnabled
  /\ Answer("PortEnable", CmdComplete("PortEnable", Port))
  /\ UNCHANGED <<bEnabled, refused>>
EnableFailed ==
  \/ /\ "PortDisable" \in pending
     /\ Answer("PortEnable", Error("Failed", "1")) /\ UNCHANGED <<bEnabled, refused>>
  \/ /\ "PortDisable" \notin pending /\ Refuse("PortEnable")
     /\ Answer("PortEnable", Error("Failed", "1")) /\ bEnabled' = FALSE
PortDisabled ==
  /\ allocated = {} /\ "PortEnable" \notin pending
  /\ Answer("PortDisable", CmdComplete("PortDisable", Port))
  /\ UNCHANGED <<bEnabled, refused>>

\* An error that ends no command.
StreamCorrupt ==
  /\ emptying # <<>> /\ ~Contains(list[decode], Error("StreamCorrupt", "0"))
  /\ ilclient_event_handler(decode, Error("StreamCorrupt", "0"))
  /\ UNCHANGED <<at, phase, bufferVars, omxVars>>

OpenMAX ==
  \/ ilclient_empty_buffer_done \/ PortEnabled \/ EnableFailed \/ PortDisabled
  \/ StreamCorrupt

Over == at = "over" \/ asserted
Next == ~Over /\ (Client \/ OpenMAX)
Spec == Init /\ [][Next]_vars

-----------------------------------------------------------------------------
(* Properties                                                               *)

\* A buffer is in one place: handed back, taken to be freed, with the client or
\* with OpenMAX, and nowhere once it has been freed (ilclient.c:894-993).
Places == in_list \o taken \o emptying \o (IF buf = NoBuffer THEN <<>> ELSE <<buf>>)
BufferInOnePlace == IsInjective(Places) /\ ToSet(Places) = allocated

\* No wake-up is lost: while the client has not ended, it can go on, or OpenMAX
\* owes it something; except that disable_port_buffers waits forever for a
\* buffer that the client still holds because its last submission was refused
\* (video.c:284-290 passes no list of such buffers).
NoWaitForever ==
  \/ Over \/ ENABLED Client \/ ENABLED OpenMAX
  \/ at = "missing" /\ "last OMX_EmptyThisBuffer" \in refused

\* However enabling and disabling went, no buffer is left with OpenMAX in the
\* end, except when the port was disabled before disable_port_buffers saw it
\* (ilclient.c:868-879).
NothingLeaked == (at = "over" /\ "PortEnable" \notin refused) => allocated = {}
=============================================================================
