------------------------------ MODULE ILEvents ------------------------------
(***************************************************************************)
(* The event queues of the IL client library                               *)
(* (src/src/player/libilclient/ilclient.c).  OpenMAX reports what happened *)
(* to a component through ilclient_event_handler, in a thread of its own;  *)
(* the handler moves an event structure from the client's pool of spare    *)
(* ones to the head of the component's list and sets a flag.  A client     *)
(* that waits removes the event from the list or blocks on the flags.      *)
(*                                                                         *)
(* Every operation below is one critical section of the event lock         *)
(* (ilclient_lock_events) or one call of the event flags group, so each is *)
(* one step of the modules that use it.  An event structure is what is     *)
(* written in it; the spare ones are counted.                              *)
(***************************************************************************)
EXTENDS Integers, Sequences, SequencesExt

CONSTANTS
  Component,     \* the components of the client
  NoComponent,   \* NULL
  NUM_EVENTS     \* event structures of the client

ASSUME ILEventsAssumption ==
  NoComponent \notin Component /\ NUM_EVENTS \in Nat \ {0}

VARIABLES
  event_list,    \* number of spare event structures
  list,          \* [Component -> its events, the newest first]
  event,         \* [Component -> flags that are set]
  error_mask,    \* [Component -> errors it ignores]
  related,       \* [Component -> who is told of its command failures]
  asserted       \* a vc_assert has failed: the process is gone

eventVars == <<event_list, list, event, error_mask, related, asserted>>

Flags == {"PORT_DISABLED", "PORT_ENABLED", "STATE_CHANGED", "PARAMETER_CHANGED",
          "EVENT_ERROR", "PORT_FLUSH"}

\* OMX_EventCmdComplete, _EventError and _EventPortSettingsChanged.  The second
\* datum of an error is "1" when it ended a command.  All data are strings.
CmdComplete(command, data2) ==
  [eEvent |-> "CmdComplete", nData1 |-> command, nData2 |-> data2]
Error(code, data2) == [eEvent |-> "Error", nData1 |-> code, nData2 |-> data2]
PortSettingsChanged(port) ==
  [eEvent |-> "PortSettingsChanged", nData1 |-> port, nData2 |-> "0"]

\* ilclient_init: all structures are spare.
EventsInit ==
  /\ event_list = NUM_EVENTS /\ asserted = FALSE
  /\ list = [c \in Component |-> <<>>]
  /\ event = [c \in Component |-> {}]
  /\ error_mask = [c \in Component |-> {}]
  /\ related = [c \in Component |-> NoComponent]

-----------------------------------------------------------------------------
(* ilclient_event_handler                                                   *)

\* The list without the later copies of an event it holds twice.
KeepOne(kept, e) == IF Contains(kept, e) THEN kept ELSE Append(kept, e)
WithoutDuplicates(events) ==
  IF IsInjective(events) THEN events ELSE FoldLeft(KeepOne, <<>>, events)

FlagOf(e) ==
  CASE e.eEvent = "PortSettingsChanged" -> "PARAMETER_CHANGED"
    [] e.eEvent = "Error" -> "EVENT_ERROR"
    [] OTHER -> [StateSet |-> "STATE_CHANGED", PortDisable |-> "PORT_DISABLED",
                 PortEnable |-> "PORT_ENABLED", Flush |-> "PORT_FLUSH"][e.nData1]

Ignored(c, e) == e.eEvent = "Error" /\ e.nData1 \in error_mask[c]
FailedCommand(e) == e.eEvent = "Error" /\ e.nData2 = "1"

\* An ignored error sets no flag, but the component that waits for c is told.
TellNobody(c, e) ==
  [event EXCEPT ![c] = IF Ignored(c, e) THEN @ ELSE @ \cup {FlagOf(e)}]
FlagsAfter(c, e) ==
  [d \in Component |->
    event[d] \cup (IF d = c /\ ~Ignored(c, e) THEN {FlagOf(e)} ELSE {})
             \cup (IF FailedCommand(e) /\ related[c] = d THEN {"EVENT_ERROR"} ELSE {})]

ilclient_event_handler(c, e) ==
  LET kept == WithoutDuplicates(list[c])
      spare == event_list + Len(list[c]) - Len(kept)
      queued == spare > 0 /\ ~Ignored(c, e)
  IN  /\ event' = FlagsAfter(c, e)
      /\ list' = [list EXCEPT ![c] = IF queued THEN <<e>> \o kept ELSE kept]
      /\ event_list' = IF queued THEN spare - 1 ELSE spare
      /\ asserted' = (asserted \/ spare = 0)
      /\ UNCHANGED <<error_mask, related>>

-----------------------------------------------------------------------------
(* Looking for events and removing them                                     *)

\* An event is looked for with SelectInSeq, which is 0 when there is none.
PlaceOf(c, e) == SelectInSeq(list[c], LAMBDA f : f = e)
\* The i-th event goes back to the spare ones; an error takes the flag with it,
\* whatever other errors are queued.
ClearErrorFlag(c, e) ==
  [event EXCEPT ![c] = IF e.eEvent = "Error" THEN @ \ {"EVENT_ERROR"} ELSE @]
TakeEvent(c, i) ==
  /\ i # 0
  /\ list' = [list EXCEPT ![c] = RemoveAt(@, i)]
  /\ event_list' = event_list + 1
  /\ event' = ClearErrorFlag(c, list[c][i])

\* ilclient_remove_event(c, OMX_EventError, 0, 1, 0, 1): any error, if there.
IsError(e) == e.eEvent = "Error"
RemoveError(c) ==
  LET i == SelectInSeq(list[c], IsError)
  IN  \/ TakeEvent(c, i)
      \/ i = 0 /\ UNCHANGED <<event_list, list, event>>

ReturnOne(c) ==
  /\ event_list' = event_list + (IF list[c] = <<>> THEN 0 ELSE 1)
  /\ list' = [list EXCEPT ![c] = <<>>]
  /\ UNCHANGED <<event, error_mask, related, asserted>>
\* ilclient_return_events: the whole list goes back.
ilclient_return_events(c) ==
  /\ event_list' = event_list + Len(list[c])
  /\ list' = [list EXCEPT ![c] = <<>>]
  /\ UNCHANGED <<event, error_mask, related, asserted>>

-----------------------------------------------------------------------------
(* Waiting.  FlagsGet is vcos_event_flags_get: it returns when a flag    *)
(* of the mask is set, and clears those it returns.                         *)

CompletesOrFails(e, command, data2) ==
  e = CmdComplete(command, data2) \/ FailedCommand(e)
PlaceOfEnd(c, command, data2) ==
  SelectInSeq(list[c], LAMBDA e : CompletesOrFails(e, command, data2))

\* ilclient_wait_for_command_complete_dual returns r: 0 and -1 with the event
\* that says so, -2 when other has failed a command.
SucceededOnlyIfComplete(e) == e.eEvent = "CmdComplete"
SucceededAlways(e) == TRUE
Succeeded(e) == e.eEvent = "CmdComplete" \/ e.nData1 = "SameState"
WaitReturns(c, command, data2, other, r) ==
  LET i == PlaceOfEnd(c, command, data2)
  IN  /\ \/ /\ TakeEvent(c, i)
            /\ r = (IF Succeeded(list[c][i]) THEN 0 ELSE -1)
         \/ /\ r = -2 /\ i = 0
            /\ other # NoComponent /\ SelectInSeq(list[other], FailedCommand) # 0
            /\ UNCHANGED <<event_list, list, event>>
      /\ UNCHANGED <<error_mask, related>>

WaitMustBlock(c, command, data2, other) ==
  /\ PlaceOfEnd(c, command, data2) = 0
  /\ other # NoComponent => SelectInSeq(list[other], FailedCommand) = 0

WaitMask(command) == {"EVENT_ERROR", FlagOf(CmdComplete(command, "0"))}

FlagsGet(c, mask) ==
  /\ event[c] \cap mask # {}
  /\ event' = [event EXCEPT ![c] = @ \ mask]
  /\ UNCHANGED <<event_list, list, error_mask, related, asserted>>
=============================================================================
