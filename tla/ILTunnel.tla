------------------------------ MODULE ILTunnel ------------------------------
(***************************************************************************)
(* The procedures of the IL client library that create components, change  *)
(* their state and set up, flush and tear down tunnels                     *)
(* (src/src/player/libilclient/ilclient.c), and OpenMAX as far as the      *)
(* library relies on it.                                                   *)
(*                                                                         *)
(* One client thread runs one procedure at a time; `at' is the statement   *)
(* it has come to, `args' what the procedure was called with.  A procedure *)
(* ends at "ok" or "failed".  Commands sent one after the other are sent   *)
(* in one step, since OpenMAX may be arbitrarily late to take them up.     *)
(*                                                                         *)
(* OpenMAX is external.  It answers every command once, with CmdComplete   *)
(* or with an error, those for one port or for the state in order.  What   *)
(* the library's comments rely on is kept: a port that is disabled already *)
(* answers SameState (line 536); the port of a source completes only when  *)
(* the sink leaves Loaded (line 589), and the sink becomes Idle only when  *)
(* the port of the source is enabled; a port whose other end is disabled   *)
(* may report that it is unpopulated (line 471).                           *)
(***************************************************************************)
EXTENDS ILEvents, FiniteSets

CONSTANTS
  Tunnel,        \* tunnels: records source, source_port, sink, sink_port
  OtherPort,     \* [ports of no tunnel -> their component]
  MaxFailures    \* bound: commands and calls that OpenMAX refuses

ASSUME ILTunnelAssumption ==
  /\ MaxFailures \in Nat
  /\ \A t \in Tunnel : t.source \in Component /\ t.sink \in Component

VARIABLES
  at, args,      \* the client: statement, and argument of the procedure
  phase,         \* of a wait: "look" at the list, at its "errors", or "blocked"
  state,         \* [Component -> OMX state, or "none" when it does not exist]
  enabled,       \* ports that are enabled
  tunnelled,     \* tunnels OMX_SetupTunnel has connected
  commands,      \* commands sent and not answered, in order
  announcedPorts, \* ports whose settings have been announced
  failures       \* what OpenMAX has refused so far

clientVars == <<at, args, phase>>
ilVars == <<state, enabled, tunnelled, commands, announcedPorts, failures>>

TunnelPorts == {t.source_port : t \in Tunnel} \cup {t.sink_port : t \in Tunnel}
Owner(p) ==
  IF p \in DOMAIN OtherPort THEN OtherPort[p]
  ELSE LET t == CHOOSE t \in Tunnel : p \in {t.source_port, t.sink_port}
       IN  IF p = t.source_port THEN t.source ELSE t.sink
PortsOf(c) == {p \in TunnelPorts \cup DOMAIN OtherPort : Owner(p) = c}

TunnelInit ==
  /\ EventsInit
  /\ phase = "look" /\ state = [c \in Component |-> "none"]
  /\ enabled = {} /\ tunnelled = {} /\ commands = <<>> /\ announcedPorts = {}
  /\ failures = 0

-----------------------------------------------------------------------------
(* OpenMAX                                                                  *)

Command(c, command, data) == [comp |-> c, command |-> command, data |-> data]
Subject(m) == IF m.command = "StateSet" THEN <<m.comp>> ELSE <<m.comp, m.data>>
Outstanding(m) == \E i \in DOMAIN commands : commands[i] = m

\* The other end of the tunnel a port belongs to.
TunnelOf(p) == {t \in tunnelled : p \in {t.source_port, t.sink_port}}
SinkLeavesLoaded(t) ==
  state[t.sink] # "Loaded" \/ Outstanding(Command(t.sink, "StateSet", "Idle"))

MayComplete(m) ==
  CASE m.command = "PortEnable" ->
         \/ Outstanding(Command(m.comp, "PortDisable", m.data))
         \/ \A t \in TunnelOf(m.data) : m.data = t.source_port => SinkLeavesLoaded(t)
    [] m.command = "StateSet" /\ m.data = "Idle" /\ state[m.comp] = "Loaded" ->
         \A t \in tunnelled :
           (t.sink = m.comp /\ t.sink_port \in enabled) => t.source_port \in enabled
    [] OTHER -> TRUE

SameState(m) ==
  \/ m.command = "StateSet" /\ state[m.comp] = m.data
  \/ m.command = "PortDisable" /\ m.data \notin enabled

\* What takes resources may be refused: enabling a port, and going up.
MayBeRefused(m) ==
  \/ m.command = "PortEnable"
  \/ /\ m.command = "StateSet"
     /\ <<state[m.comp], m.data>> \in {<<"Loaded", "Idle">>, <<"Idle", "Executing">>}

Complete(m) ==
  /\ state' = IF m.command = "StateSet" THEN [state EXCEPT ![m.comp] = m.data] ELSE state
  /\ enabled' = CASE m.command = "PortEnable" -> enabled \cup {m.data}
                  [] m.command = "PortDisable" -> enabled \ {m.data}
                  [] OTHER -> enabled
  /\ ilclient_event_handler(m.comp, CmdComplete(m.command, m.data))

\* OpenMAX takes up a command no earlier one of the same subject is before.
Answer ==
  \E i \in DOMAIN commands :
    LET m == commands[i] IN
    /\ state[m.comp] # "none"
    /\ \A j \in 1 .. i - 1 : Subject(commands[j]) # Subject(m)
    /\ commands' = RemoveAt(commands, i)
    /\ \/ /\ SameState(m)
          /\ ilclient_event_handler(m.comp, Error("SameState", "1"))
          /\ UNCHANGED <<state, enabled, failures>>
       \/ ~SameState(m) /\ MayComplete(m) /\ Complete(m) /\ UNCHANGED failures
       \/ /\ ~SameState(m) /\ MayBeRefused(m)
          /\ failures < MaxFailures /\ failures' = failures + 1
          /\ ilclient_event_handler(m.comp, Error("Failed", "1"))
          /\ UNCHANGED <<state, enabled>>
    /\ UNCHANGED <<clientVars, tunnelled, announcedPorts>>

\* Taking the buffers of one end away makes the other report that it is
\* unpopulated, before the command that did so is answered.
TakesBuffers(c, p) ==
  Outstanding(Command(c, "PortDisable", p)) \/ Outstanding(Command(c, "StateSet", "Loaded"))
Reports(c, p, other, otherPort) ==
  /\ TakesBuffers(other, otherPort)
  /\ p \in enabled /\ state[c] # "Loaded"
  /\ ~Contains(list[c], Error("Unpopulated", "0"))
  /\ ilclient_event_handler(c, Error("Unpopulated", "0"))
Unpopulated ==
  /\ \E t \in tunnelled :
       \/ Reports(t.source, t.source_port, t.sink, t.sink_port)
       \/ Reports(t.sink, t.sink_port, t.source, t.source_port)
  /\ UNCHANGED <<clientVars, ilVars>>

\* A component that has left Loaded announces the settings of its output port,
\* once.
Announce ==
  \E t \in Tunnel :
    /\ t.source_port \notin announcedPorts /\ state[t.source] \in {"Idle", "Executing"}
    /\ announcedPorts' = announcedPorts \cup {t.source_port}
    /\ ilclient_event_handler(t.source, PortSettingsChanged(t.source_port))
    /\ UNCHANGED <<clientVars, state, enabled, tunnelled, commands, failures>>

-----------------------------------------------------------------------------
(* Statements of the client                                                 *)

Goto(l) == at' = l /\ UNCHANGED args
Silent == UNCHANGED eventVars

\* OMX_SendCommand for some commands, and on.
Send(from, ms, to) ==
  /\ at = from /\ Goto(to)
  /\ commands' = commands \o ms
  /\ UNCHANGED <<phase, state, enabled, tunnelled, announcedPorts, failures>>

\* ilclient_wait_for_command_complete(_dual), with the statement that follows
\* each of its results.  vc_assert(0) ends the process.
GotoOrAssert(l) ==
  IF l = "assert" THEN asserted' = TRUE /\ UNCHANGED <<at, args>>
  ELSE asserted' = asserted /\ Goto(l)

WaitFor(from, c, command, data, other, ok, failed, otherFailed) ==
  /\ at = from
  /\ \/ /\ phase = "look" /\ UNCHANGED phase
        /\ \E r \in {0, -1, -2} :
             /\ WaitReturns(c, command, data, other, r)
             /\ GotoOrAssert(IF r = 0 THEN ok ELSE IF r = -1 THEN failed ELSE otherFailed)
     \/ /\ phase = "look" /\ phase' = "blocked"
        /\ WaitMustBlock(c, command, data, other)
        /\ UNCHANGED <<at, args, eventVars>>
     \/ /\ phase = "blocked" /\ phase' = "look"
        /\ FlagsGet(c, WaitMask(command))
        /\ UNCHANGED <<at, args>>
  /\ UNCHANGED ilVars

Wait(from, c, command, data, ok, failed) ==
  WaitFor(from, c, command, data, NoComponent, ok, failed, failed)

\* ilclient_wait_for_event: with ERROR in the mask an error in the list or the
\* error flag ends the wait; with a timeout it may end by itself.
WaitForEvent(from, c, e, errors, timeout, ok, failed) ==
  LET i == PlaceOf(c, e)
      error == SelectInSeq(list[c], IsError)
  IN  /\ at = from
      /\ \/ /\ phase = "look" /\ TakeEvent(c, i)
            /\ Goto(ok) /\ UNCHANGED <<phase, error_mask, related, asserted>>
         \/ /\ phase = "look" /\ i = 0
            /\ phase' = (IF errors THEN "errors" ELSE "blocked")
            /\ Silent /\ UNCHANGED <<at, args>>
         \/ /\ phase = "errors" /\ error # 0
            /\ phase' = "look" /\ Goto(failed)
            /\ event' = [event EXCEPT ![c] = @ \ {"EVENT_ERROR"}]
            /\ UNCHANGED <<event_list, list, error_mask, related, asserted>>
         \/ /\ phase = "errors" /\ error = 0
            /\ phase' = "blocked" /\ Silent /\ UNCHANGED <<at, args>>
         \/ /\ phase = "blocked" /\ phase' = "look"
            /\ FlagsGet(c, {FlagOf(e)} \cup (IF errors THEN {"EVENT_ERROR"} ELSE {}))
            /\ IF errors /\ "EVENT_ERROR" \in event[c] THEN Goto(failed)
               ELSE UNCHANGED <<at, args>>
         \/ /\ phase = "blocked" /\ timeout
            /\ phase' = "look" /\ Goto(failed) /\ Silent
      /\ UNCHANGED ilVars

\* A call of OpenMAX that may be refused.
MayFail(from, ok, failed) ==
  /\ at = from /\ Silent
  /\ \/ Goto(ok) /\ UNCHANGED failures
     \/ /\ failures < MaxFailures /\ failures' = failures + 1
        /\ Goto(failed)
  /\ UNCHANGED <<phase, state, enabled, tunnelled, commands, announcedPorts>>

SetMask(cs, mask) ==
  error_mask' = [c \in Component |-> IF c \in cs THEN mask ELSE error_mask[c]]
-----------------------------------------------------------------------------
(* The procedures                                                           *)

\* ilclient_create_component with ILCLIENT_DISABLE_ALL_PORTS: the ports of a
\* new component are enabled, and are disabled one by one.
create_component ==
  LET c == args.comp
      port == CHOOSE p \in PortsOf(c) \cap enabled : TRUE
  IN  \/ /\ at = "create" /\ Silent
         /\ \/ /\ state' = [state EXCEPT ![c] = "Loaded"]
               /\ enabled' = enabled \cup PortsOf(c)
               /\ Goto("ports") /\ UNCHANGED failures
            \/ /\ failures < MaxFailures /\ failures' = failures + 1
               /\ Goto("failed") /\ UNCHANGED <<state, enabled>>
         /\ UNCHANGED <<phase, tunnelled, commands, announcedPorts>>
      \/ /\ at = "ports" /\ PortsOf(c) \cap enabled = {}
         /\ Goto("ok") /\ Silent /\ UNCHANGED <<phase, ilVars>>
      \/ /\ at = "ports" /\ PortsOf(c) \cap enabled # {}
         /\ at' = "ports_wait" /\ args' = [args EXCEPT !.port = port]
         /\ commands' = Append(commands, Command(c, "PortDisable", port))
         /\ UNCHANGED <<eventVars, phase, state, enabled, tunnelled, announcedPorts, failures>>
      \/ Wait("ports_wait", c, "PortDisable", args.port, "ports", "assert")

\* ilclient_change_component_state; a failure takes an error event with it.
change_component_state ==
  LET c == args.comp
      s == args.state
  IN  \/ Silent /\ Send("change", <<Command(c, "StateSet", s)>>, "change_wait")
      \/ Wait("change_wait", c, "StateSet", s, "ok", "change_clear")
      \/ /\ at = "change_clear" /\ Goto("failed")
         /\ RemoveError(c)
         /\ UNCHANGED <<error_mask, related, asserted, phase, ilVars>>

\* ilclient_disable_tunnel: unpopulated errors are ignored meanwhile.
disable_tunnel(t, from, source_wait, sink_wait, end, to) ==
  \/ /\ Send(from, <<Command(t.source, "PortDisable", t.source_port),
                     Command(t.sink, "PortDisable", t.sink_port)>>, source_wait)
     /\ SetMask({t.source, t.sink}, {"Unpopulated"})
     /\ UNCHANGED <<event_list, list, event, related, asserted>>
  \/ Wait(source_wait, t.source, "PortDisable", t.source_port,
          sink_wait, "assert")
  \/ Wait(sink_wait, t.sink, "PortDisable", t.sink_port, end, "assert")
  \/ /\ at = end /\ Goto(to)
     /\ SetMask({t.source, t.sink}, {})
     /\ UNCHANGED <<event_list, list, event, related, asserted, phase, ilVars>>

\* ilclient_disable_port inside another procedure.
disable_port(c, p, from, wait, to) ==
  \/ Silent /\ Send(from, <<Command(c, "PortDisable", p)>>, wait)
  \/ Wait(wait, c, "PortDisable", p, to, "assert")

\* other->related, set and reset without the lock.
Relate(from, other, c, to) ==
  /\ at = from /\ Goto(to)
  /\ related' = [related EXCEPT ![other] = c]
  /\ UNCHANGED <<event_list, list, event, error_mask, asserted, phase, ilVars>>

\* ilclient_enable_tunnel.  While the sink is in Loaded its way to Idle is
\* waited for as well, and a failure of the source must end that wait.
enable_tunnel(t, ok, failed) ==
  \/ /\ Silent
     /\ Send("enable", <<Command(t.source, "PortEnable", t.source_port),
                        Command(t.sink, "PortEnable", t.sink_port)>>, "get_state")
  \/ /\ at = "get_state" /\ Silent /\ UNCHANGED <<phase, ilVars>>
     /\ Goto(IF state[t.sink] = "Loaded" THEN "loaded_enable" ELSE "sink_enable")
  \/ Wait("loaded_enable", t.sink, "PortEnable", t.sink_port, "loaded_idle", "source_off")
  \/ Silent /\ Send("loaded_idle", <<Command(t.sink, "StateSet", "Idle")>>, "relate")
  \/ Relate("relate", t.source, t.sink, "idle_wait")
  \/ WaitFor("idle_wait", t.sink, "StateSet", "Idle", t.source,
             "unrelate", "unrelate_failed", "unrelate_source")
  \/ Relate("unrelate", t.source, NoComponent, "source_enable")
  \/ Relate("unrelate_failed", t.source, NoComponent, "source_off")
  \/ Relate("unrelate_source", t.source, NoComponent, "source_clear")
  \/ Wait("source_clear", t.source, "PortEnable", t.source_port, "sink_off", "sink_off")
  \/ disable_port(t.sink, t.sink_port, "sink_off", "sink_off_wait", "source_off")
  \/ disable_port(t.source, t.source_port, "source_off", "source_off_wait", failed)
  \/ Wait("sink_enable", t.sink, "PortEnable", t.sink_port, "source_enable", "sink_failed")
  \/ disable_port(t.source, t.source_port, "sink_failed", "sink_failed_wait", "source_event")
  \/ WaitForEvent("source_event", t.source, CmdComplete("PortEnable", t.source_port),
                  TRUE, FALSE, failed, failed)
  \/ Wait("source_enable", t.source, "PortEnable", t.source_port, ok, "source_failed")
  \/ disable_port(t.sink, t.sink_port, "source_failed", "source_failed_wait", failed)

\* ilclient_setup_tunnel.  The stream of the port may be missing.
setup_tunnel ==
  LET t == args.tunnel
  IN  \/ /\ at = "setup" /\ Silent
         /\ IF state[t.source] # "Loaded"
            THEN Goto("settings") /\ UNCHANGED commands
            ELSE /\ Goto("source_idle")
                 /\ commands' = Append(commands, Command(t.source, "StateSet", "Idle"))
         /\ UNCHANGED <<phase, state, enabled, tunnelled, announcedPorts, failures>>
      \/ Wait("source_idle", t.source, "StateSet", "Idle", "settings", "idle_clear")
      \/ /\ at = "idle_clear" /\ Goto("failed") /\ RemoveError(t.source)
         /\ UNCHANGED <<error_mask, related, asserted, phase, ilVars>>
      \/ /\ at = "settings" /\ ~args.timeout /\ Goto("disable")
         /\ Silent /\ UNCHANGED <<phase, ilVars>>
      \/ /\ at = "settings" /\ args.timeout
         /\ WaitForEvent("settings", t.source, PortSettingsChanged(t.source_port),
                         TRUE, TRUE, "disable", "failed")
      \/ disable_tunnel(t, "disable", "disable_source", "disable_sink", "disabled", "streams")
      \/ MayFail("streams", "connect", "failed")
      \/ /\ at = "connect" /\ Silent
         /\ \/ Goto("enable") /\ tunnelled' = tunnelled \cup {t} /\ UNCHANGED failures
            \/ /\ failures < MaxFailures /\ failures' = failures + 1
               /\ Goto("failed") /\ UNCHANGED tunnelled
         /\ UNCHANGED <<phase, state, enabled, commands, announcedPorts>>
      \/ enable_tunnel(t, "ok", "undo")
      \/ /\ at = "undo" /\ Goto("undo_sink") /\ tunnelled' = tunnelled \ {t}
         /\ Silent
         /\ UNCHANGED <<phase, state, enabled, commands, announcedPorts, failures>>
      \/ /\ at = "undo_sink" /\ Goto("undo_source") /\ RemoveError(t.sink)
         /\ UNCHANGED <<error_mask, related, asserted, phase, ilVars>>
      \/ /\ at = "undo_source" /\ Goto("failed") /\ RemoveError(t.source)
         /\ UNCHANGED <<error_mask, related, asserted, phase, ilVars>>

\* ilclient_flush_tunnels, one tunnel after the other; errors do not end the
\* waits.
flush_tunnels ==
  LET t == Head(args)
  IN  \/ /\ at = "flush" /\ args = <<>> /\ Goto("ok") /\ Silent
         /\ UNCHANGED <<phase, ilVars>>
      \/ /\ at = "flush" /\ args # <<>> /\ Silent
         /\ Send("flush", <<Command(t.source, "Flush", t.source_port),
                           Command(t.sink, "Flush", t.sink_port)>>, "flush_source")
      \/ /\ at = "flush_source"
         /\ WaitForEvent("flush_source", t.source, CmdComplete("Flush", t.source_port),
                         FALSE, FALSE, "flush_sink", "flush_sink")
      \/ /\ at = "flush_sink"
         /\ WaitForEvent("flush_sink", t.sink, CmdComplete("Flush", t.sink_port),
                         FALSE, FALSE, "flush_next", "flush_next")
      \/ /\ at = "flush_next" /\ at' = "flush" /\ args' = Tail(args) /\ Silent
         /\ UNCHANGED <<phase, ilVars>>

\* ilclient_state_transition: all components of the list, then all waits.
state_transition ==
  LET cs == ToSet(args.list)
      c == Head(args.list)
  IN  \/ /\ Send("transition",
                 [i \in DOMAIN args.list |->
                    Command(args.list[i], "StateSet", args.state)], "transition_wait")
         /\ event' = [d \in Component |->
                        IF d \in cs THEN event[d] \ {"EVENT_ERROR"} ELSE event[d]]
         /\ IF args.state = "Loaded" THEN SetMask(cs, {"Unpopulated"})
            ELSE UNCHANGED error_mask
         /\ UNCHANGED <<event_list, list, related, asserted>>
      \/ /\ at = "transition_wait" /\ args.list # <<>>
         /\ Wait("transition_wait", c, "StateSet", args.state, "transition_next", "assert")
      \/ /\ at = "transition_next" /\ at' = "transition_wait"
         /\ args' = [args EXCEPT !.list = Tail(@)]
         /\ Silent /\ UNCHANGED <<phase, ilVars>>
      \/ /\ at = "transition_wait" /\ args.list = <<>> /\ Goto("ok")
         /\ IF args.state = "Loaded" THEN SetMask(Component, {})
            ELSE UNCHANGED error_mask
         /\ UNCHANGED <<event_list, list, event, related, asserted, phase, ilVars>>

\* ilclient_teardown_tunnels and ilclient_cleanup_components are one step per
\* tunnel and component: OMX_SetupTunnel with NULL, return_events, OMX_FreeHandle.
teardown_tunnels ==
  /\ at = "teardown" /\ Goto("ok") /\ tunnelled' = tunnelled \ ToSet(args)
  /\ Silent
  /\ UNCHANGED <<phase, state, enabled, commands, announcedPorts, failures>>

cleanup_components ==
  \/ /\ at = "cleanup" /\ args # <<>>
     /\ ilclient_return_events(Head(args))
     /\ at' = "free" /\ UNCHANGED <<args, phase, ilVars>>
  \/ /\ at = "free" /\ at' = "cleanup" /\ args' = Tail(args)
     /\ state' = [state EXCEPT ![Head(args)] = "none"]
     /\ Silent
     /\ UNCHANGED <<phase, enabled, tunnelled, commands, announcedPorts, failures>>
  \/ /\ at = "cleanup" /\ args = <<>> /\ Goto("ok") /\ Silent
     /\ UNCHANGED <<phase, ilVars>>
=============================================================================
