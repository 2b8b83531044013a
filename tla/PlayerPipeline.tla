--------------------------- MODULE PlayerPipeline ---------------------------
(***************************************************************************)
(* The life of the player's OpenMAX pipeline: video_decode_test            *)
(* (src/src/player/video.c) as the sequence of library calls it makes, on  *)
(* the library of ILTunnel.  The loop that feeds the decoder is in Player  *)
(* and its input buffers are in ILBuffers; here it only waits for the      *)
(* announcement of the port settings, or ends.                             *)
(***************************************************************************)
EXTENDS ILTunnel

CONSTANTS
  decode, render, clock, scheduler,   \* the four components
  Pipelines      \* bound: the parts of the pipeline that are looked at

ASSUME PipelineAssumption ==
  /\ Component = {decode, render, clock, scheduler}
  /\ IsInjective(<<decode, render, clock, scheduler>>)
  /\ Pipelines \subseteq SUBSET Component

tunnel0 == [source |-> decode, source_port |-> "131", sink |-> scheduler, sink_port |-> "10"]
tunnel1 == [source |-> scheduler, source_port |-> "11", sink |-> render, sink_port |-> "220"]
tunnel2 == [source |-> clock, source_port |-> "80", sink |-> scheduler, sink_port |-> "12"]

VARIABLES
  pipeline,      \* the components of this run; calls for others are left out
  call,          \* the call of Program that is being made, or the last made
  status,        \* "ok" while status is 0, else why it is not
  fed            \* the input buffers are enabled: the loop is entered

pipelineVars == <<eventVars, clientVars, ilVars, pipeline, call, status, fed>>

\* A call: the condition it is under, the statement its procedure begins with,
\* its arguments, the status its failure sets, and the components it is about.
Call(when, begin, a, fails, cs) ==
  [when |-> when, begin |-> begin, args |-> a, fails |-> fails, about |-> cs]
Create(c) == Call("ok", "create", [comp |-> c, port |-> "none"], "create", {c})
SetState(when, c, s) == Call(when, "change", [comp |-> c, state |-> s], "ok", {c})
Ends(t) == {t.source, t.sink}
Setup(t, timeout, fails) ==
  Call("ok", "setup", [tunnel |-> t, timeout |-> timeout], fails, Ends(t))
Disable(t) == Call("always", "off", t, "ok", Ends(t))

\* The way down: to Idle together, then to Loaded together.
BringDown(comps, s) ==
  Call("always", "transition", [list |-> comps, state |-> s], "ok", {})

\* The list of the components and that of the tunnels of the run.
If(there, x) == IF there THEN <<x>> ELSE <<>>
Comps(cs) ==
  If(decode \in cs, decode) \o If(render \in cs, render)
  \o If(clock \in cs, clock) \o If(scheduler \in cs, scheduler)
Tunnels(cs) ==
  If(Ends(tunnel0) \subseteq cs, tunnel0) \o If(Ends(tunnel1) \subseteq cs, tunnel1)
  \o If(Ends(tunnel2) \subseteq cs, tunnel2)

video_decode_test(cs) ==
  << Create(decode), Create(render), Create(clock), Create(scheduler),
     Setup(tunnel2, FALSE, "clock"),
     SetState("unless clock", clock, "Executing"),
     SetState("ok", decode, "Idle"),
     Call("ok", "buffers", <<>>, "buffers", {}),
     SetState("fed", decode, "Executing"),
     Call("fed", "feed", <<>>, "ended", {decode}),
     Setup(tunnel0, FALSE, "tunnel"),
     SetState("ok", scheduler, "Executing"),
     Setup(tunnel1, TRUE, "tunnel"),
     SetState("ok", render, "Idle"),
     Call("ok", "enable_render", <<>>, "ok", {render}),
     SetState("ok", render, "Executing"),
     Call("fed", "flush", Tunnels(cs), "ok", {}),
     Disable(tunnel0), Disable(tunnel1), Disable(tunnel2),
     Call("always", "teardown", Tunnels(cs), "ok", {}),
     BringDown(Comps(cs), "Idle"), BringDown(Comps(cs), "Loaded"),
     Call("always", "cleanup", Comps(cs), "ok", {}) >>
Programs == [cs \in Pipelines |-> video_decode_test(cs)]
Program == Programs[pipeline]

PipelineInit ==
  /\ TunnelInit
  /\ at = "ok" /\ args = <<>>
  /\ pipeline \in Pipelines /\ call = 0 /\ status = "ok" /\ fed = FALSE

-----------------------------------------------------------------------------
\* The next call of this run whose condition holds.  A component that was not
\* created is NULL: its tunnels are not disabled, but to change its state or
\* tear its tunnel down is an access through it.
Missing(c) == state[c] = "none"
Holds(k, s, f) ==
  LET when == Program[k].when
  IN  /\ Program[k].about \subseteq pipeline
      /\ when = "ok" => s = "ok"
      /\ when = "unless clock" => s # "clock"
      /\ when = "fed" => f
      /\ Program[k].begin = "off" =>
           ~Missing(Program[k].args.source) /\ ~Missing(Program[k].args.sink)
ThroughNull(k) ==
  \/ Program[k].begin = "change" /\ Missing(Program[k].args.comp)
  \/ Program[k].begin = "teardown" /\ \E c \in pipeline : Missing(c)

NextCall ==
  LET s == IF at = "failed" /\ call > 0 /\ Program[call].fails # "ok"
           THEN Program[call].fails ELSE status
      f == fed \/ (call > 0 /\ Program[call].begin = "buffers" /\ at = "ok")
      later == {k \in call + 1 .. Len(Program) : Holds(k, s, f)}
  IN  /\ at \in {"ok", "failed"}
      /\ status' = s /\ fed' = f /\ UNCHANGED pipeline
      /\ IF later = {} THEN at' = "done" /\ UNCHANGED <<call, args>>
         ELSE \E k \in later :
                /\ \A l \in later : k <= l
                /\ call' = k /\ args' = Program[k].args
                /\ at' = IF ThroughNull(k) THEN "crash" ELSE Program[k].begin
      /\ UNCHANGED <<eventVars, phase, ilVars>>

\* The port settings of the decoder are looked for after every read; the loop
\* may also end without them.
Feed ==
  /\ at = "feed"
  /\ \/ /\ Goto("ok")
        /\ TakeEvent(decode, PlaceOf(decode, PortSettingsChanged("131")))
        /\ UNCHANGED <<error_mask, related, asserted>>
     \/ Goto("failed") /\ Silent
  /\ UNCHANGED <<phase, ilVars>>

\* Nobody waits for the command that enables port 221.
EnableRender ==
  Silent /\ Send("enable_render", <<Command(render, "PortEnable", "221")>>, "ok")

Procedure ==
  \/ create_component \/ change_component_state \/ setup_tunnel
  \/ MayFail("buffers", "ok", "failed")
  \/ Feed \/ EnableRender \/ flush_tunnels
  \/ disable_tunnel(args, "off", "off_source", "off_sink", "off_end", "ok")
  \/ teardown_tunnels \/ state_transition \/ cleanup_components

Client ==
  \/ NextCall
  \/ Procedure /\ UNCHANGED <<pipeline, call, status, fed>>

OpenMAXAnswers == (Answer \/ Unpopulated \/ Announce) /\ UNCHANGED <<pipeline, call, status, fed>>

Over == at \in {"done", "crash"} \/ asserted
PipelineNext ==
  \/ ~Over /\ (Client \/ OpenMAXAnswers)
  \/ Over /\ UNCHANGED pipelineVars

PipelineSpec == PipelineInit /\ [][PipelineNext]_pipelineVars

-----------------------------------------------------------------------------
(* Properties                                                               *)

\* Every event structure is spare or in the list of one component, whatever is
\* dropped, ignored, removed or returned.
EventsConserved ==
  event_list + Len(list[decode]) + Len(list[render]) + Len(list[clock])
    + Len(list[scheduler]) = NUM_EVENTS

\* No wait is forever: while the thread has not ended, it can go on, or OpenMAX
\* owes an answer that it can give.  A wait for a sink that depends on a source
\* which has failed is the case the library has `related' for.
NoStuck == ~Over => ENABLED (Client \/ Answer)

Returned(begin, result) == call > 0 /\ Program[call].begin = begin /\ at = result

\* What a call returns is so: after success a tunnel is connected with both its
\* ports enabled and a component is in the state asked for; after failure the
\* tunnel is gone and the port of its source is disabled.
ReportsTruth ==
  /\ Returned("setup", "ok") =>
       LET t == Program[call].args.tunnel
       IN  t \in tunnelled /\ {t.source_port, t.sink_port} \subseteq enabled
  /\ Returned("setup", "failed") =>
       LET t == Program[call].args.tunnel
       IN  t \notin tunnelled /\ t.source_port \notin enabled
  /\ Returned("change", "ok") =>
       state[Program[call].args.comp] = Program[call].args.state

\* One refusal of OpenMAX does not trip an assertion, except when the tear-down
\* itself is refused, or port 221, whose answer nobody waits for: the next wait
\* on the renderer takes that error for its own.
OneRefusalTolerated ==
  (asserted /\ failures <= 1) =>
    \/ at = "transition_wait"
    \/ render \in pipeline /\ status = "ok" /\ "221" \notin enabled
=============================================================================
