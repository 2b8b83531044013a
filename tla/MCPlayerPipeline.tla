-------------------------- MODULE MCPlayerPipeline --------------------------
(* PlayerPipeline with each tunnel of the player on its own: the two        *)
(* components of a tunnel and every call that is about no other.            *)
EXTENDS PlayerPipeline

MCTunnel == {tunnel0, tunnel1, tunnel2}
MCOtherPort == [p \in {"221"} |-> render]
MCPipelines == {{decode, scheduler}, {scheduler, render}, {clock, scheduler}}
=============================================================================
