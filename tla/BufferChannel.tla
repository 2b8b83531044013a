---------------------------- MODULE BufferChannel ----------------------------
(***************************************************************************)
(* What the pixel buffer hand-over of the tracker promises, without        *)
(* semaphores, slots or indices: a bounded first-in first-out channel from *)
(* the GL thread to the analysis thread.  Every message that is sent is    *)
(* delivered once and in the order of sending, at most Capacity messages   *)
(* are under way, and while the channel is open each of them is delivered. *)
(***************************************************************************)
EXTENDS Naturals, Sequences

CONSTANTS Capacity,  \* how many messages may be under way
          Message    \* the messages

VARIABLES sent,      \* every message sent so far, in order
          delivered, \* every message whose delivery is complete, in order
          open       \* FALSE once the channel was closed

vars == <<sent, delivered, open>>

Init ==
  /\ sent = <<>>
  /\ delivered = <<>>
  /\ open = TRUE

Send(m) ==
  /\ open
  /\ Len(sent) - Len(delivered) < Capacity
  /\ sent' = Append(sent, m)
  /\ UNCHANGED <<delivered, open>>

\* A message that is under way when the channel closes may still arrive.
Deliver ==
  /\ Len(delivered) < Len(sent)
  /\ delivered' = Append(delivered, sent[Len(delivered) + 1])
  /\ UNCHANGED <<sent, open>>

Close ==
  /\ open
  /\ open' = FALSE
  /\ UNCHANGED <<sent, delivered>>

Next == (\E m \in Message : Send(m)) \/ Deliver \/ Close

Fairness == WF_vars(open /\ Deliver)

Spec == Init /\ [][Next]_vars /\ Fairness

=============================================================================
