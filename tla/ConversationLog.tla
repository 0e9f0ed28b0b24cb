-------------------------- MODULE ConversationLog --------------------------
(* What the conversation store promises: the turns the model is told about *)
(* are the turns whose storing was acknowledged, each once and in order.   *)
(* Summarising old turns, failing and rebooting change nothing: a turn is  *)
(* added when it is acknowledged and then only, and all of them go when    *)
(* the owner has the conversation forgotten, and then only.                *)
EXTENDS Naturals, Sequences

CONSTANT Turns \* the turns, numbered as they happen

VARIABLES
  log,    \* the turns a request starts with, summarised or in full
  acked,  \* the last turn acknowledged as stored
  forgets \* the times the conversation was forgotten on request

Init == log = <<>> /\ acked = 0 /\ forgets = 0

Say(t) ==
  /\ acked < t
  /\ log' = Append(log, t)
  /\ acked' = t
  /\ UNCHANGED forgets

Forget ==
  /\ log' = <<>>
  /\ forgets' = forgets + 1
  /\ UNCHANGED acked

Next == (\E t \in Turns : Say(t)) \/ Forget

Spec == Init /\ [][Next]_<<log, acked, forgets>>
=============================================================================
