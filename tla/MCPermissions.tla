---------------------------- MODULE MCPermissions ----------------------------
(***************************************************************************)
(* Permissions on a small instance, in two scenes of their own: prompts    *)
(* that are asked for and answered, and resets that chats and jobs speak.  *)
(***************************************************************************)
EXTENDS Permissions

VARIABLE scene

Answering == {<<"confirm", FirstId>>}
Resetting == {"reset"} \X {"ask", "confirm", "cancel", "yes"}
MCPrompts == Answering \cup Resetting

Commands(js) == {j.command : j \in js}

\* One job, which answers the first prompt; one of the owners, whose reset is
\* over before time passes; the clock moves past what was to be answered.
Prompting ==
  /\ Cardinality(jobs') <= 1 /\ Commands(jobs') \subseteq Answering
  /\ readIn'["schedule"] = 0
  /\ \A m \in Range(heard') : m.chat = "telegram"
  /\ now' # 0 => now' = MaxTime /\ heard' = <<>>

\* Two jobs, which speak towards a reset; nothing needs permission.
Wiping ==
  /\ Commands(jobs') \subseteq Resetting
  /\ UNCHANGED modes

MCInit ==
  /\ Init /\ scene \in {"prompts", "resets"}
  /\ scene = "resets" => modes = [s \in Services |-> "allowed"]

MCNext ==
  /\ Next /\ UNCHANGED scene
  /\ scene = "prompts" => Prompting
  /\ scene = "resets" => Wiping

MCSpec == MCInit /\ [][MCNext]_<<vars, scene>>
=============================================================================
