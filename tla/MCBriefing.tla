----------------------------- MODULE MCBriefing -----------------------------
(* Short days, so that two of them and the catch-up time are reached.      *)
EXTENDS Briefing
=============================================================================
