----------------------------- MODULE MCOutbound -----------------------------
(* The agent and the Telegram poller, a queue of two.                      *)
EXTENDS Outbound
=============================================================================
