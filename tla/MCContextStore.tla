--------------------------- MODULE MCContextStore ---------------------------
(* Small triggers: a handful of turns reaches both of them.                *)
EXTENDS ContextStore
=============================================================================
