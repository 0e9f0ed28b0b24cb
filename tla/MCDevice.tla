------------------------------ MODULE MCDevice ------------------------------
(* The device on a small instance: three keys, two slots for facts, three  *)
(* releases, one of them sound.                                            *)
EXTENDS Device

Give(k, v) == [key |-> k, value |-> v]

SmallFiles ==
  {<<Give(1, "x"), Give(0, "bad"), Give(2, "y")>>,
   <<Give(2, "x"), Give(3, "bad")>>,
   <<Give(1, "y"), Give(1, "x")>>,
   <<Give(3, "x"), Give(9, "x")>>, <<>>}
SmallReleases ==
  {[version |-> 1, works |-> "fine"], [version |-> 2, works |-> "fails"], [version |-> 3, works |-> "crashes"]}
SmallScenes ==
  {[about |-> "settings", faults |-> 1, restarts |-> 1],
   [about |-> "facts", faults |-> 2, restarts |-> 1],
   [about |-> "update", faults |-> 1, restarts |-> 2]}
=============================================================================
