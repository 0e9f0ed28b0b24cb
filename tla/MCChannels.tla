----------------------------- MODULE MCChannels -----------------------------
(* The channels on a small instance; the other bounds are in the cfg file. *)
EXTENDS Channels

Talk(ann, bob) == [p \in People |-> IF p = "ann" THEN ann ELSE bob]
Flash(name, mark, ready, who) ==
  [owner |-> name, mark |-> mark, of |-> IF mark = 0 THEN Nobody ELSE who, ready |-> ready, who |-> who]

(* A new device; a device that was off for a while; a new owner; a change  *)
(* of owner that was cut off half-way.                                     *)
SmallStarts ==
  {[threads |-> Talk(<<"text">>, <<>>), owner |-> "ann", flash |-> Flash(Nobody, 0, FALSE, Nobody)],
   [threads |-> Talk(<<"text", "text", "odd">>, <<>>), owner |-> "ann", flash |-> Flash("ann", 1, TRUE, "ann")],
   [threads |-> Talk(<<"text">>, <<"deleted", "out", "out">>), owner |-> "bob", flash |-> Flash("ann", 1, TRUE, "ann")],
   [threads |-> Talk(<<"text">>, <<"text">>), owner |-> "bob", flash |-> Flash("bob", 0, FALSE, "ann")]}
=============================================================================
