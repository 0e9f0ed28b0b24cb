------------------------------- MODULE MCTurn -------------------------------
(* Turns with the model on a small instance: rich answers and all that can *)
(* go wrong with them; the button of the display; a poller besides.        *)
EXTENDS Turn

OneCall  == <<"call">>
TwoCalls == <<"call", "call">>
Speaks   == <<"say", "call">>
Text     == <<"say">>

SmallAnswers == {OneCall, TwoCalls, Speaks, Text, <<>>, <<"say", "say">>}
SmallScenes ==
  {[with |-> "trouble", kinds |-> {"chat", "job"}, answers |-> SmallAnswers, styles |-> Styles],
   [with |-> "button", kinds |-> {"command"}, answers |-> {}, styles |-> {}],
   [with |-> "poller", kinds |-> {"chat", "serial"}, answers |-> {Text}, styles |-> {"full"}]}
=============================================================================
