---------------------------- MODULE MCStreamEpics ---------------------------
(* Protocols and inputs that TLC tries on StreamEpics.                     *)
EXTENDS StreamEpics

In(line) == [op |-> "in", pattern |-> {line}, timed |-> FALSE]
Do(op)   == [op |-> op, pattern |-> {}, timed |-> FALSE]

Good == <<"g">>
Bad  == <<"b">>

NoBlocks == [b \in Block |-> <<>>]
With(body, blocks) == blocks @@ ("commands" :> body) @@ NoBlocks

(* A query with an @init handler, and with a handler for mismatches.       *)
Query == With(<<Do("out"), In(Good)>>,
  [onInit |-> <<Do("out"), In(Good)>>, onMismatch |-> <<Do("out")>>])
(* Reads a line without asking for it.                                     *)
Listen == With(<<In(Good)>>, [onReplyTimeout |-> <<Do("out"), In(Good)>>])

(* Sends a subscription in @init, then reads whatever comes.               *)
Subscribe == With(<<In(Good)>>, [onInit |-> <<Do("out")>>])

(* Asks for an event, and once more if it does not come.                   *)
Prompted == With(<<Do("out"), [op |-> "event", pattern |-> {}, timed |-> TRUE]>>,
  [onReplyTimeout |-> <<Do("out")>>])

(* A query after a setting that @init sends; lines of which every second   *)
(* one does not match.                                                     *)
Configured == With(<<Do("out"), In(Good)>>, [onInit |-> <<Do("out")>>])
Mismatched == With(<<In(Good), In(Bad)>>, [onMismatch |-> <<Do("out")>>])

MCProtocols == {Query, Listen}
ListenProtocols == {Configured, Listen, Prompted, Mismatched}
SubscribeOnly == {Subscribe}
OneByteTerminator == <<"T">>
SingleLines == {<<"g", "T">>, <<"b", "T">>}
GoodLines == {<<"g", "T">>}
TwoLines == {<<"g", "T">>, <<"g", "T", "g", "T">>}
=============================================================================
