---------------------------- MODULE MCStreamCore ----------------------------
(* Protocols and inputs that TLC tries on StreamCore.                      *)
EXTENDS StreamCore

In(line)  == [op |-> "in", pattern |-> {line}, timed |-> FALSE]
Do(op)    == [op |-> op, pattern |-> {}, timed |-> FALSE]
TimedEvent == [op |-> "event", pattern |-> {}, timed |-> TRUE]

Good == <<"g">>
Bad  == <<"b">>

NoBlocks == [b \in Block |-> <<>>]
With(body, blocks) == blocks @@ ("commands" :> body) @@ NoBlocks

(* Query with every handler, two of which talk to the device again.        *)
Query == With(<<Do("out"), In(Good)>>,
  [onInit |-> <<Do("out"), In(Good)>>,
   onReplyTimeout |-> <<Do("out"), In(Good)>>,
   onMismatch |-> <<In(Bad)>>])
(* A dialogue, also after a mismatch.                                      *)
Dialogue == With(<<Do("out"), In(Good), Do("out"), In(Good)>>,
  [onMismatch |-> <<Do("out")>>, onReadTimeout |-> <<Do("wait")>>])
(* Passive and multi-line input.                                           *)
Listen == With(<<In(Good), In(Good)>>, [onMismatch |-> <<Do("exec")>>])
ListenOut == With(<<In(Good), Do("out")>>, [onInit |-> <<In(Good)>>])
(* The commands that do not transfer data.                                 *)
Events == With(<<Do("out"), TimedEvent, Do("event"), Do("out")>>,
  [onReplyTimeout |-> <<Do("out")>>, onWriteTimeout |-> <<TimedEvent>>])
Reconnect == With(<<Do("disconnect"), Do("wait"), Do("connect"), Do("out"), Do("exec")>>,
  [onInit |-> <<Do("out"), Do("wait")>>])

MCProtocols == {Query, Dialogue, Listen, ListenOut, Events, Reconnect}
FewProtocols == {Query, Reconnect}
FewChunks == {<<"b", "T">>, <<"g", "T">>}
OneByteTerminator == <<"T">>
MCChunks == {<<"g">>, <<"T">>, <<"b", "T">>, <<"g", "T">>}
=============================================================================
