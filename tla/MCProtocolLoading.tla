------------------------- MODULE MCProtocolLoading --------------------------
(* Files for TLC: all that can be put together from a few definitions, and *)
(* some with one statement too few or too many.                            *)
EXTENDS ProtocolLoading, Integers
LOCAL INSTANCE SequencesExt

Text(t) == <<[is |-> "text", of |-> t]>>
Var(x) == <<[is |-> "var", of |-> x]>>
Param(n) == <<[is |-> "param", of |-> n]>>
Junk == <<[is |-> "junk", of |-> ""]>>

St(is, name, value) == <<[is |-> is, name |-> name, value |-> value]>>
Set(name, value) == St("assign", name, value)
Do(name, value) == St("word", name, value)
Close == St("close", "", <<>>)
Protocol(name, body) == St("protocol", name, <<>>) \o body \o Close
Handler(name, body) == St("handler", name, <<>>) \o body \o Close

(* At the top of a file, inside its first protocol, between that and the   *)
(* second one, and inside that.                                            *)
Global == {<<>>, Set("terminator", Text("a")), Set("x", Text("a")),
           Set("x", Text("7")) \o Set("replytimeout", Var("x")),
           Handler("@init", Do("out", Var("x"))),
           Set("replytimeout", Text("7") \o Text("7")) \o Set("x", Param("1"))}
Body == {<<>>, Do("in", Text("a")), Do("out", Var("x")) \o Do("wait", Var("x")),
         Set("x", Text("b")) \o Do("out", Var("x") \o Param("1")),
         Do("out", Text("%?")), Handler("@mismatch", Do("out", Var("x"))) \o Do("disconnect", <<>>)}
Between2 == {<<>>, Set("x", Text("c")), Handler("@init", Do("out", Text("c"))),
             Set("interminator", Var("x"))}
Body2 == {Do("first", <<>>), Do("out", Var("x")) \o Do("first", <<>>),
          Set("extrainput", Text("ignore")) \o Handler("@init", Do("first", <<>>)),
          Set("pollperiod", Param("1")) \o Do("event", Var("x")),
          Set("x", Text("a")) \o Set("x", Text("7")) \o Set("terminator", Var("x")),
          Handler("@other", <<>>) \o Do("in", Text("a"))}

Composed == {g \o Protocol("first", b) \o h \o Protocol("second", c) :
             g \in Global, b \in Body, h \in Between2, c \in Body2}

(* Boundaries of blocks and values, one by one.                            *)
Whole == Set("x", Text("a"))
  \o Protocol("first", Handler("@init", Do("out", Var("x"))) \o Do("in", Text("a")))
  \o Handler("@mismatch", Do("first", <<>>))
  \o Protocol("second", Set("x", Text("b")) \o Do("first", <<>>))
Intruders == {Close, Junk, Set("y", Text("a")), Set("y", Var("z")), Do("first", <<>>),
              St("handler", "@init", <<>>), St("protocol", "first", <<>>),
              St("protocol", "third", <<>>), Set("y", Junk), Do("out", Junk)}
Damaged == {RemoveAt(Whole, i) : i \in DOMAIN Whole}
  \cup {SubSeq(Whole, 1, i - 1) \o s \o SubSeq(Whole, i, Len(Whole)) :
          i \in 1 .. Len(Whole) + 1, s \in Intruders \ {Junk}}
  \cup {SubSeq(Whole, 1, i) : i \in DOMAIN Whole}
  \cup {Append(Whole, [is |-> "junk", name |-> "", value |-> <<>>])}

MCFiles == Composed \cup Damaged \cup {<<>>}
MCNoFile == <<[is |-> "nothing", name |-> "", value |-> <<>>]>>

Other == Protocol("first", Do("out", Text("b")) \o Do("out", Text("%?")))
  \o Set("outterminator", Text("b"))
  \o Protocol("second", Handler("@mismatch", Do("in", Text("b"))) \o Do("in", Text("b")))
Broken == Tail(Whole)
MCEdits == {<<Whole, Broken>>, <<Broken, Other>>, <<Whole, MCNoFile>>}

MCReloads == {e[1] : e \in MCEdits} \cup {e[2] : e \in MCEdits}

MCRecords == <<"r1", "r2">>
MCLink == [r \in {"r1", "r2"} |-> [protocol |-> IF r = "r1" THEN "first" ELSE "second",
                                   args |-> <<"7">>]]
MCDigit == [d \in {"1", "2"} |-> IF d = "1" THEN 1 ELSE 2]
MCNumerals == {"7", "0"}
MCBadFormats == {"%?"}
=============================================================================
