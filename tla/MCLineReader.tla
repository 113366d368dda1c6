---------------------------- MODULE MCLineReader ----------------------------
(* Small streams for TLC: all of a kind, up to a maximal length.           *)
EXTENDS LineReader

CONSTANT MaxLength

MCStreams == UNION { [1 .. n -> Byte] : n \in 0 .. MaxLength }

(* A two-byte terminator, which a chunk may cut in two, a one-byte one, or *)
(* messages of a fixed size.                                               *)
MCFramings ==
  { [terminator |-> <<"R", "L">>, maxInput |-> 0],
    [terminator |-> <<"L">>, maxInput |-> 0],
    [terminator |-> <<>>, maxInput |-> 2],
    [terminator |-> <<>>, maxInput |-> 3] }
=============================================================================
