----------------------------- MODULE ByteString -----------------------------
(***************************************************************************)
(* What a StreamBuffer promises (the hints in StreamBuffer.h): a string of *)
(* bytes that is appended to, cut, searched and replaced. A negative index *)
(* counts from the end, a negative length reaches to the left, and a range *)
(* that sticks out of the string is clipped.                               *)
(***************************************************************************)
EXTENDS Integers, Sequences

CONSTANTS Bytes,     \* the byte values, 0 among them
          Texts,     \* the strings that callers pass
          Numbers    \* the integers that callers pass as index or length

VARIABLE content

Lower(a, b) == IF a < b THEN a ELSE b
Clipped(n, length) == IF n < 0 THEN 0 ELSE Lower(n, length)
FromEnd(index, length) == IF index < 0 THEN index + length ELSE index

\* The part of a string that index and length select: from its first byte up
\* to, but not including, its last one, before the range is clipped.
First(s, index, length) == FromEnd(index, Len(s)) + (IF length < 0 THEN length ELSE 0)
Last(s, index, length)  == FromEnd(index, Len(s)) + (IF length < 0 THEN 0 ELSE length)

\* The string without that part and "more" bytes to the left of it, and with
\* another one in its place.
Replaced(s, index, length, more, ins) ==
    LET first == Clipped(First(s, index, length) - more, Len(s))
        last  == Clipped(Last(s, index, length), Len(s))
    IN  SubSeq(s, 1, first) \o ins \o SubSeq(s, last + 1, Len(s))

\* A range that ends before the string begins: what happens is not promised.
OutOfReach(s, index, length) == Last(s, index, length) < 0

Append1(c)    == content' = Append(content, c)
AppendText(s) == content' = content \o s
Fill(c, n)    == content' = content \o [i \in 1..n |-> c]
CutEnd(n)     == content' = SubSeq(content, 1, Len(content) - Lower(n, Len(content)))
CutStart(n)   == content' = SubSeq(content, Lower(n, Len(content)) + 1, Len(content))
Replace(index, length, more, ins) ==
    \/ content' = Replaced(content, index, length, more, ins)
    \/ /\ OutOfReach(content, index, length)
       /\ Len(content') <= Len(content) + Len(ins)
Truncate(index) == Replace(index, Len(content), 0, <<>>)
Put(index, c) ==
    /\ FromEnd(index, Len(content)) \in 0..(Len(content) - 1)
    /\ content' = [content EXCEPT ![FromEnd(index, Len(content)) + 1] = c]
\* reserve() hands out n bytes at the end for the caller to fill.
Reserve(n) ==
    /\ Len(content') = Len(content) + n
    /\ SubSeq(content', 1, Len(content)) = content
Set(s) == content' = s
Clear == content' = <<>>

Init == content \in Texts \cup {<<>>}

Next ==
    \/ \E c \in Bytes : Append1(c)
    \/ Clear
    \/ \E s \in Texts : AppendText(s) \/ Set(s)
    \/ \E c \in Bytes, n \in Numbers : Fill(c, n) \/ Put(n, c)
    \/ \E n \in Numbers : Truncate(n)
    \/ \E n \in Numbers \cap Nat : CutEnd(n) \/ CutStart(n) \/ Reserve(n)
    \/ \E i, n \in Numbers, s \in Texts \cup {<<>>} : Replace(i, n, 0, s)
    \/ \E i, n \in Numbers, more \in Numbers \cap Nat : Replace(i, n, more, <<>>)

Spec == Init /\ [][Next]_content
=============================================================================
