---------------------------- MODULE StreamBuffer ----------------------------
(***************************************************************************)
(* The class StreamBuffer (StreamBuffer.h, StreamBuffer.cc): the string of *)
(* bytes that holds every message, argument and piece of compiled code.    *)
(*                                                                         *)
(*   |----junk----|####content####|------00------|                         *)
(*   0          offs          offs+len          cap                        *)
(*                                                                         *)
(* The memory is a function from 0..cap-1 to bytes. Cutting the start and  *)
(* clearing only move offs, so that junk stays in front of the content;    *)
(* the memory behind it is meant to be zero, because the content is read   *)
(* as a C string. The operations overwrite the memory in the order of the  *)
(* code's memcpy, memmove and memset.                                      *)
(***************************************************************************)
EXTENDS Integers, Sequences

CONSTANTS Bytes,      \* byte values, 0 among them
          Texts,      \* strings that callers pass
          Numbers,    \* integers that callers pass as index or length
          Local,      \* size of the memory inside the object (64)
          Capacities  \* sizes of allocated memory: 2*Local, 4*Local, ...

ASSUME BytesAssumption == Bytes \subseteq 0..255 /\ 0 \in Bytes
ASSUME TextsAssumption == Texts \subseteq Seq(Bytes)
ASSUME NumbersAssumption == Numbers \subseteq Int
ASSUME LocalAssumption == Local \in Nat \ {0}
ASSUME CapacitiesAssumption == Capacities \subseteq Nat

VARIABLES buffer,    \* the memory
          cap,       \* its size
          offs,      \* where the content begins
          len,       \* its length
          spilled    \* a print() left bytes behind the content
vars == <<buffer, cap, offs, len, spilled>>

(***************************************************************************)
(* Memory.                                                                 *)
(***************************************************************************)
Read(mem, at, n) == [k \in 1..n |-> mem[at + k - 1]]
Write(mem, at, s) ==
    [i \in DOMAIN mem |-> IF i \in at..(at + Len(s) - 1) THEN s[i - at + 1] ELSE mem[i]]
Zero(mem, at, n) == [i \in DOMAIN mem |-> IF i \in at..(at + n - 1) THEN 0 ELSE mem[i]]
Blank(size) == [i \in 0..(size - 1) |-> 0]

Content == Read(buffer, offs, len)
BS == INSTANCE ByteString WITH content <- Content

\* The capacity that a loop of doublings ends with: the first that is larger.
\* The set is empty where the model has no memory of that size.
Enough(minsize) == {c \in Capacities : c > minsize /\ \A d \in Capacities : d > minsize => c <= d}

\* grow(): the content moves to the start of the memory, or to a new one.
Grown(minsize) ==
    IF minsize < cap
    THEN {[buffer |-> Zero(Write(buffer, 0, Content), len, offs), cap |-> cap]}
    ELSE {[buffer |-> Write(Blank(c), 0, Content), cap |-> c] : c \in Enough(minsize)}

\* A mutant: no byte is spared for the end mark.
MutChecked(size) ==
    IF len + offs + size > cap
    THEN {[buffer |-> g.buffer, cap |-> g.cap, offs |-> 0] : g \in Grown(len + size)}
    ELSE {[buffer |-> buffer, cap |-> cap, offs |-> offs]}

\* check(): the memory that has room for size more bytes and the end mark.
Checked(size) ==
    IF len + offs + size >= cap
    THEN {[buffer |-> g.buffer, cap |-> g.cap, offs |-> 0] : g \in Grown(len + size)}
    ELSE {[buffer |-> buffer, cap |-> cap, offs |-> offs]}

(***************************************************************************)
(* Operations.                                                             *)
(***************************************************************************)
Install(m, length) ==
    /\ buffer' = m.buffer
    /\ cap' = m.cap
    /\ offs' = m.offs
    /\ len' = length

\* Put a string behind the content.
Store(s) ==
    /\ \E m \in Checked(Len(s)) :
         Install([m EXCEPT !.buffer = Write(m.buffer, m.offs + len, s)], len + Len(s))
    /\ UNCHANGED spilled

AppendByte(c) == Store(<<c>>)
AppendText(s) == Store(s)
AppendFill(c, n) == Store([i \in 1..n |-> c])

\* append(s, size) with a negative size.
AppendNegative(n) ==
    LET size == IF n > len THEN len ELSE n
    IN  /\ buffer' = Zero(buffer, offs + len - size, size)
        /\ len' = len - size
        /\ UNCHANGED <<cap, offs, spilled>>

Clear ==
    /\ offs' = offs + len
    /\ len' = 0
    /\ UNCHANGED <<buffer, cap, spilled>>

\* set(): clear() and append().
Set(s) ==
    /\ \E m \in IF offs + len + Len(s) >= cap
                THEN IF Len(s) < cap
                     THEN {[buffer |-> Zero(buffer, 0, offs + len), cap |-> cap, offs |-> 0]}
                     ELSE {[buffer |-> Blank(c), cap |-> c, offs |-> 0] : c \in Enough(Len(s))}
                ELSE {[buffer |-> buffer, cap |-> cap, offs |-> offs + len]} :
         Install([m EXCEPT !.buffer = Write(m.buffer, m.offs, s)], Len(s))
    /\ UNCHANGED spilled

\* reserve(): the bytes are as they are in the memory.
Reserve(n) ==
    /\ \E m \in Checked(n) : Install(m, len + n)
    /\ UNCHANGED spilled

\* remove(length) from the start.
RemoveStart(n) ==
    LET length == IF n > len THEN len ELSE n
    IN  /\ offs' = offs + length
        /\ len' = len - length
        /\ UNCHANGED <<buffer, cap, spilled>>

\* A byte assigned through operator [].
Assign(index, c) ==
    LET i == IF index < 0 THEN index + len ELSE index
    IN  /\ i \in 0..(len - 1)
        /\ buffer' = [buffer EXCEPT ![offs + i] = c]
        /\ UNCHANGED <<cap, offs, len, spilled>>

(***************************************************************************)
(* replace(): the range is clipped to the content step by step, and a      *)
(* negative remaining length, cast to an unsigned one, is all there is.    *)
(***************************************************************************)
\* A mutant: a range that begins before the content keeps its length.
MutRange(remstart, remlen, more) ==
    LET start1 == IF remstart < 0 THEN remstart + len ELSE remstart
        start2 == (IF remlen < 0 THEN start1 + remlen ELSE start1) - more
        len2   == (IF remlen < 0 THEN -remlen ELSE remlen) + more
        start3 == CASE start2 < 0 -> 0 [] start2 > len -> len [] OTHER -> start2
    IN  [start |-> start3,
         len |-> IF len2 < 0 \/ len2 >= len - start3 THEN len - start3 ELSE len2]

Range(remstart, remlen, more) ==
    LET start1 == IF remstart < 0 THEN remstart + len ELSE remstart
        start2 == (IF remlen < 0 THEN start1 + remlen ELSE start1) - more
        len2   == (IF remlen < 0 THEN -remlen ELSE remlen) + more
        len3   == IF start2 < 0 THEN len2 + start2 ELSE len2
        start3 == CASE start2 < 0 -> 0 [] start2 > len -> len [] OTHER -> start2
    IN  [start |-> start3,
         len |-> IF len3 < 0 \/ len3 >= len - start3 THEN len - start3 ELSE len3]

\* A mutant: what the moved tail leaves behind is not zeroed.
MutInPlace(start, length, ins, newlen) ==
    LET b1 == IF newlen # len
              THEN Write(buffer, offs + start + Len(ins),
                         Read(buffer, offs + start + length, len - start - length))
              ELSE buffer
    IN  [buffer |-> Write(b1, offs + start, ins), cap |-> cap, offs |-> offs]

InPlace(start, length, ins, newlen) ==
    LET b1 == IF newlen # len
              THEN Write(buffer, offs + start + Len(ins),
                         Read(buffer, offs + start + length, len - start - length))
              ELSE buffer
        b2 == Write(b1, offs + start, ins)
    IN  [buffer |-> IF newlen < len THEN Zero(b2, offs + newlen, len - newlen) ELSE b2,
         cap |-> cap, offs |-> offs]

\* A mutant: the text is inserted before the tail is moved out of its way.
MutToStart(start, length, ins, newlen) ==
    LET b1 == Write(buffer, 0, Read(buffer, offs, start))
        b2 == Write(b1, start, ins)
        b3 == Write(b2, start + Len(ins),
                    Read(b2, offs + start + length, len - start - length))
    IN  [buffer |-> IF newlen < offs + len THEN Zero(b3, newlen, offs + len - newlen) ELSE b3,
         cap |-> cap, offs |-> 0]

ToStart(start, length, ins, newlen) ==
    LET b1 == Write(buffer, 0, Read(buffer, offs, start))
        b2 == Write(b1, start + Len(ins),
                    Read(b1, offs + start + length, len - start - length))
        b3 == Write(b2, start, ins)
    IN  [buffer |-> IF newlen < offs + len THEN Zero(b3, newlen, offs + len - newlen) ELSE b3,
         cap |-> cap, offs |-> 0]

ToNew(start, length, ins, newlen, c) ==
    LET b1 == Write(Blank(c), 0, Read(buffer, offs, start))
        b2 == Write(b1, start, ins)
    IN  [buffer |-> Write(b2, start + Len(ins),
                          Read(buffer, offs + start + length, len - start - length)),
         cap |-> c, offs |-> 0]

\* The memories that replace() may leave; only the removal of the start does
\* without touching the bytes.
Replacements(r, ins, newlen) ==
    IF ins = <<>> /\ r.start = 0
    THEN {[buffer |-> buffer, cap |-> cap, offs |-> offs + r.len]}
    ELSE CASE newlen >= cap -> {ToNew(r.start, r.len, ins, newlen, c) : c \in Enough(newlen)}
           [] newlen < cap /\ offs + newlen < cap -> {InPlace(r.start, r.len, ins, newlen)}
           [] OTHER -> {ToStart(r.start, r.len, ins, newlen)}

Replace(remstart, remlen, more, ins) ==
    LET r == Range(remstart, remlen, more)
        newlen == len + Len(ins) - r.len
    IN  /\ \E m \in Replacements(r, ins, newlen) : Install(m, newlen)
        /\ UNCHANGED spilled

\* truncate(), and append(char, count) with a negative count.
Truncate(index) == Replace(index, len, 0, <<>>)

(***************************************************************************)
(* print(): vsnprintf() into the room behind the content; when the text is *)
(* cut, grow() and print again. The text of the first attempt is in memory *)
(* when grow() moves the content.                                          *)
(***************************************************************************)
PrintText(s) ==
    LET room == cap - offs - len
        tried == Write(buffer, offs + len, SubSeq(s, 1, room - 1) \o <<0>>)
        moved == Zero(Write(tried, 0, Content), len, offs)
    IN  IF Len(s) < room
        THEN /\ Install([buffer |-> Write(buffer, offs + len, s \o <<0>>), cap |-> cap, offs |-> offs],
                        len + Len(s))
             /\ UNCHANGED spilled
        ELSE \E m \in IF len + Len(s) < cap
                      THEN {[buffer |-> moved, cap |-> cap, offs |-> 0]}
                      ELSE {[buffer |-> Write(Blank(c), 0, Content), cap |-> c, offs |-> 0]
                               : c \in Enough(len + Len(s))} :
               /\ Install([m EXCEPT !.buffer = Write(m.buffer, len, s \o <<0>>)], len + Len(s))
               /\ spilled' = (spilled \/ len + Len(s) < cap)

(***************************************************************************)
(* find(): the index of a byte or of a string at or after start, or -1.    *)
(***************************************************************************)
Found(S) == IF S = {} THEN -1 ELSE CHOOSE i \in S : \A j \in S : i <= j

\* A negative start has len taken away instead of added, so that it is 0. Behind
\* the content the code is undefined, and so is this: memchr() gets the size
\* len - start as an unsigned number and reads on from there.
FindByte(c, start) ==
    CASE start <= len ->
           Found({i \in (IF start < 0 THEN 0 ELSE start)..(len - 1) : buffer[offs + i] = c})

\* A mutant: the search goes on behind a text that begins like s.
MutFindText(s, start) ==
    LET first == CASE start >= 0 -> start
                   [] start < 0 /\ start + len >= 0 -> start + len
                   [] OTHER -> 0
        next[p \in 0..(len + Len(s))] ==
            LET q == Found({i \in p..(len - Len(s)) : buffer[offs + i] = s[1]})
            IN  IF q = -1 \/ Read(buffer, offs + q, Len(s)) = s THEN q ELSE next[q + Len(s)]
    IN  CASE first + Len(s) > len -> -1
          [] first + Len(s) <= len /\ s = <<>> -> first
          [] OTHER -> next[first]

FindText(s, start) ==
    LET first == CASE start >= 0 -> start
                   [] start < 0 /\ start + len >= 0 -> start + len
                   [] OTHER -> 0
        next[p \in 0..len] ==           \* the search goes on at p
            LET q == Found({i \in p..(len - Len(s)) : buffer[offs + i] = s[1]})
            IN  IF q = -1 \/ Read(buffer, offs + q, Len(s)) = s THEN q ELSE next[q + 1]
    IN  CASE first + Len(s) > len -> -1
          [] first + Len(s) <= len /\ s = <<>> -> first
          [] OTHER -> next[first]

\* init(): the memory for a string, or for minsize bytes without content.
Start(s, minsize) ==
    \E c \in IF minsize >= Local THEN Enough(minsize) ELSE {Local} :
        /\ buffer = Write(Blank(c), 0, s)
        /\ cap = c
        /\ len = Len(s)

Init ==
    /\ \/ \E s \in Texts : Start(s, Len(s))
       \/ \E n \in Numbers \cap Nat : Start(<<>>, n)
    /\ offs = 0
    /\ spilled = FALSE

Next ==
    \/ \E c \in Bytes : AppendByte(c)
    \/ \E s \in Texts : AppendText(s)
    \/ \E c \in Bytes, n \in Numbers \cap Nat : AppendFill(c, n)
    \/ \E n \in Numbers \cap Nat : AppendNegative(n)
    \/ Clear
    \/ \E s \in Texts : Set(s)
    \/ \E n \in Numbers \cap Nat : Reserve(n)
    \/ \E n \in Numbers \cap Nat : RemoveStart(n)
    \/ \E i \in Numbers, c \in Bytes : Assign(i, c)
    \/ \E i, n \in Numbers, s \in Texts \cup {<<>>} : Replace(i, n, 0, s)
    \/ \E i, n \in Numbers, more \in Numbers \cap Nat : Replace(i, n, more, <<>>)
    \/ \E i \in Numbers : Truncate(i)
    \/ \E s \in Texts : PrintText(s)

Spec == Init /\ [][Next]_vars

(***************************************************************************)
(* Properties.                                                             *)
(***************************************************************************)
\* The content and at least one byte behind it are within the memory, so that
\* no operation writes beyond it (check(), grow(), replace(), print()).
TypeOK ==
    /\ cap \in Nat /\ offs \in Nat /\ len \in Nat
    /\ offs + len < cap
    /\ buffer \in [0..(cap - 1) -> Bytes]
    /\ spilled \in BOOLEAN

\* All memory behind the content is zero ("End of StreamBuffer always contains
\* 0x00 bytes", StreamBuffer.h), whatever the operations left in front of it,
\* as long as no print() had to move the content to make room.
Terminated == ~spilled => \A i \in (offs + len)..(cap - 1) : buffer[i] = 0

\* find() returns the first place where the text is, counted from the start of
\* the content, although the search jumps from one first byte to the next; the
\* search for a byte agrees where both count from the start, up to the end of the
\* content.
FindsFirst ==
    \A s \in Texts, start \in Numbers :
        LET from == BS!Clipped(BS!FromEnd(start, len), len)
            places == {i \in from..(len - Len(s)) : SubSeq(Content, i + 1, i + Len(s)) = s}
        IN  /\ FindText(s, start) \in IF places = {} \/ start > len THEN {-1} ELSE places
            /\ \A i \in places : start > len \/ FindText(s, start) <= i
            /\ Len(s) = 1 /\ start \in 0..len => FindByte(s[1], start) = FindText(s, start)

\* replace() takes away the bytes in the range and puts the new ones in their
\* place, whichever of its four ways it takes, unless the range ends before the
\* content begins.
ReplacesRange ==
    \A i, n \in Numbers, more \in Numbers \cap Nat, s \in Texts \cup {<<>>} :
        LET r == Range(i, n, more)
            newlen == len + Len(s) - r.len
        IN  (more = 0 \/ s = <<>>) /\ ~BS!OutOfReach(Content, i, n) =>
                \A m \in Replacements(r, s, newlen) :
                    Read(m.buffer, m.offs, newlen) = BS!Replaced(Content, i, n, more, s)

\* Every operation does to the content what the hints promise, although it
\* works on memory that is moved, reused and reallocated.
ContentKept == BS!Spec
=============================================================================
