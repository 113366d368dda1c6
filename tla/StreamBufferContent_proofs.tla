--------------------- MODULE StreamBufferContent_proofs ---------------------
(***************************************************************************)
(* A StreamBuffer is the byte string its hints promise (ByteString): what  *)
(* every operation on the memory does to the content. A memory that Holds  *)
(* a string at a position keeps it while other places are written; each    *)
(* operation is followed write by write until the memory holds the string  *)
(* that the abstract operation names. And find(): a search that goes on    *)
(* behind each first byte ends with the first place of the whole text.     *)
(***************************************************************************)
EXTENDS StreamBuffer_proofs, WellFoundedInduction

\* Strings of the same length with the same bytes are the same.
LEMMA SameBytes ==
    ASSUME NEW s \in Seq(Bytes), NEW t \in Seq(Bytes), Len(s) = Len(t),
           \A k \in 1..Len(s) : s[k] = t[k]
    PROVE  s = t
<1>1. DOMAIN s = 1..Len(s) /\ DOMAIN t = 1..Len(t)
  OBVIOUS
<1>2. s \in [1..Len(s) -> Bytes] /\ t \in [1..Len(s) -> Bytes]
  OBVIOUS
<1> QED BY <1>1, <1>2

\* The bytes of a concatenation.
LEMMA ConcatBytes ==
    ASSUME NEW s \in Seq(Bytes), NEW t \in Seq(Bytes)
    PROVE  /\ s \o t \in Seq(Bytes)
           /\ Len(s \o t) = Len(s) + Len(t)
           /\ \A k \in 1..Len(s) : (s \o t)[k] = s[k]
           /\ \A k \in 1..Len(t) : (s \o t)[Len(s) + k] = t[k]
OBVIOUS

\* A memory of c bytes that holds the string s at a position.
Holds(mem, c, at, s) ==
    /\ at \in Nat /\ at + Len(s) <= c
    /\ \A k \in 1..Len(s) : mem[at + k - 1] = s[k]

\* What a memory holds is what is read from it.
LEMMA ReadHeld ==
    ASSUME NEW c \in Nat, NEW mem \in Memory(c), NEW at \in Nat, NEW s \in Seq(Bytes)
    PROVE  /\ Holds(mem, c, at, s) => Read(mem, at, Len(s)) = s
           /\ \A n \in Nat : at + n <= c => Holds(mem, c, at, Read(mem, at, n))
<1>1. ASSUME Holds(mem, c, at, s)
      PROVE  Read(mem, at, Len(s)) = s
  <2>1. Len(s) \in Nat /\ at + Len(s) <= c
    BY <1>1 DEF Holds
  <2>2. Read(mem, at, Len(s)) \in Seq(Bytes) /\ Len(Read(mem, at, Len(s))) = Len(s)
    BY <2>1, ReadType
  <2>3. \A k \in 1..Len(s) : Read(mem, at, Len(s))[k] = s[k]
    BY <1>1, <2>1 DEF Read, Holds
  <2> QED BY <2>2, <2>3, SameBytes
<1>2. ASSUME NEW n \in Nat, at + n <= c
      PROVE  Holds(mem, c, at, Read(mem, at, n))
  <2>1. Read(mem, at, n) \in Seq(Bytes) /\ Len(Read(mem, at, n)) = n
    BY <1>2, ReadType
  <2>2. \A k \in 1..n : Read(mem, at, n)[k] = mem[at + k - 1]
    BY DEF Read
  <2> QED BY <1>2, <2>1, <2>2 DEF Holds
<1> QED BY <1>1, <1>2

\* A written string is held.
LEMMA WriteHeld ==
    ASSUME NEW c \in Nat, NEW mem \in Memory(c), NEW at \in Nat, NEW s \in Seq(Bytes),
           at + Len(s) <= c
    PROVE  Holds(Write(mem, at, s), c, at, s)
<1>1. \A i \in 0..(c - 1) : i >= at /\ i < at + Len(s) => Write(mem, at, s)[i] = s[i - at + 1]
  BY WriteType
<1>2. ASSUME NEW k \in 1..Len(s)
      PROVE  Write(mem, at, s)[at + k - 1] = s[k]
  <2>1. at + k - 1 \in 0..(c - 1) /\ at + k - 1 >= at /\ at + k - 1 < at + Len(s)
        /\ (at + k - 1) - at + 1 = k
    OBVIOUS
  <2> QED BY <1>1, <2>1
<1> QED BY <1>2 DEF Holds

\* What is held is kept by memory operations on other places.
LEMMA HeldKept ==
    ASSUME NEW c \in Nat, NEW mem \in Memory(c), NEW at, NEW s \in Seq(Bytes),
           Holds(mem, c, at, s), NEW other,
           \A i \in 0..(c - 1) : i >= at /\ i < at + Len(s) => other[i] = mem[i]
    PROVE  Holds(other, c, at, s)
<1>1. ASSUME NEW k \in 1..Len(s)
      PROVE  other[at + k - 1] = s[k]
  <2>1. at + k - 1 \in 0..(c - 1) /\ at + k - 1 >= at /\ at + k - 1 < at + Len(s)
    BY DEF Holds
  <2> QED BY <2>1 DEF Holds
<1> QED BY <1>1 DEF Holds

\* ... a string written before or behind it,
LEMMA HeldBesideWrite ==
    ASSUME NEW c \in Nat, NEW mem \in Memory(c), NEW at, NEW s \in Seq(Bytes),
           Holds(mem, c, at, s), NEW pos \in Nat, NEW t \in Seq(Bytes),
           pos + Len(t) <= at \/ at + Len(s) <= pos
    PROVE  Holds(Write(mem, pos, t), c, at, s)
<1>1. \A i \in 0..(c - 1) : i < pos \/ i >= pos + Len(t) => Write(mem, pos, t)[i] = mem[i]
  BY WriteType
<1>2. \A i \in 0..(c - 1) : i >= at /\ i < at + Len(s) => Write(mem, pos, t)[i] = mem[i]
  BY <1>1 DEF Holds
<1> QED BY <1>2, HeldKept

\* ... and zeros.
LEMMA HeldBesideZero ==
    ASSUME NEW c \in Nat, NEW mem \in Memory(c), NEW at, NEW s \in Seq(Bytes),
           Holds(mem, c, at, s), NEW pos \in Nat, NEW n \in Nat,
           pos + n <= at \/ at + Len(s) <= pos
    PROVE  Holds(Zero(mem, pos, n), c, at, s)
<1>1. \A i \in 0..(c - 1) : i < pos \/ i >= pos + n => Zero(mem, pos, n)[i] = mem[i]
  BY ZeroType
<1>2. \A i \in 0..(c - 1) : i >= at /\ i < at + Len(s) => Zero(mem, pos, n)[i] = mem[i]
  BY <1>1 DEF Holds
<1> QED BY <1>2, HeldKept

\* Two strings held side by side are their concatenation.
LEMMA HeldTogether ==
    ASSUME NEW c \in Nat, NEW mem, NEW at, NEW s \in Seq(Bytes), NEW t \in Seq(Bytes),
           Holds(mem, c, at, s), Holds(mem, c, at + Len(s), t)
    PROVE  Holds(mem, c, at, s \o t)
<1>1. /\ s \o t \in Seq(Bytes) /\ Len(s \o t) = Len(s) + Len(t)
      /\ \A k \in 1..Len(s) : (s \o t)[k] = s[k]
      /\ \A k \in 1..Len(t) : (s \o t)[Len(s) + k] = t[k]
  BY ConcatBytes
<1>2. at \in Nat /\ at + Len(s \o t) <= c
  BY <1>1 DEF Holds
<1>3. ASSUME NEW k \in 1..Len(s \o t)
      PROVE  mem[at + k - 1] = (s \o t)[k]
  <2>1. CASE k <= Len(s)
    BY <1>1, <2>1 DEF Holds
  <2>2. CASE ~(k <= Len(s))
    <3>1. k - Len(s) \in 1..Len(t) /\ at + Len(s) + (k - Len(s)) - 1 = at + k - 1
          /\ Len(s) + (k - Len(s)) = k
      BY <1>1, <1>2, <2>2
    <3>2. mem[at + Len(s) + (k - Len(s)) - 1] = t[k - Len(s)]
      BY <3>1 DEF Holds
    <3>3. (s \o t)[Len(s) + (k - Len(s))] = t[k - Len(s)]
      BY <1>1, <3>1
    <3> QED BY <3>1, <3>2, <3>3
  <2> QED BY <2>1, <2>2
<1> QED BY <1>2, <1>3 DEF Holds

\* The content is held, and what is read of a part of it is that part.
LEMMA ContentHeld ==
    ASSUME TypeOK
    PROVE  /\ Content \in Seq(Bytes) /\ Len(Content) = len
           /\ buffer \in Memory(cap) /\ cap \in Nat
           /\ Holds(buffer, cap, offs, Content)
<1>1. /\ len \in Nat /\ offs \in Nat /\ cap \in Nat /\ offs + len <= cap
      /\ buffer \in Memory(cap)
  BY DEF TypeOK, Memory
<1>2. Content \in Seq(Bytes) /\ Len(Content) = len
  BY <1>1, ReadType DEF Content
<1>3. Holds(buffer, cap, offs, Content)
  <2>1. \A n \in Nat : offs + n <= cap => Holds(buffer, cap, offs, Read(buffer, offs, n))
    <3>1. <<>> \in Seq(Bytes)
      OBVIOUS
    <3> QED BY <1>1, <3>1, ReadHeld
  <2> QED BY <1>1, <2>1 DEF Content
<1> QED BY <1>1, <1>2, <1>3

\* A part of the content, from its byte a + 1 to its byte b.
LEMMA PartHeld ==
    ASSUME TypeOK, NEW a \in Nat, NEW b \in Nat, a <= b, b <= len
    PROVE  /\ SubSeq(Content, a + 1, b) \in Seq(Bytes)
           /\ Len(SubSeq(Content, a + 1, b)) = b - a
           /\ Holds(buffer, cap, offs + a, SubSeq(Content, a + 1, b))
           /\ Read(buffer, offs + a, b - a) = SubSeq(Content, a + 1, b)
<1> DEFINE part == SubSeq(Content, a + 1, b)
<1>1. /\ len \in Nat /\ offs \in Nat /\ cap \in Nat /\ offs + len <= cap
      /\ buffer \in Memory(cap)
      /\ Content \in Seq(Bytes) /\ Len(Content) = len
  BY ContentHeld DEF TypeOK
<1>2. /\ part \in Seq(Bytes) /\ Len(part) = b - a
      /\ \A k \in 1..(b - a) : part[k] = Content[a + k]
  <2> HIDE DEF Content
  <2> QED BY <1>1
<1> HIDE DEF part
<1>3. ASSUME NEW k \in 1..Len(part)
      PROVE  buffer[offs + a + k - 1] = part[k]
  <2>1. a + k \in 1..len /\ offs + (a + k) - 1 = offs + a + k - 1
    BY <1>1, <1>2
  <2>2. buffer[offs + (a + k) - 1] = Content[a + k]
    BY <1>1, <2>1, ContentHeld DEF Holds
  <2> QED BY <1>2, <2>1, <2>2
<1>4. Holds(buffer, cap, offs + a, part)
  BY <1>1, <1>2, <1>3 DEF Holds
<1>5. Read(buffer, offs + a, Len(part)) = part
  BY <1>1, <1>2, <1>4, ReadHeld
<1> QED BY <1>2, <1>4, <1>5 DEF part

\* The content after a memory is installed that holds a string.
LEMMA InstalledContent ==
    ASSUME NEW c \in Nat, NEW mem \in Memory(c), NEW o \in Nat, NEW s \in Seq(Bytes),
           Holds(mem, c, o, s),
           Install([buffer |-> mem, cap |-> c, offs |-> o], Len(s))
    PROVE  Content' = s
<1>1. buffer' = mem /\ offs' = o /\ len' = Len(s)
  BY DEF Install
<1>2. Content' = Read(mem, o, Len(s))
  BY <1>1 DEF Content
<1> QED BY <1>2, ReadHeld

\* check() keeps the content and leaves room behind it.
LEMMA CheckedHolds ==
    ASSUME TypeOK, NEW size \in Nat, NEW m \in Checked(size)
    PROVE  /\ m = [buffer |-> m.buffer, cap |-> m.cap, offs |-> m.offs]
           /\ Holds(m.buffer, m.cap, m.offs, Content)
<1> DEFINE s == Content
<1>1. /\ s \in Seq(Bytes) /\ Len(s) = len /\ buffer \in Memory(cap) /\ cap \in Nat
      /\ Holds(buffer, cap, offs, s) /\ len \in Nat /\ offs \in Nat /\ offs + len < cap
  BY ContentHeld DEF TypeOK
<1>2. CASE ~(len + offs + size >= cap)
  <2>1. m = [buffer |-> buffer, cap |-> cap, offs |-> offs]
    BY <1>2 DEF Checked
  <2> HIDE DEF s
  <2> QED BY <1>1, <2>1 DEF s
<1>3. CASE len + offs + size >= cap /\ len + size < cap
  <2>1. m = [buffer |-> Zero(Write(buffer, 0, s), len, offs), cap |-> cap, offs |-> 0]
    BY <1>3 DEF Checked, Grown
  <2> HIDE DEF s
  <2>2. 0 \in Nat /\ 0 + Len(s) <= cap /\ 0 + Len(s) <= len
    BY <1>1
  <2>3. Holds(Write(buffer, 0, s), cap, 0, s) /\ Write(buffer, 0, s) \in Memory(cap)
    BY <1>1, <2>2, WriteHeld, WriteType
  <2>4. Holds(Zero(Write(buffer, 0, s), len, offs), cap, 0, s)
    BY <1>1, <2>2, <2>3, HeldBesideZero
  <2> QED BY <2>1, <2>4 DEF s
<1>4. CASE len + offs + size >= cap /\ ~(len + size < cap)
  <2>1. PICK c \in Enough(len + size) :
            m = [buffer |-> Write(Blank(c), 0, s), cap |-> c, offs |-> 0]
    BY <1>4 DEF Checked, Grown
  <2> HIDE DEF s
  <2>2. c \in Nat /\ c > len + size /\ 0 \in Nat /\ 0 + Len(s) <= c
    BY <1>1, EnoughType
  <2>3. Holds(Write(Blank(c), 0, s), c, 0, s)
    BY <1>1, <2>2, BlankType, WriteHeld
  <2> QED BY <2>1, <2>3 DEF s
<1> QED BY <1>1, <1>2, <1>3, <1>4

\* append() puts a string behind the content.
LEMMA StoreContent ==
    ASSUME IInv, NEW s \in Seq(Bytes), Store(s)
    PROVE  Content' = Content \o s
<1> DEFINE old == Content
<1>1. PICK m \in Checked(Len(s)) :
          Install([m EXCEPT !.buffer = Write(m.buffer, m.offs + len, s)], len + Len(s))
  BY DEF Store
<1>2. /\ TypeOK /\ Len(s) \in Nat /\ old \in Seq(Bytes) /\ Len(old) = len /\ len \in Nat
  BY ContentHeld DEF IInv, TypeOK
<1>3. /\ m = [buffer |-> m.buffer, cap |-> m.cap, offs |-> m.offs]
      /\ Holds(m.buffer, m.cap, m.offs, old)
  BY <1>2, CheckedHolds
<1>4. /\ m.cap \in Nat /\ m.offs \in Nat /\ m.buffer \in Memory(m.cap)
      /\ m.offs + (len + Len(s)) < m.cap
  BY <1>2, CheckedType DEF Fits
<1> DEFINE b == Write(m.buffer, m.offs + len, s)
<1> HIDE DEF old
<1>5. m.offs + len \in Nat /\ m.offs + len + Len(s) <= m.cap /\ m.offs + Len(old) <= m.offs + len
  BY <1>2, <1>4
<1>6. b \in Memory(m.cap) /\ Holds(b, m.cap, m.offs + len, s)
  BY <1>4, <1>5, WriteType, WriteHeld
<1>7. Holds(b, m.cap, m.offs, old)
  BY <1>2, <1>3, <1>4, <1>5, HeldBesideWrite
<1>8. Install([buffer |-> b, cap |-> m.cap, offs |-> m.offs], len + Len(s))
  <2>1. Install([m EXCEPT !.buffer = b], len + Len(s))
    BY <1>1
  <2> HIDE DEF b
  <2>2. [m EXCEPT !.buffer = b] = [buffer |-> b, cap |-> m.cap, offs |-> m.offs]
    BY <1>3
  <2> QED BY <2>1, <2>2
<1> HIDE DEF b
<1>9. Holds(b, m.cap, m.offs, old \o s)
  BY <1>2, <1>4, <1>6, <1>7, HeldTogether
<1>10. old \o s \in Seq(Bytes) /\ Len(old \o s) = len + Len(s)
  BY <1>2, ConcatBytes
<1> QED BY <1>4, <1>6, <1>8, <1>9, <1>10, InstalledContent DEF old

\* reserve() keeps the content in front of the new bytes.
LEMMA ReserveContent ==
    ASSUME IInv, NEW n \in Nat, Reserve(n)
    PROVE  /\ Len(Content') = Len(Content) + n
           /\ SubSeq(Content', 1, Len(Content)) = Content
<1> DEFINE old == Content
           new == Content'
<1>1. PICK m \in Checked(n) : Install(m, len + n)
  BY DEF Reserve
<1>2. TypeOK /\ old \in Seq(Bytes) /\ Len(old) = len /\ len \in Nat
  BY ContentHeld DEF IInv, TypeOK
<1>3. Holds(m.buffer, m.cap, m.offs, old)
  BY <1>2, CheckedHolds
<1>4. /\ m.cap \in Nat /\ m.offs \in Nat /\ m.buffer \in Memory(m.cap)
      /\ m.offs + (len + n) <= m.cap /\ len + n \in Nat
  BY <1>2, CheckedType DEF Fits
<1>5. new = Read(m.buffer, m.offs, len + n)
  BY <1>1 DEF Install, Content
<1>6. new \in Seq(Bytes) /\ Len(new) = len + n
  BY <1>4, <1>5, ReadType
<1>7. \A k \in 1..len : new[k] = old[k]
  <2>1. \A k \in 1..len : new[k] = m.buffer[m.offs + k - 1]
    BY <1>2, <1>4, <1>5 DEF Read
  <2>2. \A k \in 1..len : m.buffer[m.offs + k - 1] = old[k]
    BY <1>2, <1>3 DEF Holds
  <2> QED BY <2>1, <2>2
<1> HIDE DEF old, new
<1>8. /\ SubSeq(new, 1, len) \in Seq(Bytes) /\ Len(SubSeq(new, 1, len)) = len
      /\ \A k \in 1..len : SubSeq(new, 1, len)[k] = new[k]
  BY <1>2, <1>4, <1>6
<1>9. SubSeq(new, 1, len) = old
  BY <1>2, <1>7, <1>8, SameBytes
<1> QED BY <1>2, <1>6, <1>9 DEF old, new

\* append() with a negative size cuts the end of the content.
LEMMA AppendNegativeContent ==
    ASSUME IInv, NEW n \in Nat, AppendNegative(n)
    PROVE  Content' = SubSeq(Content, 1, Len(Content) - BS!Lower(n, Len(Content)))
<1> DEFINE size == IF n > len THEN len ELSE n
           s == SubSeq(Content, 0 + 1, len - size)
           b == Zero(buffer, offs + len - size, size)
<1>1. /\ len \in Nat /\ offs \in Nat /\ cap \in Nat /\ TypeOK /\ Len(Content) = len
      /\ buffer \in Memory(cap)
  BY ContentHeld DEF IInv, TypeOK
<1>2. size \in 0..len /\ size = BS!Lower(n, len) /\ len - size \in Nat /\ size \in Nat
  BY <1>1 DEF BS!Lower
<1>3. buffer' = b /\ len' = len - size /\ cap' = cap /\ offs' = offs
  BY DEF AppendNegative
<1> HIDE DEF size
<1>4. 0 \in Nat /\ 0 <= len - size /\ len - size <= len /\ len - size - 0 = len - size
      /\ offs + 0 = offs /\ offs + len - size \in Nat
  BY <1>1, <1>2
<1>5. /\ s \in Seq(Bytes) /\ Len(s) = len - size
      /\ Holds(buffer, cap, offs, s)
  <2>1. /\ s \in Seq(Bytes) /\ Len(s) = len - size - 0
        /\ Holds(buffer, cap, offs + 0, s)
    BY <1>1, <1>2, <1>4, PartHeld
  <2> HIDE DEF s
  <2> QED BY <1>4, <2>1
<1> HIDE DEF s
<1>6. b \in Memory(cap) /\ Holds(b, cap, offs, s)
  <2>1. offs + Len(s) <= offs + len - size
    BY <1>1, <1>2, <1>5
  <2> QED BY <1>1, <1>2, <1>4, <1>5, <2>1, ZeroType, HeldBesideZero
<1> HIDE DEF b
<1>7. Content' = Read(b, offs, Len(s))
  BY <1>3, <1>5 DEF Content
<1>8. Content' = s
  BY <1>1, <1>5, <1>6, <1>7, ReadHeld
<1> QED BY <1>1, <1>2, <1>8 DEF s

\* Bytes cut from the start are the junk in front of the content.
LEMMA CutContent ==
    ASSUME IInv, NEW n \in Nat, n <= len, offs' = offs + n, len' = len - n, buffer' = buffer
    PROVE  Content' = SubSeq(Content, n + 1, Len(Content))
<1>1. len \in Nat /\ TypeOK /\ Len(Content) = len
  BY ContentHeld DEF IInv, TypeOK
<1>2. Read(buffer, offs + n, len - n) = SubSeq(Content, n + 1, len)
  <2>1. len <= len
    BY <1>1
  <2> QED BY <1>1, <2>1, PartHeld
<1> QED BY <1>1, <1>2 DEF Content

\* clear() leaves nothing.
LEMMA ClearContent ==
    ASSUME IInv, Clear
    PROVE  Content' = <<>>
BY DEF Clear, Content, Read

\* remove() from the start.
LEMMA RemoveStartContent ==
    ASSUME IInv, NEW n \in Nat, RemoveStart(n)
    PROVE  Content' = SubSeq(Content, BS!Lower(n, Len(Content)) + 1, Len(Content))
<1> DEFINE length == IF n > len THEN len ELSE n
<1>1. len \in Nat /\ Len(Content) = len
  BY ContentHeld DEF IInv, TypeOK
<1>2. length \in Nat /\ length <= len /\ length = BS!Lower(n, Len(Content))
  BY <1>1 DEF BS!Lower
<1>3. offs' = offs + length /\ len' = len - length /\ buffer' = buffer
  BY DEF RemoveStart
<1> HIDE DEF length
<1> QED BY <1>2, <1>3, CutContent

\* A byte assigned is that byte of the content.
LEMMA AssignContent ==
    ASSUME IInv, NEW index \in Int, NEW c \in Bytes, Assign(index, c)
    PROVE  /\ BS!FromEnd(index, Len(Content)) \in 0..(Len(Content) - 1)
           /\ Content' = [Content EXCEPT ![BS!FromEnd(index, Len(Content)) + 1] = c]
<1> DEFINE i == IF index < 0 THEN index + len ELSE index
           old == Content
           new == Content'
           put == [old EXCEPT ![i + 1] = c]
<1>1. /\ len \in Nat /\ offs \in Nat /\ cap \in Nat /\ offs + len < cap
      /\ buffer \in Memory(cap) /\ old \in Seq(Bytes) /\ Len(old) = len
      /\ Holds(buffer, cap, offs, old)
  BY ContentHeld DEF IInv, TypeOK
<1>2. i \in 0..(len - 1) /\ i = BS!FromEnd(index, Len(old))
  BY <1>1 DEF Assign, BS!FromEnd
<1>3. buffer' = [buffer EXCEPT ![offs + i] = c] /\ offs' = offs /\ len' = len
  BY DEF Assign
<1>4. new = Read(buffer', offs, len) /\ new = [k \in 1..len |-> buffer'[offs + k - 1]]
  BY <1>3 DEF Content, Read
<1> HIDE DEF i, old, new
<1>5. buffer' \in Memory(cap)
  BY <1>1, <1>2, <1>3 DEF Memory
<1>6. new \in Seq(Bytes) /\ Len(new) = len
  <2>1. offs + len <= cap
    BY <1>1
  <2>2. Read(buffer', offs, len) \in Seq(Bytes) /\ Len(Read(buffer', offs, len)) = len
    BY <1>1, <1>5, <2>1, ReadType
  <2> QED BY <1>4, <2>2
<1>7. put \in Seq(Bytes) /\ Len(put) = len
      /\ \A k \in 1..len : put[k] = IF k = i + 1 THEN c ELSE old[k]
  BY <1>1, <1>2
<1>8. ASSUME NEW k \in 1..len PROVE new[k] = put[k]
  <2>1. new[k] = buffer'[offs + k - 1] /\ buffer[offs + k - 1] = old[k]
        /\ offs + k - 1 \in 0..(cap - 1)
    BY <1>1, <1>4 DEF Holds
  <2>2. buffer'[offs + k - 1] = IF offs + k - 1 = offs + i THEN c ELSE buffer[offs + k - 1]
    BY <1>1, <1>3, <2>1 DEF Memory
  <2>3. offs + k - 1 = offs + i <=> k = i + 1
    BY <1>1, <1>2
  <2> QED BY <1>7, <2>1, <2>2, <2>3
<1> HIDE DEF put
<1>9. new = put
  BY <1>6, <1>7, <1>8, SameBytes
<1> QED BY <1>1, <1>2, <1>9 DEF put, old, new

\* set() leaves the new string, wherever it is put.
LEMMA SetContent ==
    ASSUME IInv, NEW s \in Seq(Bytes), Set(s)
    PROVE  Content' = s
<1> DEFINE M == IF offs + len + Len(s) >= cap
                THEN IF Len(s) < cap
                     THEN {[buffer |-> Zero(buffer, 0, offs + len), cap |-> cap, offs |-> 0]}
                     ELSE {[buffer |-> Blank(c), cap |-> c, offs |-> 0] : c \in Enough(Len(s))}
                ELSE {[buffer |-> buffer, cap |-> cap, offs |-> offs + len]}
<1>1. PICK m \in M : Install([m EXCEPT !.buffer = Write(m.buffer, m.offs, s)], Len(s))
  BY DEF Set
<1>2. /\ len \in Nat /\ offs \in Nat /\ cap \in Nat /\ offs + len < cap
      /\ Len(s) \in Nat /\ buffer \in Memory(cap) /\ offs + len \in Nat /\ 0 \in Nat
  BY DEF IInv, TypeOK, Memory
<1>3. /\ m = [buffer |-> m.buffer, cap |-> m.cap, offs |-> m.offs]
      /\ m.offs \in Nat /\ m.cap \in Nat /\ m.offs + Len(s) <= m.cap
      /\ m.buffer \in Memory(m.cap)
  <2>1. CASE ~(offs + len + Len(s) >= cap)
    <3>1. m = [buffer |-> buffer, cap |-> cap, offs |-> offs + len]
      BY <2>1
    <3> QED BY <1>2, <2>1, <3>1
  <2>2. CASE offs + len + Len(s) >= cap /\ Len(s) < cap
    <3>1. m = [buffer |-> Zero(buffer, 0, offs + len), cap |-> cap, offs |-> 0]
      BY <2>2
    <3>2. Zero(buffer, 0, offs + len) \in Memory(cap)
      BY <1>2, ZeroType
    <3> QED BY <1>2, <2>2, <3>1, <3>2
  <2>3. CASE offs + len + Len(s) >= cap /\ ~(Len(s) < cap)
    <3>1. PICK c \in Enough(Len(s)) : m = [buffer |-> Blank(c), cap |-> c, offs |-> 0]
      BY <2>3
    <3>2. c \in Nat /\ c > Len(s) /\ Blank(c) \in Memory(c)
      BY <1>2, EnoughType, BlankType
    <3> QED BY <1>2, <3>1, <3>2
  <2> QED BY <1>2, <2>1, <2>2, <2>3
<1> HIDE DEF M
<1> DEFINE b == Write(m.buffer, m.offs, s)
<1>4. b \in Memory(m.cap) /\ Holds(b, m.cap, m.offs, s)
  BY <1>3, WriteType, WriteHeld
<1>5. Install([buffer |-> b, cap |-> m.cap, offs |-> m.offs], Len(s))
  <2>1. Install([m EXCEPT !.buffer = b], Len(s))
    BY <1>1
  <2> HIDE DEF b
  <2>2. [m EXCEPT !.buffer = b] = [buffer |-> b, cap |-> m.cap, offs |-> m.offs]
    BY <1>3
  <2> QED BY <2>1, <2>2
<1> HIDE DEF b
<1> QED BY <1>3, <1>4, <1>5, InstalledContent

\* The range that replace() takes away is the part of the content that the
\* hints promise, clipped.
LEMMA RangePromised ==
    ASSUME TypeOK, NEW i \in Int, NEW n \in Int, NEW more \in Nat,
           ~BS!OutOfReach(Content, i, n)
    PROVE  LET r == Range(i, n, more)
           IN  /\ r.start = BS!Clipped(BS!First(Content, i, n) - more, Len(Content))
               /\ r.start + r.len = BS!Clipped(BS!Last(Content, i, n), Len(Content))
<1> DEFINE start1 == IF i < 0 THEN i + len ELSE i
           start2 == (IF n < 0 THEN start1 + n ELSE start1) - more
           len2   == (IF n < 0 THEN -n ELSE n) + more
           len3   == IF start2 < 0 THEN len2 + start2 ELSE len2
           start3 == CASE start2 < 0 -> 0 [] start2 > len -> len [] OTHER -> start2
           rest   == IF len3 < 0 \/ len3 >= len - start3 THEN len - start3 ELSE len3
           last   == IF n < 0 THEN start1 ELSE start1 + n
<1>1. len \in Nat /\ Len(Content) = len
  BY ContentHeld DEF TypeOK
<1>2. /\ start1 \in Int /\ start1 = BS!FromEnd(i, Len(Content))
  BY <1>1 DEF BS!FromEnd
<1> HIDE DEF start1
<1>3. /\ start2 = BS!First(Content, i, n) - more
      /\ last = BS!Last(Content, i, n)
      /\ start2 \in Int /\ len2 \in Int /\ len2 >= 0 /\ last \in Int
      /\ start2 + len2 = last /\ last >= 0
  <2>1. /\ start2 = BS!First(Content, i, n) - more
        /\ last = BS!Last(Content, i, n)
    BY <1>2 DEF BS!First, BS!Last
  <2>2. last >= 0
    BY <1>2, <2>1 DEF BS!OutOfReach
  <2> QED BY <1>2, <2>1, <2>2
<1>4. Range(i, n, more) = [start |-> start3, len |-> rest]
  BY DEF Range, start1
<1> HIDE DEF start2, len2, last
<1>5. start3 = BS!Clipped(start2, len) /\ start3 + rest = BS!Clipped(last, len)
  <2>1. CASE start2 < 0
    <3>1. start3 = 0 /\ len3 = last
      <4>1. len3 = len2 + start2 /\ len2 + start2 = last
        BY <1>3, <2>1
      <4>2. start3 = 0
        BY <1>1, <1>3, <2>1
      <4> QED BY <4>1, <4>2
    <3>2. rest = IF last >= len THEN len ELSE last
      <4> HIDE DEF start3, len3
      <4> QED BY <1>1, <1>3, <3>1 DEF rest
    <3> HIDE DEF start3, rest
    <3> QED BY <1>1, <1>3, <2>1, <3>1, <3>2 DEF BS!Clipped, BS!Lower
  <2>2. CASE start2 > len
    <3>1. start3 = len /\ len3 = len2
      BY <1>1, <1>3, <2>2
    <3>2. rest = 0
      <4> HIDE DEF start3, len3
      <4> QED BY <1>1, <1>3, <3>1 DEF rest
    <3> HIDE DEF start3, rest
    <3> QED BY <1>1, <1>3, <2>2, <3>1, <3>2 DEF BS!Clipped, BS!Lower
  <2>3. CASE ~(start2 < 0) /\ ~(start2 > len)
    <3>1. start3 = start2 /\ len3 = len2
      BY <1>1, <1>3, <2>3
    <3>2. rest = IF len2 >= len - start2 THEN len - start2 ELSE len2
      <4> HIDE DEF start3, len3
      <4> QED BY <1>1, <1>3, <3>1 DEF rest
    <3> HIDE DEF start3, rest
    <3> QED BY <1>1, <1>3, <2>3, <3>1, <3>2 DEF BS!Clipped, BS!Lower
  <2> QED BY <2>1, <2>2, <2>3
<1> HIDE DEF start3, rest
<1> QED BY <1>1, <1>3, <1>4, <1>5

\* The content with n bytes at k replaced by ins.
Spliced(k, n, ins) == SubSeq(Content, 1, k) \o ins \o SubSeq(Content, k + n + 1, len)

\* Its parts in a memory make the whole.
LEMMA SplicedHeld ==
    ASSUME TypeOK, NEW k \in Nat, NEW n \in Nat, k + n <= len, NEW ins \in Seq(Bytes),
           NEW c \in Nat, NEW mem \in Memory(c), NEW at \in Nat,
           Holds(mem, c, at, SubSeq(Content, 1, k)),
           Holds(mem, c, at + k, ins),
           Holds(mem, c, at + k + Len(ins), SubSeq(Content, k + n + 1, len))
    PROVE  Read(mem, at, len + Len(ins) - n) = Spliced(k, n, ins)
<1> DEFINE head == SubSeq(Content, 1, k)
           rest == SubSeq(Content, k + n + 1, len)
<1>1. len \in Nat /\ 0 \in Nat /\ 0 <= k /\ k <= len /\ k + n \in Nat /\ len <= len /\ 0 + 1 = 1
      /\ k - 0 = k /\ len - (k + n) = len - k - n
  BY DEF TypeOK
<1>2. head \in Seq(Bytes) /\ Len(head) = k
  <2>1. SubSeq(Content, 0 + 1, k) \in Seq(Bytes) /\ Len(SubSeq(Content, 0 + 1, k)) = k - 0
    BY <1>1, PartHeld
  <2> QED BY <1>1, <2>1
<1>3. rest \in Seq(Bytes) /\ Len(rest) = len - k - n
  <2>1. rest \in Seq(Bytes) /\ Len(rest) = len - (k + n)
    BY <1>1, PartHeld
  <2> QED BY <1>1, <2>1
<1>4. Spliced(k, n, ins) = head \o ins \o rest
  BY DEF Spliced
<1>5. Holds(mem, c, at, head) /\ Holds(mem, c, at + k + Len(ins), rest)
  OBVIOUS
<1> HIDE DEF head, rest
<1>6. Holds(mem, c, at, head \o ins)
  BY <1>2, <1>5, HeldTogether
<1>7. head \o ins \in Seq(Bytes) /\ Len(head \o ins) = k + Len(ins)
  BY <1>2, ConcatBytes
<1>8. at + Len(head \o ins) = at + k + Len(ins)
  <2>1. Len(ins) \in Nat
    OBVIOUS
  <2> QED BY <1>7, <2>1
<1>9. Holds(mem, c, at, (head \o ins) \o rest)
  BY <1>3, <1>5, <1>6, <1>7, <1>8, HeldTogether
<1>10. /\ (head \o ins) \o rest \in Seq(Bytes)
       /\ Len((head \o ins) \o rest) = k + Len(ins) + (len - k - n)
  BY <1>3, <1>7, ConcatBytes
<1>11. k + Len(ins) + (len - k - n) = len + Len(ins) - n
  BY <1>1
<1> QED BY <1>4, <1>9, <1>10, <1>11, ReadHeld, ZenonT(60)

\* The parts that replace() copies: the content before and behind the range.
LEMMA PartsRead ==
    ASSUME TypeOK, NEW k \in Nat, NEW n \in Nat, k + n <= len
    PROVE  /\ SubSeq(Content, 1, k) = Read(buffer, offs, k)
           /\ SubSeq(Content, 1, k) \in Seq(Bytes) /\ Len(SubSeq(Content, 1, k)) = k
           /\ Holds(buffer, cap, offs, SubSeq(Content, 1, k))
           /\ SubSeq(Content, k + n + 1, len) = Read(buffer, offs + k + n, len - k - n)
           /\ SubSeq(Content, k + n + 1, len) \in Seq(Bytes)
           /\ Len(SubSeq(Content, k + n + 1, len)) = len - k - n
           /\ Holds(buffer, cap, offs + k + n, SubSeq(Content, k + n + 1, len))
<1> DEFINE head == SubSeq(Content, 1, k)
           rest == SubSeq(Content, k + n + 1, len)
<1>1. /\ len \in Nat /\ offs \in Nat /\ 0 \in Nat /\ 0 <= k /\ k <= len /\ k + n \in Nat
      /\ len <= len /\ 0 + 1 = 1 /\ k - 0 = k /\ len - (k + n) = len - k - n
      /\ offs + 0 = offs /\ offs + (k + n) = offs + k + n
  BY DEF TypeOK
<1>2. /\ head = Read(buffer, offs, k) /\ head \in Seq(Bytes) /\ Len(head) = k
      /\ Holds(buffer, cap, offs, head)
  <2> DEFINE part == SubSeq(Content, 0 + 1, k)
  <2>1. /\ part \in Seq(Bytes) /\ Len(part) = k - 0
        /\ Holds(buffer, cap, offs + 0, part) /\ Read(buffer, offs + 0, k - 0) = part
    BY <1>1, PartHeld
  <2>2. part = head
    BY <1>1
  <2> HIDE DEF head, part
  <2> QED BY <1>1, <2>1, <2>2
<1>3. /\ rest = Read(buffer, offs + k + n, len - k - n)
      /\ rest \in Seq(Bytes) /\ Len(rest) = len - k - n
      /\ Holds(buffer, cap, offs + k + n, rest)
  <2>1. /\ rest \in Seq(Bytes) /\ Len(rest) = len - (k + n)
        /\ Holds(buffer, cap, offs + (k + n), rest)
        /\ Read(buffer, offs + (k + n), len - (k + n)) = rest
    BY <1>1, PartHeld
  <2> HIDE DEF rest
  <2> QED BY <1>1, <2>1
<1> QED BY <1>2, <1>3

\* replace() that needs a new memory writes the three parts there.
LEMMA ToNewContent ==
    ASSUME TypeOK, NEW k \in Nat, NEW n \in Nat, k + n <= len, NEW ins \in Seq(Bytes),
           NEW new, new = len + Len(ins) - n, NEW c \in Enough(new)
    PROVE  LET m == ToNew(k, n, ins, new, c)
           IN  Read(m.buffer, m.offs, new) = Spliced(k, n, ins)
<1> DEFINE head == SubSeq(Content, 1, k)
           rest == SubSeq(Content, k + n + 1, len)
           b1 == Write(Blank(c), 0, head)
           b2 == Write(b1, k, ins)
           b3 == Write(b2, k + Len(ins), rest)
<1>1. /\ head = Read(buffer, offs, k) /\ head \in Seq(Bytes) /\ Len(head) = k
      /\ rest = Read(buffer, offs + k + n, len - k - n)
      /\ rest \in Seq(Bytes) /\ Len(rest) = len - k - n
  BY PartsRead
<1>2. ToNew(k, n, ins, new, c) = [buffer |-> b3, cap |-> c, offs |-> 0]
  BY <1>1 DEF ToNew
<1>3. len \in Nat /\ Len(ins) \in Nat /\ new \in Nat
  BY DEF TypeOK
<1>4. c \in Nat /\ c > new /\ Blank(c) \in Memory(c)
  BY <1>3, EnoughType, BlankType
<1> HIDE DEF head, rest
<1>5. /\ 0 \in Nat /\ k + Len(ins) \in Nat /\ 0 + Len(head) <= c /\ k + Len(ins) <= c
      /\ k + Len(ins) + Len(rest) <= c /\ 0 + Len(head) <= k /\ 0 + Len(head) <= k + Len(ins)
      /\ 0 + k = k /\ 0 + k + Len(ins) = k + Len(ins)
  BY <1>1, <1>3, <1>4
<1>6. b1 \in Memory(c) /\ Holds(b1, c, 0, head)
  BY <1>1, <1>4, <1>5, WriteType, WriteHeld
<1> HIDE DEF b1
<1>7. b2 \in Memory(c) /\ Holds(b2, c, 0, head) /\ Holds(b2, c, k, ins)
  BY <1>1, <1>4, <1>5, <1>6, WriteType, WriteHeld, HeldBesideWrite
<1> HIDE DEF b2
<1>8. b3 \in Memory(c) /\ Holds(b3, c, k + Len(ins), rest)
  BY <1>1, <1>4, <1>5, <1>7, WriteType, WriteHeld
<1>9. Holds(b3, c, 0, head)
  BY <1>1, <1>4, <1>5, <1>7, HeldBesideWrite
<1>10. Holds(b3, c, k, ins)
  BY <1>1, <1>4, <1>5, <1>7, HeldBesideWrite
<1> HIDE DEF b3
<1>11. Holds(b3, c, 0 + k, ins) /\ Holds(b3, c, 0 + k + Len(ins), rest)
  BY <1>5, <1>8, <1>10
<1>12. Read(b3, 0, len + Len(ins) - n) = Spliced(k, n, ins)
  BY <1>4, <1>5, <1>8, <1>9, <1>11, SplicedHeld DEF head, rest
<1> QED BY <1>2, <1>12

\* replace() where the content is: the part behind moves out of the way.
LEMMA InPlaceContent ==
    ASSUME TypeOK, NEW k \in Nat, NEW n \in Nat, k + n <= len, NEW ins \in Seq(Bytes),
           NEW new, new = len + Len(ins) - n, offs + new < cap
    PROVE  LET m == InPlace(k, n, ins, new)
           IN  Read(m.buffer, m.offs, new) = Spliced(k, n, ins)
<1> DEFINE head == SubSeq(Content, 1, k)
           rest == SubSeq(Content, k + n + 1, len)
           b1 == IF new # len THEN Write(buffer, offs + k + Len(ins), rest) ELSE buffer
           b2 == Write(b1, offs + k, ins)
           b3 == IF new < len THEN Zero(b2, offs + new, len - new) ELSE b2
<1>1. /\ head \in Seq(Bytes) /\ Len(head) = k /\ Holds(buffer, cap, offs, head)
      /\ rest = Read(buffer, offs + k + n, len - k - n)
      /\ rest \in Seq(Bytes) /\ Len(rest) = len - k - n
      /\ Holds(buffer, cap, offs + k + n, rest)
  BY PartsRead
<1>2. InPlace(k, n, ins, new) = [buffer |-> b3, cap |-> cap, offs |-> offs]
  BY <1>1 DEF InPlace
<1>3. /\ len \in Nat /\ offs \in Nat /\ cap \in Nat /\ offs + len < cap /\ buffer \in Memory(cap)
      /\ Len(ins) \in Nat /\ new \in Nat
  BY DEF TypeOK, Memory
<1> HIDE DEF head, rest
<1>4. /\ offs + k \in Nat /\ offs + k + Len(ins) \in Nat /\ offs + new \in Nat
      /\ offs + k + Len(ins) + Len(rest) = offs + new
      /\ offs + Len(head) <= offs + k /\ offs + Len(head) <= offs + k + Len(ins)
      /\ offs + k + Len(ins) <= cap /\ offs + k + Len(ins) <= offs + new
      /\ offs + Len(head) <= offs + new
      /\ offs + k + Len(ins) + Len(rest) <= cap
      /\ offs + k + Len(ins) + Len(rest) <= offs + new
  BY <1>1, <1>3, SMTT(30)
<1>5. /\ b1 \in Memory(cap) /\ Holds(b1, cap, offs, head)
      /\ Holds(b1, cap, offs + k + Len(ins), rest)
  <2>1. CASE new # len
    <3> DEFINE w == Write(buffer, offs + k + Len(ins), rest)
    <3>1. b1 = w
      BY <2>1
    <3>2. w \in Memory(cap) /\ Holds(w, cap, offs + k + Len(ins), rest)
      BY <1>1, <1>3, <1>4, WriteType, WriteHeld
    <3>3. Holds(w, cap, offs, head)
      BY <1>1, <1>3, <1>4, HeldBesideWrite
    <3> HIDE DEF b1, w
    <3> QED BY <3>1, <3>2, <3>3
  <2>2. CASE new = len
    <3>1. b1 = buffer /\ offs + k + Len(ins) = offs + k + n
      BY <1>3, <2>2
    <3> HIDE DEF b1
    <3> QED BY <1>1, <1>3, <3>1
  <2> QED BY <2>1, <2>2
<1> HIDE DEF b1
<1>6. /\ b2 \in Memory(cap) /\ Holds(b2, cap, offs + k, ins)
  BY <1>1, <1>3, <1>4, <1>5, WriteType, WriteHeld
<1>7. Holds(b2, cap, offs, head)
  BY <1>1, <1>3, <1>4, <1>5, HeldBesideWrite
<1>8. Holds(b2, cap, offs + k + Len(ins), rest)
  BY <1>1, <1>3, <1>4, <1>5, HeldBesideWrite, SMTT(30)
<1> HIDE DEF b2
<1>9. /\ b3 \in Memory(cap) /\ Holds(b3, cap, offs, head) /\ Holds(b3, cap, offs + k, ins)
      /\ Holds(b3, cap, offs + k + Len(ins), rest)
  <2>1. CASE new < len
    <3> DEFINE z == Zero(b2, offs + new, len - new)
    <3>1. b3 = z /\ len - new \in Nat
      BY <1>3, <2>1
    <3>2. z \in Memory(cap)
      BY <1>3, <1>4, <1>6, <3>1, ZeroType
    <3>3. Holds(z, cap, offs, head)
      BY <1>1, <1>3, <1>4, <1>6, <1>7, <3>1, HeldBesideZero
    <3>4. Holds(z, cap, offs + k, ins)
      BY <1>1, <1>3, <1>4, <1>6, <3>1, HeldBesideZero
    <3>5. Holds(z, cap, offs + k + Len(ins), rest)
      <4> DEFINE at == offs + k + Len(ins)
      <4>1. Holds(b2, cap, at, rest) /\ at + Len(rest) <= offs + new /\ offs + new \in Nat
        BY <1>4, <1>8
      <4> HIDE DEF at
      <4>2. Holds(z, cap, at, rest)
        BY <1>1, <1>3, <1>6, <3>1, <4>1, HeldBesideZero
      <4> QED BY <4>2 DEF at
    <3> HIDE DEF b3, z
    <3> QED BY <3>1, <3>2, <3>3, <3>4, <3>5
  <2>2. CASE ~(new < len)
    BY <1>6, <1>7, <1>8, <2>2
  <2> QED BY <2>1, <2>2
<1> HIDE DEF b3
<1>10. Read(b3, offs, len + Len(ins) - n) = Spliced(k, n, ins)
  BY <1>3, <1>9, SplicedHeld DEF head, rest
<1> QED BY <1>2, <1>10

\* replace() that moves the content to the start of the memory.
LEMMA ToStartContent ==
    ASSUME TypeOK, NEW k \in Nat, NEW n \in Nat, k + n <= len, NEW ins \in Seq(Bytes),
           NEW new, new = len + Len(ins) - n, new < cap
    PROVE  LET m == ToStart(k, n, ins, new)
           IN  Read(m.buffer, m.offs, new) = Spliced(k, n, ins)
<1> DEFINE head == SubSeq(Content, 1, k)
           rest == SubSeq(Content, k + n + 1, len)
           b1 == Write(buffer, 0, head)
           b2 == Write(b1, k + Len(ins), rest)
           b3 == Write(b2, k, ins)
           b4 == IF new < offs + len THEN Zero(b3, new, offs + len - new) ELSE b3
<1>1. /\ head = Read(buffer, offs, k)
      /\ head \in Seq(Bytes) /\ Len(head) = k /\ Holds(buffer, cap, offs, head)
      /\ rest \in Seq(Bytes) /\ Len(rest) = len - k - n
      /\ Holds(buffer, cap, offs + k + n, rest)
  BY PartsRead
<1>2. /\ len \in Nat /\ offs \in Nat /\ cap \in Nat /\ offs + len < cap /\ buffer \in Memory(cap)
      /\ Len(ins) \in Nat /\ new \in Nat
  BY DEF TypeOK, Memory
<1> HIDE DEF head, rest
<1>3. /\ 0 \in Nat /\ k + Len(ins) \in Nat /\ 0 + Len(head) <= cap /\ 0 + Len(head) <= offs + k + n
      /\ k + Len(ins) + Len(rest) = new /\ 0 + Len(head) <= k /\ 0 + Len(head) <= k + Len(ins)
      /\ k + Len(ins) <= cap /\ k + Len(ins) + Len(rest) <= cap
      /\ k + Len(ins) <= new /\ 0 + Len(head) <= new
      /\ 0 + k = k /\ 0 + k + Len(ins) = k + Len(ins)
      /\ offs + k + n \in Nat /\ len - k - n \in Nat
  BY <1>1, <1>2
<1>4. b1 \in Memory(cap) /\ Holds(b1, cap, 0, head)
  BY <1>1, <1>2, <1>3, WriteType, WriteHeld
<1>5. Holds(b1, cap, offs + k + n, rest)
  BY <1>1, <1>2, <1>3, HeldBesideWrite
<1> HIDE DEF b1
<1>6. Read(b1, offs + k + n, len - k - n) = rest
  <2>1. Read(b1, offs + k + n, Len(rest)) = rest
    BY <1>1, <1>2, <1>3, <1>4, <1>5, ReadHeld, SMTT(30)
  <2> QED BY <1>1, <2>1
<1>7. ToStart(k, n, ins, new) = [buffer |-> b4, cap |-> cap, offs |-> 0]
  BY <1>1, <1>6 DEF ToStart, b1
<1>8. b2 \in Memory(cap) /\ Holds(b2, cap, k + Len(ins), rest)
  BY <1>1, <1>2, <1>3, <1>4, WriteType, WriteHeld
<1>9. Holds(b2, cap, 0, head)
  BY <1>1, <1>2, <1>3, <1>4, HeldBesideWrite
<1> HIDE DEF b2
<1>10. b3 \in Memory(cap) /\ Holds(b3, cap, k, ins)
  BY <1>2, <1>3, <1>8, WriteType, WriteHeld
<1>11. Holds(b3, cap, 0, head)
  BY <1>1, <1>2, <1>3, <1>8, <1>9, HeldBesideWrite
<1>12. Holds(b3, cap, k + Len(ins), rest)
  BY <1>1, <1>2, <1>3, <1>8, HeldBesideWrite, SMTT(30)
<1> HIDE DEF b3
<1>13. /\ b4 \in Memory(cap) /\ Holds(b4, cap, 0, head) /\ Holds(b4, cap, k, ins)
       /\ Holds(b4, cap, k + Len(ins), rest)
  <2>1. CASE new < offs + len
    <3> DEFINE z == Zero(b3, new, offs + len - new)
    <3>1. b4 = z /\ offs + len - new \in Nat
      BY <1>2, <2>1
    <3>2. z \in Memory(cap)
      BY <1>2, <1>10, <3>1, ZeroType
    <3>3. Holds(z, cap, 0, head)
      BY <1>1, <1>2, <1>3, <1>10, <1>11, <3>1, HeldBesideZero
    <3>4. Holds(z, cap, k, ins)
      BY <1>1, <1>2, <1>3, <1>10, <3>1, HeldBesideZero
    <3>5. Holds(z, cap, k + Len(ins), rest)
      BY <1>1, <1>2, <1>3, <1>10, <1>12, <3>1, HeldBesideZero, SMTT(30)
    <3> HIDE DEF b4, z
    <3> QED BY <3>1, <3>2, <3>3, <3>4, <3>5
  <2>2. CASE ~(new < offs + len)
    BY <1>10, <1>11, <1>12, <2>2
  <2> QED BY <2>1, <2>2
<1> HIDE DEF b4
<1>14. Holds(b4, cap, 0 + k, ins) /\ Holds(b4, cap, 0 + k + Len(ins), rest)
  BY <1>3, <1>13
<1>15. Read(b4, 0, len + Len(ins) - n) = Spliced(k, n, ins)
  BY <1>2, <1>3, <1>13, <1>14, SplicedHeld DEF head, rest
<1> QED BY <1>7, <1>15

\* Whichever of its ways replace() takes, the content is the spliced one.
LEMMA ReplacementsContent ==
    ASSUME TypeOK, NEW k \in Nat, NEW n \in Nat, k + n <= len, NEW ins \in Seq(Bytes),
           NEW new, new = len + Len(ins) - n,
           NEW m \in Replacements([start |-> k, len |-> n], ins, new)
    PROVE  Read(m.buffer, m.offs, new) = Spliced(k, n, ins)
<1> DEFINE r == [start |-> k, len |-> n]
<1>1. r.start = k /\ r.len = n
  OBVIOUS
<1>2. /\ len \in Nat /\ offs \in Nat /\ cap \in Nat /\ offs + len < cap /\ buffer \in Memory(cap)
      /\ Len(ins) \in Nat /\ new \in Nat
  BY DEF TypeOK, Memory
<1>3. CASE ins = <<>> /\ k = 0
  <2>1. m = [buffer |-> buffer, cap |-> cap, offs |-> offs + n]
    <3> HIDE DEF r
    <3> QED BY <1>1, <1>3 DEF Replacements, r
  <2>2. new = len - n /\ len <= len /\ n <= len /\ k + n + 1 = n + 1
    BY <1>2, <1>3
  <2> DEFINE rest == SubSeq(Content, n + 1, len)
  <2>3. rest \in Seq(Bytes) /\ Read(buffer, offs + n, len - n) = rest
    BY <1>2, <2>2, PartHeld
  <2>4. SubSeq(Content, 1, k) = <<>>
    <3>1. SubSeq(Content, 1, k) \in Seq(Bytes) /\ Len(SubSeq(Content, 1, k)) = 0
      BY <1>3, PartsRead
    <3> QED BY <3>1
  <2>5. Spliced(k, n, ins) = <<>> \o <<>> \o rest
    BY <1>3, <2>2, <2>4 DEF Spliced
  <2>6. <<>> \o <<>> \o rest = rest
    <3> HIDE DEF rest
    <3> QED BY <2>3
  <2> QED BY <2>1, <2>2, <2>3, <2>5, <2>6
<1>4. CASE ~(ins = <<>> /\ k = 0)
  <2>1. m \in CASE new >= cap -> {ToNew(k, n, ins, new, c) : c \in Enough(new)}
                [] new < cap /\ offs + new < cap -> {InPlace(k, n, ins, new)}
                [] OTHER -> {ToStart(k, n, ins, new)}
    BY <1>1, <1>4 DEF Replacements
  <2>2. CASE new >= cap
    <3>1. PICK c \in Enough(new) : m = ToNew(k, n, ins, new, c)
      BY <1>2, <2>1, <2>2
    <3> QED BY <3>1, ToNewContent
  <2>3. CASE new < cap /\ offs + new < cap
    <3>1. m = InPlace(k, n, ins, new)
      BY <1>2, <2>1, <2>3
    <3> QED BY <2>3, <3>1, InPlaceContent
  <2>4. CASE new < cap /\ ~(offs + new < cap)
    <3>1. m = ToStart(k, n, ins, new)
      BY <1>2, <2>1, <2>4
    <3> QED BY <2>4, <3>1, ToStartContent
  <2> QED BY <1>2, <2>2, <2>3, <2>4
<1> QED BY <1>3, <1>4

\* replace() with any arguments, by what its hints promise.
LEMMA ReplacedAsPromised ==
    ASSUME TypeOK, NEW i \in Int, NEW n \in Int, NEW more \in Nat, NEW ins \in Seq(Bytes),
           ~BS!OutOfReach(Content, i, n),
           NEW newlen, newlen = len + Len(ins) - Range(i, n, more).len,
           NEW m \in Replacements(Range(i, n, more), ins, newlen)
    PROVE  Read(m.buffer, m.offs, newlen) = BS!Replaced(Content, i, n, more, ins)
<1> DEFINE r == Range(i, n, more)
<1>1. len \in Nat /\ Len(Content) = len
  BY ContentHeld DEF TypeOK
<1>2. r.start \in 0..len /\ r.len \in 0..(len - r.start)
  BY RangeType
<1>3. r = [start |-> r.start, len |-> r.len]
  BY DEF Range
<1>4. /\ r.start = BS!Clipped(BS!First(Content, i, n) - more, Len(Content))
      /\ r.start + r.len = BS!Clipped(BS!Last(Content, i, n), Len(Content))
  BY RangePromised
<1> HIDE DEF r
<1>5. r.start \in Nat /\ r.len \in Nat /\ r.start + r.len <= len
  BY <1>1, <1>2
<1>6. newlen = len + Len(ins) - r.len /\ m \in Replacements([start |-> r.start, len |-> r.len], ins, newlen)
  BY <1>3 DEF r
<1>7. Read(m.buffer, m.offs, newlen) = Spliced(r.start, r.len, ins)
  BY <1>5, <1>6, ReplacementsContent
<1>8. BS!Replaced(Content, i, n, more, ins) = Spliced(r.start, r.len, ins)
  <2> HIDE DEF Content
  <2> QED BY <1>1, <1>4 DEF BS!Replaced, Spliced
<1> QED BY <1>7, <1>8

\* The length of the content after a step.
LEMMA LengthAfter ==
    ASSUME TypeOK'
    PROVE  Len(Content') = len'
<1>1. PICK c \in Nat, o \in Nat, l \in Nat : c = cap' /\ o = offs' /\ l = len'
  BY DEF TypeOK
<1>2. o + l < c /\ buffer' \in [0..(c - 1) -> Bytes]
  BY <1>1 DEF TypeOK
<1>3. o + l <= c /\ buffer' \in Memory(c)
  BY <1>2 DEF Memory
<1>4. Content' = Read(buffer', o, l)
  BY <1>1 DEF Content
<1>5. Len(Read(buffer', o, l)) = l
  BY <1>3, ReadType
<1> QED BY <1>1, <1>4, <1>5

\* replace() does what is promised, also where only the length is.
LEMMA ReplaceContent ==
    ASSUME IInv, NEW i \in Int, NEW n \in Int, NEW more \in Nat, NEW ins \in Seq(Bytes),
           Replace(i, n, more, ins)
    PROVE  BS!Replace(i, n, more, ins)
<1> DEFINE r == Range(i, n, more)
           newlen == len + Len(ins) - r.len
<1>1. PICK m \in Replacements(r, ins, newlen) : Install(m, newlen)
  BY DEF Replace
<1>2. Content' = Read(m.buffer, m.offs, newlen) /\ len' = newlen
  BY <1>1 DEF Install, Content
<1>3. TypeOK /\ len \in Nat /\ Len(ins) \in Nat /\ Len(Content) = len
  BY ContentHeld DEF IInv, TypeOK
<1>4. r.len \in Nat
  BY <1>3, RangeType
<1>5. CASE ~BS!OutOfReach(Content, i, n)
  <2>1. Content' = BS!Replaced(Content, i, n, more, ins)
    BY <1>1, <1>2, <1>3, <1>5, ReplacedAsPromised
  <2> QED BY <2>1 DEF BS!Replace
<1>6. CASE BS!OutOfReach(Content, i, n)
  <2> HIDE DEF r
  <2>1. TypeOK'
    <3> USE DEF r
    <3> QED BY ReplaceStep DEF IInv
  <2>2. Len(Content') = len'
    BY <2>1, LengthAfter
  <2>3. Len(Content') = newlen
    BY <1>2, <2>2
  <2>4. newlen <= Len(Content) + Len(ins)
    BY <1>3, <1>4
  <2> QED BY <1>6, <2>3, <2>4 DEF BS!Replace
<1> QED BY <1>5, <1>6

\* The start of a string that is held is held.
LEMMA HeldPrefix ==
    ASSUME NEW c \in Nat, NEW mem, NEW at, NEW s \in Seq(Bytes), NEW t \in Seq(Bytes),
           Holds(mem, c, at, s \o t)
    PROVE  Holds(mem, c, at, s)
BY ConcatBytes DEF Holds

\* print() appends its text, also where it has to make room and print again.
LEMMA PrintContent ==
    ASSUME IInv, NEW s \in Seq(Bytes), PrintText(s)
    PROVE  Content' = Content \o s
<1> DEFINE old == Content
           room == cap - offs - len
           text == s \o <<0>>
           first == SubSeq(s, 1, room - 1) \o <<0>>
           tried == Write(buffer, offs + len, first)
           again == Write(tried, 0, old)
           moved == Zero(again, len, offs)
           new == len + Len(s)
<1>1. /\ len \in Nat /\ offs \in Nat /\ cap \in Nat /\ offs + len < cap
      /\ buffer \in Memory(cap) /\ Len(s) \in Nat
      /\ old \in Seq(Bytes) /\ Len(old) = len /\ Holds(buffer, cap, offs, old)
  BY ContentHeld DEF IInv, TypeOK
<1>2. new \in Nat /\ offs + len \in Nat /\ 0 \in Nat /\ room \in Nat \ {0} /\ 0 + len = len
  BY <1>1
<1>3. text \in Seq(Bytes) /\ Len(text) = Len(s) + 1 /\ <<0>> \in Seq(Bytes)
  <2>1. <<0>> \in Seq(Bytes) /\ Len(<<0>>) = 1
    BY BytesAssumption
  <2> QED BY <2>1, ConcatBytes
\* A memory that holds the content and the text behind it.
<1>4. ASSUME NEW c \in Nat, NEW mem \in Memory(c), NEW o \in Nat, Holds(mem, c, o, old),
             o + new < c, Install([buffer |-> Write(mem, o + len, text), cap |-> c, offs |-> o], new)
      PROVE  Content' = Content \o s
  <2> DEFINE b == Write(mem, o + len, text)
  <2> HIDE DEF old
  <2>1. o + len \in Nat /\ o + len + Len(text) <= c /\ o + Len(old) <= o + len
    BY <1>1, <1>3, <1>4
  <2> HIDE DEF text
  <2>2. b \in Memory(c) /\ Holds(b, c, o + len, text)
    BY <1>3, <2>1, WriteType, WriteHeld
  <2>3. Holds(b, c, o, old)
    BY <1>1, <1>3, <1>4, <2>1, HeldBesideWrite
  <2>4. Install([buffer |-> b, cap |-> c, offs |-> o], new)
    BY <1>4
  <2> HIDE DEF b
  <2>5. Holds(b, c, o + len, s)
    BY <1>3, <2>2, HeldPrefix DEF text
  <2>6. Holds(b, c, o, old \o s)
    BY <1>1, <2>3, <2>5, HeldTogether
  <2>7. old \o s \in Seq(Bytes) /\ Len(old \o s) = new
    BY <1>1, ConcatBytes
  <2> HIDE DEF new
  <2> QED BY <2>2, <2>4, <2>6, <2>7, InstalledContent DEF old
<1>5. CASE Len(s) < room
  <2>1. Install([buffer |-> Write(buffer, offs + len, text), cap |-> cap, offs |-> offs], new)
    BY <1>5 DEF PrintText
  <2>2. offs + new < cap
    BY <1>1, <1>5
  <2> HIDE DEF text, new, old
  <2> QED BY <1>1, <1>4, <2>1, <2>2
<1>6. CASE ~(Len(s) < room) /\ new < cap
  <2> DEFINE m0 == [buffer |-> moved, cap |-> cap, offs |-> 0]
  <2>1. Install([m0 EXCEPT !.buffer = Write(m0.buffer, len, text)], new)
    BY <1>6 DEF PrintText
  <2>2. Install([buffer |-> Write(moved, 0 + len, text), cap |-> cap, offs |-> 0], new)
    <3> HIDE DEF moved, text, new
    <3>1. [m0 EXCEPT !.buffer = Write(m0.buffer, len, text)]
            = [buffer |-> Write(moved, 0 + len, text), cap |-> cap, offs |-> 0]
      BY <1>2
    <3> QED BY <2>1, <3>1
  <2>3. tried \in Memory(cap)
    <3>1. first \in Seq(Bytes)
      <4>1. room - 1 \in 0..Len(s)
        BY <1>1, <1>2, <1>6
      <4> HIDE DEF room
      <4>2. SubSeq(s, 1, room - 1) \in Seq(Bytes)
        BY <4>1
      <4> QED BY <1>3, <4>2
    <3> HIDE DEF first
    <3> QED BY <1>1, <1>2, <3>1, WriteType
  <2> HIDE DEF tried, old
  <2>4. 0 + Len(old) <= cap /\ 0 + Len(old) <= len
    BY <1>1, <1>2
  <2>5. again \in Memory(cap) /\ Holds(again, cap, 0, old)
    BY <1>1, <1>2, <2>3, <2>4, WriteType, WriteHeld
  <2> HIDE DEF again
  <2>6. moved \in Memory(cap) /\ Holds(moved, cap, 0, old)
    BY <1>1, <2>4, <2>5, ZeroType, HeldBesideZero
  <2>7. 0 + new < cap
    BY <1>2, <1>6
  <2> HIDE DEF moved, text, new
  <2> QED BY <1>1, <1>2, <1>4, <2>2, <2>6, <2>7
<1>7. CASE ~(Len(s) < room) /\ ~(new < cap)
  <2>1. PICK m \in {[buffer |-> Write(Blank(c), 0, Content), cap |-> c, offs |-> 0] : c \in Enough(new)} :
            Install([m EXCEPT !.buffer = Write(m.buffer, len, text)], new)
    BY <1>7 DEF PrintText
  <2>2. PICK c \in Enough(new) : m = [buffer |-> Write(Blank(c), 0, old), cap |-> c, offs |-> 0]
    BY <2>1
  <2> DEFINE blank == Write(Blank(c), 0, old)
  <2>3. Install([buffer |-> Write(blank, 0 + len, text), cap |-> c, offs |-> 0], new)
    <3> HIDE DEF text, new, blank
    <3>1. [m EXCEPT !.buffer = Write(m.buffer, len, text)]
            = [buffer |-> Write(blank, 0 + len, text), cap |-> c, offs |-> 0]
      BY <1>2, <2>2 DEF blank
    <3> QED BY <2>1, <3>1
  <2>4. c \in Nat /\ c > new /\ 0 + new < c /\ Blank(c) \in Memory(c)
    <3>1. c \in Nat /\ c > new
      BY <1>2, EnoughType
    <3> QED BY <1>2, <3>1, BlankType
  <2> HIDE DEF old
  <2>5. 0 + Len(old) <= c
    BY <1>1, <2>4
  <2>6. blank \in Memory(c) /\ Holds(blank, c, 0, old)
    BY <1>1, <1>2, <2>4, <2>5, WriteType, WriteHeld
  <2> HIDE DEF blank, text, new
  <2> QED BY <1>2, <1>4, <2>3, <2>4, <2>6
<1> QED BY <1>5, <1>6, <1>7

\* A StreamBuffer begins with a text or with nothing.
LEMMA StartContent == Init => BS!Init
<1> SUFFICES ASSUME Init PROVE Content \in Texts \cup {<<>>}
  BY DEF BS!Init
<1>1. PICK s \in Texts \cup {<<>>}, n \in Nat :
          Start(s, n) /\ s \in Seq(Bytes) /\ Len(s) <= n /\ offs = 0
  <2>1. \A s \in Texts : s \in Seq(Bytes) /\ Len(s) \in Nat
    BY TextsAssumption
  <2>2. offs = 0
    BY DEF Init
  <2>3. CASE \E s \in Texts : Start(s, Len(s))
    <3>1. PICK s \in Texts : Start(s, Len(s))
      BY <2>3
    <3>2. s \in Seq(Bytes) /\ Len(s) \in Nat /\ Len(s) <= Len(s)
      BY <2>1
    <3> QED BY <2>2, <3>1, <3>2
  <2>4. CASE \E n \in Numbers \cap Nat : Start(<<>>, n)
    <3>1. PICK n \in Numbers \cap Nat : Start(<<>>, n)
      BY <2>4
    <3>2. n \in Nat /\ Len(<<>>) <= n /\ <<>> \in Seq(Bytes) /\ <<>> \in Texts \cup {<<>>}
      OBVIOUS
    <3> QED BY <2>2, <3>1, <3>2
  <2> QED BY <2>3, <2>4 DEF Init
<1>2. PICK c \in IF n >= Local THEN Enough(n) ELSE {Local} :
          buffer = Write(Blank(c), 0, s) /\ len = Len(s)
  BY <1>1 DEF Start
<1>3. c \in Nat /\ 0 + Len(s) <= c /\ 0 \in Nat
  <2>1. Len(s) \in Nat
    BY <1>1
  <2>2. CASE n >= Local
    BY <1>1, <1>2, <2>1, <2>2, EnoughType
  <2>3. CASE ~(n >= Local)
    BY <1>1, <1>2, <2>1, <2>3, LocalAssumption
  <2> QED BY <2>2, <2>3
<1>4. Holds(buffer, c, 0, s) /\ buffer \in Memory(c)
  BY <1>1, <1>2, <1>3, BlankType, WriteType, WriteHeld
<1>5. Read(buffer, 0, Len(s)) = s
  BY <1>1, <1>3, <1>4, ReadHeld
<1> QED BY <1>1, <1>2, <1>5 DEF Content

\* Every operation on the memory is the promised one on the content.
LEMMA StepContent == IInv /\ [Next]_vars => [BS!Next]_Content
<1> SUFFICES ASSUME IInv, [Next]_vars PROVE BS!Next \/ Content' = Content
  OBVIOUS
<1>0. Texts \subseteq Seq(Bytes) /\ Numbers \subseteq Int
  BY TextsAssumption, NumbersAssumption
<1>1. ASSUME NEW c \in Bytes, AppendByte(c) PROVE BS!Next
  <2>1. <<c>> \in Seq(Bytes) /\ Content \in Seq(Bytes)
    BY ContentHeld DEF IInv
  <2>2. Content' = Content \o <<c>>
    BY <1>1, <2>1, StoreContent DEF AppendByte
  <2>3. Content \o <<c>> = Append(Content, c)
    <3> HIDE DEF Content
    <3> QED BY <2>1
  <2> QED BY <2>2, <2>3 DEF BS!Next, BS!Append1
<1>2. ASSUME NEW s \in Texts, AppendText(s) \/ PrintText(s) PROVE BS!Next
  <2>1. s \in Seq(Bytes)
    BY <1>0
  <2>2. Content' = Content \o s
    BY <1>2, <2>1, StoreContent, PrintContent DEF AppendText
  <2> QED BY <2>2 DEF BS!Next, BS!AppendText
<1>3. ASSUME NEW c \in Bytes, NEW n \in Numbers \cap Nat, AppendFill(c, n) PROVE BS!Next
  <2>1. [i \in 1..n |-> c] \in Seq(Bytes)
    OBVIOUS
  <2>2. Content' = Content \o [i \in 1..n |-> c]
    BY <1>3, <2>1, StoreContent DEF AppendFill
  <2> QED BY <2>2 DEF BS!Next, BS!Fill
<1>4. ASSUME NEW n \in Numbers \cap Nat, AppendNegative(n) PROVE BS!Next
  BY <1>4, AppendNegativeContent DEF BS!Next, BS!CutEnd
<1>5. CASE Clear
  BY <1>5, ClearContent DEF BS!Next, BS!Clear
<1>6. ASSUME NEW s \in Texts, Set(s) PROVE BS!Next
  <2>1. Content' = s
    BY <1>0, <1>6, SetContent
  <2> QED BY <2>1 DEF BS!Next, BS!Set
<1>7. ASSUME NEW n \in Numbers \cap Nat, Reserve(n) PROVE BS!Next
  BY <1>7, ReserveContent DEF BS!Next, BS!Reserve
<1>8. ASSUME NEW n \in Numbers \cap Nat, RemoveStart(n) PROVE BS!Next
  BY <1>8, RemoveStartContent DEF BS!Next, BS!CutStart
<1>9. ASSUME NEW i \in Numbers, NEW c \in Bytes, Assign(i, c) PROVE BS!Next
  <2>1. BS!Put(i, c)
    BY <1>0, <1>9, AssignContent DEF BS!Put
  <2> QED BY <2>1 DEF BS!Next
<1>10. ASSUME NEW i \in Numbers, NEW n \in Numbers, NEW s \in Texts \cup {<<>>},
              Replace(i, n, 0, s)
       PROVE  BS!Next
  <2>1. s \in Seq(Bytes) /\ 0 \in Nat /\ i \in Int /\ n \in Int
    <3>1. CASE s \in Texts
      BY <1>0, <3>1
    <3>2. CASE s = <<>>
      BY <1>0, <3>2
    <3> QED BY <3>1, <3>2
  <2>2. BS!Replace(i, n, 0, s)
    BY <1>10, <2>1, ReplaceContent
  <2> QED BY <2>2 DEF BS!Next
<1>11. ASSUME NEW i \in Numbers, NEW n \in Numbers, NEW more \in Numbers \cap Nat,
              Replace(i, n, more, <<>>)
       PROVE  BS!Next
  <2>1. <<>> \in Seq(Bytes) /\ more \in Nat /\ i \in Int /\ n \in Int
    BY <1>0
  <2>2. BS!Replace(i, n, more, <<>>)
    BY <1>11, <2>1, ReplaceContent
  <2> QED BY <2>2 DEF BS!Next
<1>12. ASSUME NEW i \in Numbers, Truncate(i) PROVE BS!Next
  <2>1. <<>> \in Seq(Bytes) /\ 0 \in Nat /\ i \in Int /\ len \in Int /\ Len(Content) = len
    BY <1>0, ContentHeld DEF IInv, TypeOK
  <2>2. BS!Replace(i, len, 0, <<>>)
    BY <1>12, <2>1, ReplaceContent DEF Truncate
  <2>3. BS!Truncate(i)
    BY <2>1, <2>2 DEF BS!Truncate
  <2> QED BY <2>3 DEF BS!Next
<1>13. CASE UNCHANGED vars
  BY <1>13 DEF vars, Content
<1> QED BY <1>1, <1>2, <1>3, <1>4, <1>5, <1>6, <1>7, <1>8, <1>9, <1>10, <1>11, <1>12, <1>13
        DEF Next

\* A StreamBuffer is the byte string that StreamBuffer.h promises: for every set
\* of bytes, texts, arguments and capacities, whatever moves, copies and
\* reallocations an operation takes, it does to the content what the hints say.
THEOREM IsByteString == Spec => ContentKept
BY StartContent, StepContent, Invariance, PTL DEF Spec, ContentKept, BS!Spec

\* replace() takes away the range that its arguments promise, in every state
\* and whichever of its ways it takes.
THEOREM ReplacesPromisedRange == Spec => []ReplacesRange
<1>1. IInv => ReplacesRange
  <2> SUFFICES ASSUME IInv,
                      NEW i \in Numbers, NEW n \in Numbers, NEW more \in Numbers \cap Nat,
                      NEW s \in Texts \cup {<<>>}, ~BS!OutOfReach(Content, i, n),
                      NEW m \in Replacements(Range(i, n, more), s,
                                             len + Len(s) - Range(i, n, more).len)
               PROVE  Read(m.buffer, m.offs, len + Len(s) - Range(i, n, more).len)
                        = BS!Replaced(Content, i, n, more, s)
    BY DEF ReplacesRange
  <2>1. TypeOK /\ i \in Int /\ n \in Int /\ more \in Nat
    BY NumbersAssumption DEF IInv
  <2>2. s \in Seq(Bytes)
    <3>1. CASE s \in Texts
      BY TextsAssumption, <3>1
    <3>2. CASE s = <<>>
      BY <3>2
    <3> QED BY <3>1, <3>2
  <2> QED BY <2>1, <2>2, ReplacedAsPromised
<1> QED BY <1>1, Invariance, PTL

-----------------------------------------------------------------------------
(* find() *)

\* A set of naturals has a least element.
LEMMA LeastNatural ==
    ASSUME NEW S \in SUBSET Nat, S # {}
    PROVE  \E x \in S : \A y \in S : x <= y
<1> DEFINE R == OpToRel(<, Nat)
<1>1. IsWellFoundedOn(R, Nat)
  BY NatLessThanWellFounded
<1>2. R = {ss \in Nat \X Nat : ss[1] < ss[2]}
  BY DEF OpToRel
<1> HIDE DEF R
<1>3. PICK x \in S : \A y \in S : ~ (<<y, x>> \in R)
  BY <1>1, WFMin
<1>4. ASSUME NEW y \in S PROVE x <= y
  <2>1. x \in Nat /\ y \in Nat /\ <<y, x>> \in Nat \X Nat
    OBVIOUS
  <2>2. ~ (<<y, x>>[1] < <<y, x>>[2])
    BY <1>2, <1>3, <2>1
  <2> QED BY <2>1, <2>2
<1> QED BY <1>4

\* What Found returns: the least element, or -1 if there is none.
LEMMA FoundLeast ==
    ASSUME NEW S \in SUBSET Nat
    PROVE  /\ S = {} => Found(S) = -1
           /\ S # {} => Found(S) \in S /\ \A i \in S : Found(S) <= i
           /\ Found(S) = -1 => S = {}
<1>1. S # {} => Found(S) \in S /\ \A i \in S : Found(S) <= i
  BY LeastNatural DEF Found
<1>2. S = {} => Found(S) = -1
  BY DEF Found
<1> QED BY <1>1, <1>2

\* The least element of a set is also that of a part which contains it, and
\* decides a set alone.
LEMMA FoundUnique ==
    ASSUME NEW S \in SUBSET Nat, NEW q \in S, \A i \in S : q <= i
    PROVE  Found(S) = q
<1>1. Found(S) \in S /\ Found(S) <= q
  BY FoundLeast
<1>2. Found(S) \in Nat /\ q \in Nat /\ q <= Found(S)
  BY <1>1
<1> QED BY <1>1, <1>2

\* A search from p on: the next first byte decides, or the search from behind it.
Searched(s, f) ==
    [p \in 0..len |->
        LET q == Found({i \in p..(len - Len(s)) : buffer[offs + i] = s[1]})
        IN  IF q = -1 \/ Read(buffer, offs + q, Len(s)) = s THEN q ELSE f[q + 1]]

\* The places of a text from p on.
Places(s, p) == {i \in p..(len - Len(s)) : Read(buffer, offs + i, Len(s)) = s}

\* Where a text is, its first byte is.
LEMMA PlaceBeginsWell ==
    ASSUME IInv, NEW s \in Seq(Bytes), s # <<>>, NEW i \in Nat,
           Read(buffer, offs + i, Len(s)) = s
    PROVE  buffer[offs + i] = s[1]
<1>1. Len(s) \in Nat /\ 1 \in 1..Len(s) /\ offs \in Nat
  BY DEF IInv, TypeOK
<1>2. Read(buffer, offs + i, Len(s))[1] = buffer[offs + i + 1 - 1]
  BY <1>1 DEF Read
<1> QED BY <1>1, <1>2

\* One step of the search, for any continuation: if the search from behind the
\* first byte found is right, this one is.
LEMMA SearchStep ==
    ASSUME IInv, NEW s \in Seq(Bytes), s # <<>>, NEW f, NEW p \in 0..len,
           \A r \in 0..len : r > p => f[r] = Found(Places(s, r))
    PROVE  Searched(s, f)[p] = Found(Places(s, p))
<1> DEFINE heads == {i \in p..(len - Len(s)) : buffer[offs + i] = s[1]}
           q == Found(heads)
<1>1. len \in Nat /\ Len(s) \in Nat \ {0} /\ p \in Nat /\ heads \in SUBSET Nat
  BY DEF IInv, TypeOK
<1>2. Searched(s, f)[p] = IF q = -1 \/ Read(buffer, offs + q, Len(s)) = s THEN q ELSE f[q + 1]
  BY DEF Searched
<1>3. Places(s, p) \subseteq heads
  BY <1>1, PlaceBeginsWell DEF Places
<1>4. CASE q = -1
  <2>1. heads = {}
    <3> HIDE DEF heads
    <3> QED BY <1>1, <1>4, FoundLeast
  <2>2. Places(s, p) = {}
    BY <1>3, <2>1
  <2>3. Found(Places(s, p)) = -1
    BY <2>2 DEF Found
  <2> HIDE DEF q
  <2> QED BY <1>2, <1>4, <2>3
<1>5. CASE q # -1
  <2>1. q \in heads /\ \A i \in heads : q <= i
    <3>1. heads # {}
      <4> HIDE DEF heads
      <4> QED BY <1>1, <1>5, FoundLeast
    <3> HIDE DEF heads
    <3> QED BY <1>1, <3>1, FoundLeast
  <2>2. q \in p..(len - Len(s)) /\ q \in Nat
    BY <1>1, <2>1
  <2>3. Places(s, p) \in SUBSET Nat
    BY <1>1 DEF Places
  <2>4. CASE Read(buffer, offs + q, Len(s)) = s
    <3> HIDE DEF q
    <3>1. q \in Places(s, p)
      BY <2>2, <2>4 DEF Places
    <3> HIDE DEF heads
    <3>2. Found(Places(s, p)) = q
      BY <1>3, <2>1, <2>3, <3>1, FoundUnique
    <3> QED BY <1>2, <2>4, <3>2
  <2>5. CASE Read(buffer, offs + q, Len(s)) # s
    <3> HIDE DEF q
    <3>1. q + 1 \in 0..len /\ q + 1 > p
      BY <1>1, <2>2
    <3>2. Places(s, p) = Places(s, q + 1)
      <4>1. ASSUME NEW i \in Places(s, p) PROVE i >= q + 1
        <5>1. i \in heads /\ i # q
          BY <1>3, <2>5 DEF Places
        <5>2. i \in Nat /\ q <= i
          BY <1>1, <2>1, <5>1
        <5> QED BY <2>2, <5>1, <5>2
      <4> QED BY <1>1, <2>2, <4>1 DEF Places
    <3> QED BY <1>2, <1>5, <2>5, <3>1, <3>2
  <2> QED BY <2>4, <2>5
<1> QED BY <1>4, <1>5

\* The search has a solution, and every solution finds the first place.
LEMMA SearchSolved ==
    ASSUME IInv, NEW s \in Seq(Bytes), s # <<>>
    PROVE  /\ \E f : f = Searched(s, f)
           /\ \A f : f = Searched(s, f) => \A p \in 0..len : f[p] = Found(Places(s, p))
<1> DEFINE g == [p \in 0..len |-> Found(Places(s, p))]
<1>0. len \in Nat
  BY DEF IInv, TypeOK
<1>1. \A p \in 0..len : g[p] = Found(Places(s, p))
  OBVIOUS
<1>2. g = Searched(s, g)
  <2>1. ASSUME NEW p \in 0..len PROVE Searched(s, g)[p] = Found(Places(s, p))
    <3> HIDE DEF g
    <3> QED BY <1>1, SearchStep
  <2>2. Searched(s, g) = [p \in 0..len |-> Searched(s, g)[p]]
    <3> HIDE DEF g
    <3> QED BY DEF Searched
  <2> QED BY <2>1, <2>2
<1>3. ASSUME NEW f, f = Searched(s, f), NEW p \in 0..len
      PROVE  f[p] = Found(Places(s, p))
  <2> DEFINE Bad == {n \in Nat : n <= len /\ f[len - n] # Found(Places(s, len - n))}
  <2>1. Bad = {}
    <3> SUFFICES ASSUME Bad # {} PROVE FALSE
      OBVIOUS
    <3>1. PICK n \in Bad : \A y \in Bad : n <= y
      <4>1. Bad \in SUBSET Nat
        OBVIOUS
      <4> HIDE DEF Bad
      <4> QED BY <4>1, LeastNatural
    <3>2. n \in Nat /\ n <= len /\ f[len - n] # Found(Places(s, len - n)) /\ len - n \in 0..len
      BY <1>0
    <3>3. ASSUME NEW r \in 0..len, r > len - n PROVE f[r] = Found(Places(s, r))
      <4>1. len - r \in Nat /\ len - r < n /\ len - r <= len /\ len - (len - r) = r
        BY <1>0, <3>2, <3>3
      <4>2. len - r \notin Bad
        <5> HIDE DEF Bad
        <5> QED BY <3>1, <3>2, <4>1
      <4> QED BY <4>1, <4>2
    <3> HIDE DEF Bad
    <3>4. Searched(s, f)[len - n] = Found(Places(s, len - n))
      BY <3>2, <3>3, SearchStep
    <3> QED BY <1>3, <3>2, <3>4
  <2>2. len - p \in Nat /\ len - p <= len /\ len - (len - p) = p
    BY <1>0
  <2>3. len - p \notin Bad
    BY <2>1
  <2> QED BY <2>2, <2>3
<1> QED BY <1>2, <1>3

\* find() of a string: -1 if there is no room for it behind its start, the
\* start for an empty one, else the first place.
LEMMA FindTextResult ==
    ASSUME IInv, NEW s \in Seq(Bytes), NEW start \in Int,
           NEW first \in Nat, first = IF start >= 0 THEN start
                                      ELSE IF start + len >= 0 THEN start + len ELSE 0
    PROVE  FindText(s, start) = IF first + Len(s) > len THEN -1
                                ELSE IF s = <<>> THEN first ELSE Found(Places(s, first))
<1>1. len \in Nat /\ Len(s) \in Nat
  BY DEF IInv, TypeOK
<1> DEFINE Sol == CHOOSE f : f = Searched(s, f)
<1>2. FindText(s, start) = CASE first + Len(s) > len -> -1
                             [] first + Len(s) <= len /\ s = <<>> -> first
                             [] OTHER -> Sol[first]
  <2>1. first = CASE start >= 0 -> start
                  [] start < 0 /\ start + len >= 0 -> start + len
                  [] OTHER -> 0
    BY <1>1
  <2> QED BY ONLY <2>1, Zenon DEF FindText, Searched
<1>3. CASE first + Len(s) > len
  BY <1>1, <1>2, <1>3
<1>4. CASE first + Len(s) <= len /\ s = <<>>
  BY <1>1, <1>2, <1>4
<1>5. CASE first + Len(s) <= len /\ s # <<>>
  <2>1. Sol = Searched(s, Sol)
    BY <1>5, SearchSolved
  <2> HIDE DEF Sol
  <2>2. Sol[first] = Found(Places(s, first))
    BY <1>1, <1>5, <2>1, SearchSolved
  <2> QED BY <1>1, <1>2, <1>5, <2>2
<1> QED BY <1>1, <1>3, <1>4, <1>5

\* find() returns the first place of a text in the content, for all contents,
\* texts and starts, although it searches for first bytes and begins again
\* behind each that does not lead to the whole text.
THEOREM SearchFindsFirst == Spec => []FindsFirst
<1>1. IInv => FindsFirst
  <2> SUFFICES ASSUME IInv, NEW s \in Texts, NEW start \in Numbers
               PROVE  LET from == BS!Clipped(BS!FromEnd(start, len), len)
                          places == {i \in from..(len - Len(s)) : SubSeq(Content, i + 1, i + Len(s)) = s}
                      IN  /\ FindText(s, start) \in IF places = {} \/ start > len THEN {-1} ELSE places
                          /\ \A i \in places : start > len \/ FindText(s, start) <= i
                          /\ Len(s) = 1 /\ start \in 0..len =>
                                 FindByte(s[1], start) = FindText(s, start)
    BY DEF FindsFirst
  <2>1. s \in Seq(Bytes) /\ Len(s) \in Nat /\ start \in Int /\ len \in Nat /\ offs \in Nat
    BY TextsAssumption, NumbersAssumption DEF IInv, TypeOK
  <2> DEFINE from == BS!Clipped(BS!FromEnd(start, len), len)
             first == IF start >= 0 THEN start
                      ELSE IF start + len >= 0 THEN start + len ELSE 0
             places == {i \in from..(len - Len(s)) : SubSeq(Content, i + 1, i + Len(s)) = s}
             result == FindText(s, start)
  <2>2. /\ first \in Nat /\ from \in 0..len
        /\ start <= len => from = first
        /\ start > len => first > len
    BY <2>1 DEF BS!Clipped, BS!FromEnd, BS!Lower
  <2>3. result = IF first + Len(s) > len THEN -1
                 ELSE IF s = <<>> THEN first ELSE Found(Places(s, first))
    BY <2>1, <2>2, FindTextResult
  <2>4. places = Places(s, from)
    <3>1. ASSUME NEW i \in Nat, i + Len(s) <= len
          PROVE  SubSeq(Content, i + 1, i + Len(s)) = Read(buffer, offs + i, Len(s))
      <4> DEFINE t == SubSeq(Content, i + 1, i + Len(s))
                 u == Read(buffer, offs + i, Len(s))
      <4>1. t = [k \in 1..Len(s) |-> Content[i + k]]
        <5>1. Content \in Seq(Bytes) /\ Len(Content) = len
          BY ContentHeld DEF IInv
        <5>2. t = [k \in 1..((i + Len(s)) - (i + 1) + 1) |-> Content[(i + 1) + k - 1]]
          <6> HIDE DEF Content
          <6> QED BY <2>1, <3>1, <5>1
        <5> HIDE DEF Content
        <5> QED BY <2>1, <3>1, <5>2
      <4>2. u = [k \in 1..Len(s) |-> Content[i + k]]
        BY <2>1, <3>1 DEF Read, Content
      <4> QED BY <4>1, <4>2
    <3> HIDE DEF from
    <3>2. from \in Nat
      BY <2>2
    <3>3. ASSUME NEW i \in from..(len - Len(s)) PROVE i \in Nat /\ i + Len(s) <= len
      BY <2>1, <3>2
    <3>4. Places(s, from) = {i \in from..(len - Len(s)) :
                                 SubSeq(Content, i + 1, i + Len(s)) = s}
      <4> HIDE DEF Content
      <4> QED BY <3>1, <3>3, Zenon DEF Places
    <3> QED BY <3>4
  <2>5. places \in SUBSET Nat
    <3> HIDE DEF from
    <3> QED BY <2>1, <2>2
  <2> HIDE DEF from, first, places, result
  <2>6. CASE start > len
    <3>1. result = -1
      BY <2>1, <2>2, <2>3, <2>6
    <3>2. ~(start \in 0..len)
      BY <2>1, <2>6
    <3> QED BY <2>6, <3>1, <3>2 DEF result, places, from
  <2>7. CASE start <= len /\ first + Len(s) > len
    <3>1. places = {} /\ result = -1
      BY <2>1, <2>2, <2>3, <2>4, <2>7 DEF Places
    <3>2. ASSUME Len(s) = 1, start \in 0..len PROVE FindByte(s[1], start) = -1
      <4>1. start = len
        BY <2>1, <2>2, <2>7, <3>2 DEF first
      <4> QED BY <2>1, <4>1 DEF FindByte, Found
    <3> QED BY <3>1, <3>2 DEF result, places, from
  <2>8. CASE start <= len /\ first + Len(s) <= len /\ s = <<>>
    <3>1. result = first /\ first = from /\ Len(s) = 0
      BY <2>1, <2>2, <2>3, <2>8
    <3>2. Read(buffer, offs + first, 0) = <<>>
      BY <2>1, <2>2 DEF Read
    <3>3. first \in places /\ \A i \in places : first <= i
      BY <2>1, <2>2, <2>4, <2>8, <3>1, <3>2 DEF Places
    <3>4. ~(start > len)
      BY <2>1, <2>8
    <3> QED BY <3>1, <3>3, <3>4 DEF result, places, from
  <2>9. CASE start <= len /\ first + Len(s) <= len /\ s # <<>>
    <3>1. result = Found(places)
      BY <2>1, <2>2, <2>3, <2>4, <2>9
    <3>2. result \in IF places = {} \/ start > len THEN {-1} ELSE places
      <4>1. ~(start > len)
        BY <2>1, <2>9
      <4> QED BY <2>5, <3>1, <4>1, FoundLeast
    <3>3. \A i \in places : start > len \/ result <= i
      BY <2>5, <3>1, FoundLeast
    <3>4. ASSUME Len(s) = 1, start \in 0..len PROVE FindByte(s[1], start) = result
      <4>1. start >= 0 /\ from = start
        BY <2>1, <2>2, <2>9, <3>4 DEF first
      <4>2. ASSUME NEW i \in Nat PROVE Read(buffer, offs + i, Len(s)) = s <=> buffer[offs + i] = s[1]
        <5>1. Read(buffer, offs + i, 1) = [k \in 1..1 |-> buffer[offs + i + k - 1]]
          BY DEF Read
        <5>2. s = [k \in 1..1 |-> s[k]]
          BY <2>1, <3>4
        <5>3. Read(buffer, offs + i, 1)[1] = buffer[offs + i]
          BY <2>1, <4>2, <5>1
        <5> QED BY <3>4, <5>1, <5>2, <5>3
      <4>3. places = {i \in start..(len - 1) : buffer[offs + i] = s[1]}
        <5>1. places = {i \in start..(len - 1) : Read(buffer, offs + i, Len(s)) = s}
          BY <2>4, <3>4, <4>1 DEF Places
        <5>2. \A i \in start..(len - 1) : i \in Nat
          BY <2>1, <3>4
        <5> QED BY <4>2, <5>1, <5>2, Zenon
      <4>4. FindByte(s[1], start) = Found({i \in start..(len - 1) : buffer[offs + i] = s[1]})
        <5>1. ~(start < 0) /\ start <= len
          BY <2>1, <3>4, <4>1
        <5> QED BY <5>1 DEF FindByte
      <4> QED BY <3>1, <4>3, <4>4
    <3> QED BY <3>2, <3>3, <3>4 DEF result, places, from
  <2>10. \/ start > len
         \/ start <= len /\ first + Len(s) > len
         \/ start <= len /\ first + Len(s) <= len /\ s = <<>>
         \/ start <= len /\ first + Len(s) <= len /\ s # <<>>
    BY <2>1, <2>2
  <2> QED BY <2>6, <2>7, <2>8, <2>9, <2>10
<1> QED BY <1>1, Invariance, PTL
=============================================================================
