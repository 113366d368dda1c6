------------------------ MODULE StreamBuffer_proofs ------------------------
(***************************************************************************)
(* The memory of a StreamBuffer: for every capacity, byte set and argument *)
(* the content and a byte behind it are within the memory, and the memory  *)
(* behind the content is zero unless a print() spilled into it.            *)
(***************************************************************************)
EXTENDS StreamBuffer, TLAPS

Memory(c) == [0..(c - 1) -> Bytes]

\* Bytes read from within a memory are a string.
LEMMA ReadType ==
    ASSUME NEW c \in Nat, NEW mem \in Memory(c), NEW at \in Nat, NEW n \in Nat, at + n <= c
    PROVE  Read(mem, at, n) \in Seq(Bytes) /\ Len(Read(mem, at, n)) = n
BY DEF Read, Memory

\* A string written over a memory changes the bytes under it and no other.
LEMMA WriteType ==
    ASSUME NEW c \in Nat, NEW mem \in Memory(c), NEW at \in Nat, NEW s \in Seq(Bytes)
    PROVE  /\ Write(mem, at, s) \in Memory(c)
           /\ \A i \in 0..(c - 1) : i < at \/ i >= at + Len(s) => Write(mem, at, s)[i] = mem[i]
           /\ \A i \in 0..(c - 1) : i >= at /\ i < at + Len(s)
                                       => Write(mem, at, s)[i] = s[i - at + 1]
<1>1. \A i \in at..(at + Len(s) - 1) : s[i - at + 1] \in Bytes
  OBVIOUS
<1> QED BY <1>1 DEF Write, Memory

\* Zeros written over a memory.
LEMMA ZeroType ==
    ASSUME NEW c \in Nat, NEW mem \in Memory(c), NEW at \in Nat, NEW n \in Nat
    PROVE  /\ Zero(mem, at, n) \in Memory(c)
           /\ \A i \in 0..(c - 1) : i < at \/ i >= at + n => Zero(mem, at, n)[i] = mem[i]
           /\ \A i \in 0..(c - 1) : i >= at /\ i < at + n => Zero(mem, at, n)[i] = 0
BY BytesAssumption DEF Zero, Memory

\* Allocated memory is blank (calloc()).
LEMMA BlankType ==
    ASSUME NEW c \in Nat
    PROVE  Blank(c) \in Memory(c) /\ \A i \in 0..(c - 1) : Blank(c)[i] = 0
BY BytesAssumption DEF Blank, Memory

\* A memory m in which length bytes of content and the byte behind them fit,
\* and one that is zero behind them.
Fits(m, length) ==
    /\ m.cap \in Nat /\ m.offs \in Nat
    /\ m.offs + length < m.cap
    /\ m.buffer \in Memory(m.cap)
Zeros(m, length) == \A i \in 0..(m.cap - 1) : i >= m.offs + length => m.buffer[i] = 0

\* The state after Install, from what is known of the installed memory.
LEMMA Installed ==
    ASSUME NEW m, NEW length \in Nat, Install(m, length), Fits(m, length),
           spilled' \in BOOLEAN, ~spilled' => Zeros(m, length)
    PROVE  TypeOK' /\ Terminated'
BY DEF Install, Fits, Zeros, TypeOK, Terminated, Memory

\* The capacity that the doublings end with is large enough.
LEMMA EnoughType ==
    ASSUME NEW n \in Nat, NEW c \in Enough(n)
    PROVE  c \in Nat /\ c > n
BY CapacitiesAssumption DEF Enough

\* check() makes room for size more bytes and keeps the zeros.
LEMMA CheckedType ==
    ASSUME TypeOK, NEW size \in Nat, NEW m \in Checked(size)
    PROVE  /\ Fits(m, len + size)
           /\ Terminated /\ ~spilled => Zeros(m, len)
<1>1. CASE ~(len + offs + size >= cap)
  <2>1. m = [buffer |-> buffer, cap |-> cap, offs |-> offs]
    BY <1>1 DEF Checked
  <2> QED BY <1>1, <2>1 DEF Fits, Zeros, TypeOK, Terminated, Memory
<1>2. CASE len + offs + size >= cap /\ len + size < cap
  <2> DEFINE moved == Write(buffer, 0, Content)
  <2>1. m = [buffer |-> Zero(moved, len, offs), cap |-> cap, offs |-> 0]
    BY <1>2 DEF Checked, Grown
  <2>2. Content \in Seq(Bytes) /\ Len(Content) = len
    BY ReadType DEF TypeOK, Memory, Content
  <2>3. /\ moved \in Memory(cap)
        /\ \A i \in 0..(cap - 1) : i >= len => moved[i] = buffer[i]
    <3>1. buffer \in Memory(cap) /\ cap \in Nat /\ 0 \in Nat /\ len \in Nat
      BY DEF TypeOK, Memory
    <3>2. /\ moved \in Memory(cap)
          /\ \A i \in 0..(cap - 1) : i < 0 \/ i >= 0 + Len(Content) => moved[i] = buffer[i]
      BY <3>1, <2>2, WriteType
    <3> QED BY <3>1, <3>2, <2>2
  <2>4. /\ Zero(moved, len, offs) \in Memory(cap)
        /\ \A i \in 0..(cap - 1) : i >= len + offs => Zero(moved, len, offs)[i] = moved[i]
        /\ \A i \in 0..(cap - 1) : i >= len /\ i < len + offs => Zero(moved, len, offs)[i] = 0
    <3> HIDE DEF moved
    <3>1. cap \in Nat /\ len \in Nat /\ offs \in Nat
      BY DEF TypeOK
    <3>2. /\ Zero(moved, len, offs) \in Memory(cap)
          /\ \A i \in 0..(cap - 1) : i < len \/ i >= len + offs
                                      => Zero(moved, len, offs)[i] = moved[i]
          /\ \A i \in 0..(cap - 1) : i >= len /\ i < len + offs
                                      => Zero(moved, len, offs)[i] = 0
      BY <2>3, <3>1, ZeroType
    <3> QED BY <3>2
  <2>5. Fits(m, len + size)
    BY <1>2, <2>1, <2>4 DEF Fits, TypeOK
  <2>6. ASSUME Terminated, ~spilled PROVE Zeros(m, len)
    BY <2>1, <2>3, <2>4, <2>6 DEF Zeros, Terminated, TypeOK
  <2> QED BY <2>5, <2>6
<1>3. CASE len + offs + size >= cap /\ ~(len + size < cap)
  <2>1. PICK c \in Enough(len + size) :
            m = [buffer |-> Write(Blank(c), 0, Content), cap |-> c, offs |-> 0]
    BY <1>3 DEF Checked, Grown
  <2>2. Content \in Seq(Bytes) /\ Len(Content) = len
    BY ReadType DEF TypeOK, Memory, Content
  <2>3. c \in Nat /\ c > len + size
    BY EnoughType DEF TypeOK
  <2>4. /\ Write(Blank(c), 0, Content) \in Memory(c)
        /\ \A i \in 0..(c - 1) : i >= len => Write(Blank(c), 0, Content)[i] = 0
    <3>1. Blank(c) \in Memory(c) /\ \A i \in 0..(c - 1) : Blank(c)[i] = 0
      BY <2>3, BlankType
    <3>2. /\ Write(Blank(c), 0, Content) \in Memory(c)
          /\ \A i \in 0..(c - 1) : i < 0 \/ i >= 0 + Len(Content)
                                     => Write(Blank(c), 0, Content)[i] = Blank(c)[i]
      BY <3>1, <2>2, <2>3, WriteType
    <3> QED BY <3>1, <3>2, <2>2 DEF TypeOK
  <2> QED BY <2>1, <2>3, <2>4 DEF Fits, Zeros, TypeOK
<1> QED BY <1>1, <1>2, <1>3 DEF TypeOK

\* The range that replace() removes lies within the content.
LEMMA RangeType ==
    ASSUME TypeOK, NEW remstart \in Int, NEW remlen \in Int, NEW more \in Nat
    PROVE  LET r == Range(remstart, remlen, more)
           IN  r.start \in 0..len /\ r.len \in 0..(len - r.start)
<1> DEFINE start1 == IF remstart < 0 THEN remstart + len ELSE remstart
           start2 == (IF remlen < 0 THEN start1 + remlen ELSE start1) - more
           len2   == (IF remlen < 0 THEN -remlen ELSE remlen) + more
           len3   == IF start2 < 0 THEN len2 + start2 ELSE len2
           start3 == CASE start2 < 0 -> 0 [] start2 > len -> len [] OTHER -> start2
           rest   == IF len3 < 0 \/ len3 >= len - start3 THEN len - start3 ELSE len3
<1>1. len \in Nat
  BY DEF TypeOK
<1>2. start1 \in Int
  BY <1>1
<1>3. start2 \in Int /\ len2 \in Int
  BY <1>2
<1>4. len3 \in Int
  BY <1>3
<1>5. start3 \in 0..len
  <2> HIDE DEF start2
  <2>1. CASE start2 < 0
    BY <1>1, <2>1
  <2>2. CASE start2 > len
    BY <1>1, <1>3, <2>2
  <2>3. CASE ~(start2 < 0) /\ ~(start2 > len)
    BY <1>1, <1>3, <2>3
  <2> QED BY <2>1, <2>2, <2>3
<1>6. rest \in 0..(len - start3)
  <2> HIDE DEF start3, len3
  <2> QED BY <1>1, <1>4, <1>5
<1>7. Range(remstart, remlen, more) = [start |-> start3, len |-> rest]
  BY DEF Range
<1> HIDE DEF start3, rest
<1> QED BY <1>5, <1>6, <1>7

IInv == TypeOK /\ Terminated

\* Every operation keeps the invariant.
LEMMA StoreStep ==
    ASSUME IInv, NEW s \in Seq(Bytes), Store(s)
    PROVE  IInv'
<1>1. PICK m \in Checked(Len(s)) :
          /\ Install([m EXCEPT !.buffer = Write(m.buffer, m.offs + len, s)], len + Len(s))
          /\ spilled' = spilled
  BY DEF Store
<1>2. Fits(m, len + Len(s)) /\ (~spilled => Zeros(m, len))
  BY CheckedType DEF IInv
<1>3. len \in Nat /\ Len(s) \in Nat /\ spilled \in BOOLEAN
  BY DEF IInv, TypeOK
<1> DEFINE b == Write(m.buffer, m.offs + len, s)
           w == [m EXCEPT !.buffer = b]
<1>4. m.offs + len \in Nat
  BY <1>2, <1>3 DEF Fits
<1>5. /\ b \in Memory(m.cap)
      /\ \A i \in 0..(m.cap - 1) : i < m.offs + len \/ i >= m.offs + len + Len(s)
                                    => b[i] = m.buffer[i]
  BY <1>2, <1>4, WriteType DEF Fits
<1>6. w.buffer = b /\ w.cap = m.cap /\ w.offs = m.offs
  <2>1. m = [buffer |-> m.buffer, cap |-> m.cap, offs |-> m.offs]
    BY DEF Checked
  <2> HIDE DEF b
  <2> QED BY <2>1
<1> HIDE DEF b, w
<1>7. Fits(w, len + Len(s))
  BY <1>2, <1>5, <1>6 DEF Fits
<1>8. ~spilled => Zeros(w, len + Len(s))
  BY <1>2, <1>3, <1>5, <1>6 DEF Fits, Zeros
<1> QED
  <2>1. Install(w, len + Len(s))
    BY <1>1 DEF w, b
  <2> QED BY <1>1, <1>3, <1>7, <1>8, <2>1, Installed DEF IInv

\* reserve() keeps the invariant: the bytes it takes are those in the memory.
LEMMA ReserveStep ==
    ASSUME IInv, NEW n \in Nat, Reserve(n)
    PROVE  IInv'
<1>1. PICK m \in Checked(n) : Install(m, len + n) /\ spilled' = spilled
  BY DEF Reserve
<1>2. Fits(m, len + n) /\ (~spilled => Zeros(m, len))
  BY CheckedType DEF IInv
<1>3. ~spilled => Zeros(m, len + n)
  BY <1>2 DEF Zeros, Fits, IInv, TypeOK
<1> QED BY <1>1, <1>2, <1>3, Installed DEF IInv, TypeOK

\* append() with a negative size zeroes what it cuts from the end.
LEMMA AppendNegativeStep ==
    ASSUME IInv, NEW n \in Nat, AppendNegative(n)
    PROVE  IInv'
<1> DEFINE size == IF n > len THEN len ELSE n
           b == Zero(buffer, offs + len - size, size)
<1>1. len \in Nat /\ offs \in Nat /\ cap \in Nat /\ offs + len < cap /\ spilled \in BOOLEAN
  BY DEF IInv, TypeOK
<1>2. size \in 0..len /\ offs + len - size \in Nat
  BY <1>1
<1>3. buffer' = b /\ len' = len - size /\ cap' = cap /\ offs' = offs /\ spilled' = spilled
  BY DEF AppendNegative
<1>4. /\ b \in Memory(cap)
      /\ \A i \in 0..(cap - 1) : i < offs + len - size \/ i >= offs + len - size + size
                                 => b[i] = buffer[i]
      /\ \A i \in 0..(cap - 1) : i >= offs + len - size /\ i < offs + len - size + size
                                 => b[i] = 0
  <2> HIDE DEF size
  <2>1. buffer \in Memory(cap) /\ size \in Nat
    BY <1>1, <1>2 DEF IInv, TypeOK, Memory
  <2> QED BY <1>1, <1>2, <2>1, ZeroType
<1> HIDE DEF size, b
<1>5. TypeOK'
  BY <1>1, <1>2, <1>3, <1>4 DEF TypeOK, Memory
<1>6. Terminated'
  BY <1>1, <1>2, <1>3, <1>4 DEF Terminated, IInv
<1> QED BY <1>5, <1>6 DEF IInv

\* clear() and remove() from the start only move the offset.
LEMMA CutStep ==
    ASSUME IInv, Clear \/ \E n \in Nat : RemoveStart(n)
    PROVE  IInv'
<1>1. PICK k \in 0..len : offs' = offs + k /\ len' = len - k
                         /\ buffer' = buffer /\ cap' = cap /\ spilled' = spilled
  <2>1. CASE Clear
    BY <2>1 DEF Clear, IInv, TypeOK
  <2>2. ASSUME NEW n \in Nat, RemoveStart(n)
        PROVE  \E k \in 0..len : offs' = offs + k /\ len' = len - k
                         /\ buffer' = buffer /\ cap' = cap /\ spilled' = spilled
    BY <2>2 DEF RemoveStart, IInv, TypeOK
  <2> QED BY <2>1, <2>2
<1>2. TypeOK'
  BY <1>1 DEF IInv, TypeOK
<1>3. offs' + len' = offs + len
  BY <1>1 DEF IInv, TypeOK
<1>4. Terminated'
  BY <1>1, <1>3 DEF IInv, Terminated
<1> QED BY <1>2, <1>4 DEF IInv

\* A byte assigned within the content leaves the memory behind it alone.
LEMMA AssignStep ==
    ASSUME IInv, NEW index \in Int, NEW c \in Bytes, Assign(index, c)
    PROVE  IInv'
<1>1. PICK i \in 0..(len - 1) :
          /\ buffer' = [buffer EXCEPT ![offs + i] = c]
          /\ cap' = cap /\ offs' = offs /\ len' = len /\ spilled' = spilled
  BY DEF Assign
<1>2. TypeOK'
  BY <1>1 DEF IInv, TypeOK
<1>3. \A j \in (offs + len)..(cap - 1) : buffer'[j] = buffer[j]
  BY <1>1 DEF IInv, TypeOK
<1>4. Terminated'
  BY <1>1, <1>3 DEF IInv, Terminated
<1> QED BY <1>2, <1>4 DEF IInv

\* A text written at the offset of a clean memory.
LEMMA WrittenType ==
    ASSUME NEW m, Fits(m, 0), NEW length \in Nat, NEW s \in Seq(Bytes),
           m.offs + length + Len(s) < m.cap,
           m = [buffer |-> m.buffer, cap |-> m.cap, offs |-> m.offs]
    PROVE  LET w == [m EXCEPT !.buffer = Write(m.buffer, m.offs + length, s)]
           IN  /\ Fits(w, length + Len(s))
               /\ Zeros(m, length + Len(s)) => Zeros(w, length + Len(s))
<1> DEFINE b == Write(m.buffer, m.offs + length, s)
           w == [m EXCEPT !.buffer = b]
<1>1. m.offs + length \in Nat /\ m.cap \in Nat /\ m.buffer \in Memory(m.cap) /\ Len(s) \in Nat
  BY DEF Fits
<1>2. /\ b \in Memory(m.cap)
      /\ \A i \in 0..(m.cap - 1) : i < m.offs + length \/ i >= m.offs + length + Len(s)
                                    => b[i] = m.buffer[i]
  BY <1>1, WriteType
<1>3. w.buffer = b /\ w.cap = m.cap /\ w.offs = m.offs
  OBVIOUS
<1>4. Fits(w, length + Len(s))
  <2> HIDE DEF b, w
  <2> QED BY <1>1, <1>2, <1>3 DEF Fits
<1>5. Zeros(m, length + Len(s)) => Zeros(w, length + Len(s))
  <2> HIDE DEF b, w
  <2>1. ASSUME Zeros(m, length + Len(s)), NEW i \in 0..(m.cap - 1),
               i >= m.offs + (length + Len(s))
        PROVE  b[i] = 0
    <3>1. m.offs \in Nat /\ i >= m.offs + length + Len(s)
      BY <1>1, <2>1 DEF Fits
    <3>2. m.buffer[i] = 0
      BY <2>1 DEF Zeros
    <3> QED BY <1>2, <3>1, <3>2
  <2> QED BY <1>3, <2>1 DEF Zeros
<1> QED BY <1>4, <1>5

\* set() reuses the memory behind the old content, or all of it.
LEMMA SetStep ==
    ASSUME IInv, NEW s \in Seq(Bytes), Set(s)
    PROVE  IInv'
<1> DEFINE M == IF offs + len + Len(s) >= cap
                THEN IF Len(s) < cap
                     THEN {[buffer |-> Zero(buffer, 0, offs + len), cap |-> cap, offs |-> 0]}
                     ELSE {[buffer |-> Blank(c), cap |-> c, offs |-> 0] : c \in Enough(Len(s))}
                ELSE {[buffer |-> buffer, cap |-> cap, offs |-> offs + len]}
<1>1. PICK m \in M : Install([m EXCEPT !.buffer = Write(m.buffer, m.offs, s)], Len(s))
                      /\ spilled' = spilled
  BY DEF Set
<1>2. /\ len \in Nat /\ offs \in Nat /\ cap \in Nat /\ offs + len < cap
      /\ spilled \in BOOLEAN /\ Len(s) \in Nat /\ buffer \in Memory(cap)
  BY DEF IInv, TypeOK, Memory
<1>3. /\ Fits(m, 0) /\ m.offs + Len(s) < m.cap
      /\ m = [buffer |-> m.buffer, cap |-> m.cap, offs |-> m.offs]
      /\ ~spilled => Zeros(m, 0)
  <2>1. CASE ~(offs + len + Len(s) >= cap)
    <3>1. m = [buffer |-> buffer, cap |-> cap, offs |-> offs + len]
      BY <2>1
    <3> QED BY <1>2, <2>1, <3>1 DEF Fits, Zeros, IInv, Terminated
  <2>2. CASE offs + len + Len(s) >= cap /\ Len(s) < cap
    <3> DEFINE z == Zero(buffer, 0, offs + len)
    <3>1. m = [buffer |-> z, cap |-> cap, offs |-> 0]
      BY <2>2
    <3>2. /\ z \in Memory(cap)
          /\ \A i \in 0..(cap - 1) : i < 0 \/ i >= 0 + (offs + len) => z[i] = buffer[i]
          /\ \A i \in 0..(cap - 1) : i >= 0 /\ i < 0 + (offs + len) => z[i] = 0
      <4> HIDE DEF M
      <4>1. 0 \in Nat /\ offs + len \in Nat
        BY <1>2
      <4> QED BY <1>2, <4>1, ZeroType, SMTT(30)
    <3> HIDE DEF z
    <3>3. ~spilled => \A i \in 0..(cap - 1) : i >= offs + len => buffer[i] = 0
      BY <1>2 DEF IInv, Terminated
    <3>4. ~spilled => \A i \in 0..(cap - 1) : z[i] = 0
      BY <1>2, <3>2, <3>3
    <3> QED BY <1>2, <2>2, <3>1, <3>2, <3>4 DEF Fits, Zeros
  <2>3. CASE offs + len + Len(s) >= cap /\ ~(Len(s) < cap)
    <3>1. PICK c \in Enough(Len(s)) : m = [buffer |-> Blank(c), cap |-> c, offs |-> 0]
      BY <2>3
    <3>2. c \in Nat /\ c > Len(s)
      BY <1>2, EnoughType
    <3>3. Blank(c) \in Memory(c) /\ \A i \in 0..(c - 1) : Blank(c)[i] = 0
      BY <3>2, BlankType
    <3> QED BY <1>2, <3>1, <3>2, <3>3 DEF Fits, Zeros
  <2> QED BY <1>2, <2>1, <2>2, <2>3
<1> DEFINE w == [m EXCEPT !.buffer = Write(m.buffer, m.offs + 0, s)]
<1>4. /\ Fits(w, 0 + Len(s))
      /\ Zeros(m, 0 + Len(s)) => Zeros(w, 0 + Len(s))
  <2>1. 0 \in Nat /\ m.offs + 0 + Len(s) < m.cap
    BY <1>3 DEF Fits
  <2> HIDE DEF M
  <2> QED BY <1>3, <2>1, WrittenType
<1>5. ~spilled => Zeros(m, 0 + Len(s))
  BY <1>2, <1>3 DEF Zeros, Fits
<1>6. Install(w, Len(s))
  <2>1. m.offs + 0 = m.offs
    BY <1>3 DEF Fits
  <2> HIDE DEF M
  <2> QED BY <1>1, <2>1
<1> HIDE DEF w, M
<1>7. 0 + Len(s) = Len(s)
  BY <1>2
<1> QED BY <1>1, <1>2, <1>4, <1>5, <1>6, <1>7, Installed DEF IInv

\* A memory of c bytes that, if z, is zero from a position on.
Clean(mem, c, from, z) ==
    mem \in Memory(c) /\ (z => \A i \in 0..(c - 1) : i >= from => mem[i] = 0)

\* A string written in front of the zeros leaves them.
LEMMA WriteClean ==
    ASSUME NEW c \in Nat, NEW mem, NEW from \in Nat, NEW z, Clean(mem, c, from, z),
           NEW at \in Nat, NEW s \in Seq(Bytes), at + Len(s) <= from
    PROVE  Clean(Write(mem, at, s), c, from, z)
<1>1. mem \in Memory(c)
  BY DEF Clean
<1>2. /\ Write(mem, at, s) \in Memory(c)
      /\ \A i \in 0..(c - 1) : i < at \/ i >= at + Len(s) => Write(mem, at, s)[i] = mem[i]
  BY <1>1, WriteType
<1>3. \A i \in 0..(c - 1) : i >= from => Write(mem, at, s)[i] = mem[i]
  BY <1>2
<1> QED BY <1>2, <1>3 DEF Clean

\* Zeros written up to the zeros extend them.
LEMMA ZeroClean ==
    ASSUME NEW c \in Nat, NEW mem, NEW from \in Nat, NEW z, Clean(mem, c, from, z),
           NEW at \in Nat, at <= from
    PROVE  Clean(Zero(mem, at, from - at), c, at, z)
<1>1. mem \in Memory(c) /\ from - at \in Nat
  BY DEF Clean
<1>2. /\ Zero(mem, at, from - at) \in Memory(c)
      /\ \A i \in 0..(c - 1) : i < at \/ i >= at + (from - at)
                                 => Zero(mem, at, from - at)[i] = mem[i]
      /\ \A i \in 0..(c - 1) : i >= at /\ i < at + (from - at) => Zero(mem, at, from - at)[i] = 0
  BY <1>1, ZeroType
<1> HIDE DEF Zero
<1>3. z => \A i \in 0..(c - 1) : i >= at => Zero(mem, at, from - at)[i] = 0
  <2> SUFFICES ASSUME z, NEW i \in 0..(c - 1), i >= at
               PROVE  Zero(mem, at, from - at)[i] = 0
    OBVIOUS
  <2>1. CASE i < from
    BY <1>1, <1>2, <2>1
  <2>2. CASE ~(i < from)
    <3>1. mem[i] = 0
      BY <2>2 DEF Clean
    <3> QED BY <1>1, <1>2, <2>2, <3>1
  <2> QED BY <2>1, <2>2
<1> QED BY <1>2, <1>3 DEF Clean

\* The three parts of a content written one after the other.
LEMMA WriteThreeClean ==
    ASSUME NEW c \in Nat, NEW mem, NEW from \in Nat, NEW z, Clean(mem, c, from, z),
           NEW s1 \in Seq(Bytes), NEW s2 \in Seq(Bytes), NEW s3 \in Seq(Bytes),
           NEW at \in Nat, at = Len(s1), at + Len(s2) + Len(s3) = from
    PROVE  Clean(Write(Write(Write(mem, 0, s1), at, s2), at + Len(s2), s3), c, from, z)
<1> DEFINE b1 == Write(mem, 0, s1)
           b2 == Write(b1, at, s2)
<1>1. 0 \in Nat /\ 0 + Len(s1) <= from /\ at + Len(s2) <= from /\ at + Len(s2) \in Nat
  OBVIOUS
<1>2. Clean(b1, c, from, z)
  BY <1>1, WriteClean
<1> HIDE DEF b1
<1>3. Clean(b2, c, from, z)
  BY <1>1, <1>2, WriteClean
<1> HIDE DEF b2
<1>4. Clean(Write(b2, at + Len(s2), s3), c, from, z)
  BY <1>1, <1>3, WriteClean
<1> QED BY <1>4 DEF b1, b2

\* replace() in place: old and new are the ends of the old and new content.
LEMMA InPlaceClean ==
    ASSUME NEW c \in Nat, NEW mem, NEW old \in Nat, NEW new \in Nat, NEW z,
           Clean(mem, c, old, z), NEW at \in Nat, NEW s \in Seq(Bytes),
           NEW rest \in Seq(Bytes), at + Len(s) + Len(rest) = new,
           NEW b1, b1 = mem \/ b1 = Write(mem, at + Len(s), rest)
    PROVE  Clean(IF new < old THEN Zero(Write(b1, at, s), new, old - new)
                              ELSE Write(b1, at, s), c, new, z)
<1> DEFINE from == IF new < old THEN old ELSE new
           b2 == Write(b1, at, s)
<1>1. from \in Nat /\ from >= old /\ from >= new
  OBVIOUS
<1>2. Clean(mem, c, from, z)
  <2> HIDE DEF from
  <2> QED BY <1>1 DEF Clean
<1>3. at + Len(s) \in Nat /\ at + Len(s) + Len(rest) <= from /\ at + Len(s) <= from
  <2> HIDE DEF from
  <2> QED BY <1>1
<1> HIDE DEF from
<1>4. Clean(b1, c, from, z)
  <2>1. Clean(Write(mem, at + Len(s), rest), c, from, z)
    BY <1>1, <1>2, <1>3, WriteClean
  <2> QED BY <1>2, <2>1
<1>5. Clean(b2, c, from, z)
  BY <1>1, <1>3, <1>4, WriteClean
<1> HIDE DEF b2
<1>6. CASE new < old
  <2>1. from = old /\ new <= old
    BY <1>6 DEF from
  <2>2. Clean(Zero(b2, new, old - new), c, new, z)
    BY <1>5, <2>1, ZeroClean
  <2> QED BY <1>6, <2>2 DEF b2
<1>7. CASE ~(new < old)
  <2>1. from = new
    BY <1>7 DEF from
  <2> QED BY <1>5, <1>7, <2>1 DEF b2
<1> QED BY <1>6, <1>7

\* What replace() moves when n bytes at k give way to ins: the part before and
\* the part behind.
LEMMA PartsType ==
    ASSUME TypeOK, NEW k \in 0..len, NEW n \in 0..(len - k), NEW ins \in Seq(Bytes),
           NEW new, new = len + Len(ins) - n, NEW mem \in Memory(cap)
    PROVE  /\ new \in Nat /\ k \in Nat /\ n \in Nat
           /\ Read(mem, offs, k) \in Seq(Bytes) /\ Len(Read(mem, offs, k)) = k
           /\ Read(mem, offs + k + n, len - k - n) \in Seq(Bytes)
           /\ k + Len(ins) + Len(Read(mem, offs + k + n, len - k - n)) = new
<1>1. len \in Nat /\ offs \in Nat /\ cap \in Nat /\ offs + len < cap /\ Len(ins) \in Nat
  BY DEF TypeOK
<1>2. /\ k \in Nat /\ n \in Nat /\ new \in Nat /\ len - k - n \in Nat
      /\ offs + k <= cap /\ offs + k + n \in Nat /\ offs + k + n + (len - k - n) <= cap
  BY <1>1
<1>3. Read(mem, offs, k) \in Seq(Bytes) /\ Len(Read(mem, offs, k)) = k
  <2>1. cap \in Nat /\ mem \in Memory(cap) /\ offs \in Nat /\ k \in Nat /\ offs + k <= cap
    BY <1>1, <1>2
  <2> QED BY <2>1, ReadType
<1>4. /\ Read(mem, offs + k + n, len - k - n) \in Seq(Bytes)
      /\ Len(Read(mem, offs + k + n, len - k - n)) = len - k - n
  <2> DEFINE at == offs + k + n
             size == len - k - n
  <2>1. /\ cap \in Nat /\ mem \in Memory(cap) /\ at \in Nat /\ size \in Nat
        /\ at + size <= cap
    BY <1>1, <1>2
  <2> HIDE DEF at, size
  <2>2. Read(mem, at, size) \in Seq(Bytes) /\ Len(Read(mem, at, size)) = size
    BY <2>1, ReadType
  <2> QED BY <2>2 DEF at, size
<1>5. k + Len(ins) + (len - k - n) = new
  BY <1>1, <1>2
<1> QED BY <1>2, <1>3, <1>4, <1>5

\* The state after a memory is installed that is clean behind the content.
LEMMA CleanInstalled ==
    ASSUME IInv, NEW c \in Nat, NEW o \in Nat, NEW new \in Nat, o + new < c,
           NEW b, Clean(b, c, o + new, ~spilled), spilled' = spilled,
           Install([buffer |-> b, cap |-> c, offs |-> o], new)
    PROVE  IInv'
<1> DEFINE m == [buffer |-> b, cap |-> c, offs |-> o]
<1>1. m.buffer = b /\ m.cap = c /\ m.offs = o /\ Install(m, new)
  OBVIOUS
<1> HIDE DEF m
<1>2. Fits(m, new) /\ (~spilled => Zeros(m, new)) /\ spilled \in BOOLEAN
  BY <1>1 DEF Fits, Zeros, Clean, IInv, TypeOK
<1> QED BY <1>1, <1>2, Installed DEF IInv

\* replace() that needs a new memory.
LEMMA ToNewStep ==
    ASSUME IInv, NEW k \in 0..len, NEW n \in 0..(len - k), NEW ins \in Seq(Bytes),
           NEW new, new = len + Len(ins) - n, NEW c \in Enough(new),
           spilled' = spilled, Install(ToNew(k, n, ins, new, c), new)
    PROVE  IInv'
<1> DEFINE head == Read(buffer, offs, k)
           rest == Read(buffer, offs + k + n, len - k - n)
           b == Write(Write(Write(Blank(c), 0, head), k, ins), k + Len(ins), rest)
<1>1. /\ new \in Nat /\ k \in Nat /\ head \in Seq(Bytes) /\ Len(head) = k
      /\ rest \in Seq(Bytes) /\ k + Len(ins) + Len(rest) = new
  <2>1. buffer \in Memory(cap) /\ TypeOK
    BY DEF IInv, TypeOK, Memory
  <2> QED BY <2>1, PartsType
<1>2. c \in Nat /\ c > new
  BY <1>1, EnoughType
<1>3. Clean(Blank(c), c, new, ~spilled)
  BY <1>2, BlankType DEF Clean
<1>4. ToNew(k, n, ins, new, c) = [buffer |-> b, cap |-> c, offs |-> 0]
  BY DEF ToNew
<1> HIDE DEF head, rest
<1>5. Clean(b, c, new, ~spilled)
  BY <1>1, <1>2, <1>3, WriteThreeClean
<1> HIDE DEF b
<1>6. 0 \in Nat /\ 0 + new = new /\ 0 + new < c
  BY <1>1, <1>2
<1> QED BY <1>1, <1>2, <1>4, <1>5, <1>6, CleanInstalled

\* replace() where the content is.
LEMMA InPlaceStep ==
    ASSUME IInv, NEW k \in 0..len, NEW n \in 0..(len - k), NEW ins \in Seq(Bytes),
           NEW new, new = len + Len(ins) - n, offs + new < cap,
           spilled' = spilled, Install(InPlace(k, n, ins, new), new)
    PROVE  IInv'
<1> DEFINE rest == Read(buffer, offs + k + n, len - k - n)
           at == offs + k
           from == offs + len
           to == offs + new
           moved == new # len
           b1 == IF moved THEN Write(buffer, at + Len(ins), rest) ELSE buffer
           b2 == Write(b1, at, ins)
           b == IF to < from THEN Zero(b2, to, from - to) ELSE b2
<1>1. /\ len \in Nat /\ offs \in Nat /\ cap \in Nat /\ buffer \in Memory(cap) /\ TypeOK
  BY DEF IInv, TypeOK, Memory
<1>2. /\ new \in Nat /\ k \in Nat /\ rest \in Seq(Bytes) /\ k + Len(ins) + Len(rest) = new
  BY <1>1, PartsType
<1>3. Clean(buffer, cap, from, ~spilled)
  BY <1>1 DEF Clean, IInv, Terminated
<1>4. b1 = buffer \/ b1 = Write(buffer, at + Len(ins), rest)
  OBVIOUS
<1>5. InPlace(k, n, ins, new) = [buffer |-> b, cap |-> cap, offs |-> offs]
  <2>1. (to < from <=> new < len) /\ from - to = len - new
    BY <1>1, <1>2
  <2> HIDE DEF to, from
  <2>2. b = IF new < len THEN Zero(b2, to, len - new) ELSE b2
    BY <2>1
  <2> HIDE DEF b
  <2> QED BY <2>2 DEF InPlace, to
<1> HIDE DEF rest
<1>6. at \in Nat /\ from \in Nat /\ to \in Nat /\ at + Len(ins) + Len(rest) = to
  <2> HIDE DEF moved
  <2>1. Len(ins) \in Nat /\ Len(rest) \in Nat
    BY <1>2
  <2> QED BY <1>1, <1>2, <2>1
<1> HIDE DEF at, from, to, moved, b1
<1>7. Clean(b, cap, to, ~spilled)
  <2> DEFINE z == ~spilled
  <2>1. cap \in Nat /\ rest \in Seq(Bytes) /\ Clean(buffer, cap, from, z)
    BY <1>1, <1>2, <1>3
  <2> HIDE DEF b2, b, z
  <2>2. Clean(IF to < from THEN Zero(Write(b1, at, ins), to, from - to)
                           ELSE Write(b1, at, ins), cap, to, z)
    BY <2>1, <1>4, <1>6, InPlaceClean, ZenonT(60)
  <2> QED BY <2>2 DEF b, b2, z
<1> HIDE DEF b
<1> QED BY <1>1, <1>2, <1>5, <1>7, CleanInstalled DEF to

\* The memory that the content was moved to the start of, spelled out.
LEMMA ToStartValue ==
    ASSUME NEW k, NEW n, NEW ins, NEW new
    PROVE  LET b1 == Write(buffer, 0, Read(buffer, offs, k))
               b3 == Write(Write(b1, k + Len(ins), Read(b1, offs + k + n, len - k - n)), k, ins)
           IN  ToStart(k, n, ins, new)
                 = [buffer |-> IF new < offs + len THEN Zero(b3, new, offs + len - new) ELSE b3,
                    cap |-> cap, offs |-> 0]
BY DEF ToStart

\* replace() that moves the content to the start of the memory.
LEMMA ToStartStep ==
    ASSUME IInv, NEW k \in 0..len, NEW n \in 0..(len - k), NEW ins \in Seq(Bytes),
           NEW new, new = len + Len(ins) - n, new < cap,
           spilled' = spilled, Install(ToStart(k, n, ins, new), new)
    PROVE  IInv'
<1> DEFINE head == Read(buffer, offs, k)
           b1 == Write(buffer, 0, head)
           rest == Read(b1, offs + k + n, len - k - n)
           from == offs + len
           c1 == Write(b1, k + Len(ins), rest)
           c2 == Write(c1, k, ins)
           b == IF new < from THEN Zero(c2, new, from - new) ELSE c2
<1>1. /\ len \in Nat /\ offs \in Nat /\ cap \in Nat /\ offs + len < cap
      /\ buffer \in Memory(cap) /\ TypeOK
  BY DEF IInv, TypeOK, Memory
<1>2. new \in Nat /\ k \in Nat /\ head \in Seq(Bytes) /\ Len(head) = k
  <2>1. new \in Nat /\ k \in Nat
    BY <1>1, PartsType
  <2>2. Read(buffer, offs, k) \in Seq(Bytes) /\ Len(Read(buffer, offs, k)) = k
    <3>1. offs + k <= cap
      BY <1>1
    <3> QED BY <1>1, <2>1, <3>1, ReadType
  <2> QED BY <2>1, <2>2
<1>3. Clean(buffer, cap, from, ~spilled)
  BY <1>1 DEF Clean, IInv, Terminated
<1>4. ToStart(k, n, ins, new) = [buffer |-> b, cap |-> cap, offs |-> 0]
  <2>1. from = offs + len
    OBVIOUS
  <2>2. c2 = Write(Write(b1, k + Len(ins), rest), k, ins)
    OBVIOUS
  <2>3. ToStart(k, n, ins, new)
          = [buffer |-> IF new < offs + len
                        THEN Zero(Write(Write(b1, k + Len(ins), rest), k, ins), new, offs + len - new)
                        ELSE Write(Write(b1, k + Len(ins), rest), k, ins),
             cap |-> cap, offs |-> 0]
    BY ToStartValue DEF b1, rest, head
  <2> DEFINE d == Write(Write(b1, k + Len(ins), rest), k, ins)
  <2>4. ToStart(k, n, ins, new)
          = [buffer |-> IF new < offs + len THEN Zero(d, new, offs + len - new) ELSE d,
             cap |-> cap, offs |-> 0]
    BY <2>3
  <2>5. c2 = d
    BY <2>2
  <2> HIDE DEF from, c2, d
  <2>6. b = IF new < offs + len THEN Zero(d, new, offs + len - new) ELSE d
    BY <1>1, <1>2, <2>1, <2>5
  <2> HIDE DEF b
  <2> QED BY <2>4, <2>6
<1> HIDE DEF head
<1>5. from \in Nat /\ 0 \in Nat /\ 0 + Len(head) <= from /\ 0 + new = new /\ 0 + new < cap
  BY <1>1, <1>2
<1> HIDE DEF from
<1>6. Clean(b1, cap, from, ~spilled)
  BY <1>1, <1>2, <1>3, <1>5, WriteClean
<1> HIDE DEF b1
<1>7. rest \in Seq(Bytes) /\ k + Len(ins) + Len(rest) = new
  <2>1. b1 \in Memory(cap) /\ TypeOK
    BY <1>1, <1>6 DEF Clean
  <2> HIDE DEF rest
  <2> QED BY <2>1, PartsType DEF rest
<1> HIDE DEF rest
<1>8. Clean(b, cap, new, ~spilled)
  <2>1. c1 = b1 \/ c1 = Write(b1, k + Len(ins), rest)
    OBVIOUS
  <2> HIDE DEF c1
  <2> QED BY <1>1, <1>2, <1>5, <1>6, <1>7, <2>1, InPlaceClean
<1> HIDE DEF b
<1> QED BY <1>1, <1>2, <1>4, <1>5, <1>8, CleanInstalled

\* replace() keeps the invariant, whichever of its ways it takes.
LEMMA ReplaceStep ==
    ASSUME IInv, NEW remstart \in Int, NEW remlen \in Int, NEW more \in Nat,
           NEW ins \in Seq(Bytes), Replace(remstart, remlen, more, ins)
    PROVE  IInv'
<1> DEFINE r == Range(remstart, remlen, more)
           new == len + Len(ins) - r.len
<1>1. /\ len \in Nat /\ offs \in Nat /\ cap \in Nat /\ offs + len < cap
      /\ Len(ins) \in Nat /\ buffer \in Memory(cap) /\ TypeOK
  BY DEF IInv, TypeOK, Memory
<1>2. r.start \in 0..len /\ r.len \in 0..(len - r.start)
  BY <1>1, RangeType
<1>3. new \in Int
  <2> HIDE DEF r
  <2> QED BY <1>1, <1>2
<1>4. spilled' = spilled
  BY DEF Replace
<1>5. CASE ins = <<>> /\ r.start = 0
  <2>1. Install([buffer |-> buffer, cap |-> cap, offs |-> offs + r.len], new)
    BY <1>5 DEF Replace, Replacements
  <2> HIDE DEF r
  <2>2. PICK n \in 0..len : n = r.len
    BY <1>2, <1>5, <1>1
  <2>3. new = len - n /\ offs + n \in Nat /\ (offs + n) + (len - n) = offs + len /\ len - n \in Nat
    BY <1>1, <1>5, <2>2
  <2>4. Clean(buffer, cap, offs + len, ~spilled)
    BY <1>1 DEF Clean, IInv, Terminated
  <2>5. Install([buffer |-> buffer, cap |-> cap, offs |-> offs + n], len - n)
    BY <2>1, <2>2, <2>3
  <2> QED BY <1>1, <1>4, <2>3, <2>4, <2>5, CleanInstalled
<1>6. CASE ~(ins = <<>> /\ r.start = 0)
  <2>1. \E m \in CASE new >= cap -> {ToNew(r.start, r.len, ins, new, c) : c \in Enough(new)}
                   [] new < cap /\ offs + new < cap -> {InPlace(r.start, r.len, ins, new)}
                   [] OTHER -> {ToStart(r.start, r.len, ins, new)} : Install(m, new)
    BY <1>6 DEF Replace, Replacements
  <2>2. PICK k \in Int, n \in Int :
          /\ k \in 0..len /\ n \in 0..(len - k)
          /\ new = len + Len(ins) - n
          /\ \E m \in CASE new >= cap -> {ToNew(k, n, ins, new, c) : c \in Enough(new)}
                        [] new < cap /\ offs + new < cap -> {InPlace(k, n, ins, new)}
                        [] OTHER -> {ToStart(k, n, ins, new)} : Install(m, new)
    <3> HIDE DEF r
    <3> QED BY <1>2, <2>1
  <2> HIDE DEF new, r
  <2>3. CASE new >= cap
    <3>1. PICK c \in Enough(new) : Install(ToNew(k, n, ins, new, c), new)
      BY <2>2, <2>3, <1>1, <1>3
    <3> QED BY <1>4, <2>2, <3>1, ToNewStep
  <2>4. CASE new < cap /\ offs + new < cap
    <3>1. Install(InPlace(k, n, ins, new), new)
      BY <2>2, <2>4, <1>1, <1>3
    <3> QED BY <1>4, <2>2, <2>4, <3>1, InPlaceStep
  <2>5. CASE new < cap /\ ~(offs + new < cap)
    <3>1. Install(ToStart(k, n, ins, new), new)
      BY <2>2, <2>5, <1>1, <1>3
    <3> QED BY <1>4, <2>2, <2>5, <3>1, ToStartStep
  <2> QED BY <1>1, <1>3, <2>3, <2>4, <2>5
<1> QED BY <1>5, <1>6

\* A text and its end mark written over the start of the zeros.
LEMMA WriteMarkClean ==
    ASSUME NEW c \in Nat, NEW mem, NEW from \in Nat, NEW z, Clean(mem, c, from, z),
           NEW at \in Nat, NEW s \in Seq(Bytes), from <= at + Len(s) + 1
    PROVE  Clean(Write(mem, at, s \o <<0>>), c, at + Len(s), z)
<1> DEFINE t == s \o <<0>>
           b == Write(mem, at, t)
<1>1. t \in Seq(Bytes) /\ Len(t) = Len(s) + 1 /\ t[Len(s) + 1] = 0 /\ Len(s) \in Nat
  <2>1. <<0>> \in Seq(Bytes)
    BY BytesAssumption
  <2> QED BY <2>1
<1> HIDE DEF t
<1>2. /\ b \in Memory(c)
      /\ \A i \in 0..(c - 1) : i < at \/ i >= at + Len(t) => b[i] = mem[i]
      /\ \A i \in 0..(c - 1) : i >= at /\ i < at + Len(t) => b[i] = t[i - at + 1]
  <2>1. mem \in Memory(c)
    BY DEF Clean
  <2> QED BY <1>1, <2>1, WriteType
<1> HIDE DEF b
<1>3. ASSUME z, NEW i \in 0..(c - 1), i >= at + Len(s) PROVE b[i] = 0
  <2>1. CASE i = at + Len(s)
    <3>1. i - at + 1 = Len(s) + 1 /\ i >= at /\ i < at + Len(t)
      BY <1>1, <2>1
    <3> QED BY <1>1, <1>2, <3>1
  <2>2. CASE i # at + Len(s)
    <3>1. i >= at + Len(t) /\ i >= from
      BY <1>1, <1>3, <2>2
    <3>2. mem[i] = 0
      BY <1>3, <3>1 DEF Clean
    <3> QED BY <1>2, <3>1, <3>2
  <2> QED BY <2>1, <2>2
<1>4. Clean(b, c, at + Len(s), z)
  BY <1>2, <1>3 DEF Clean
<1> QED BY <1>4 DEF b, t

\* print() keeps the invariant: the text is in the memory when grow() moves the
\* content, and then nothing is known of what is behind the new one.
LEMMA PrintStep ==
    ASSUME IInv, NEW s \in Seq(Bytes), PrintText(s)
    PROVE  IInv'
<1> DEFINE room == cap - offs - len
           text == s \o <<0>>
           first == SubSeq(s, 1, room - 1) \o <<0>>
           tried == Write(buffer, offs + len, first)
           again == Write(tried, 0, Content)
           moved == Zero(again, len, offs)
           new == len + Len(s)
<1>1. /\ len \in Nat /\ offs \in Nat /\ cap \in Nat /\ offs + len < cap
      /\ buffer \in Memory(cap) /\ Len(s) \in Nat /\ spilled \in BOOLEAN
  BY DEF IInv, TypeOK, Memory
<1>2. new \in Nat /\ offs + len \in Nat /\ 0 \in Nat /\ room \in Nat \ {0}
  BY <1>1
<1>3. Clean(buffer, cap, offs + len, ~spilled)
  BY <1>1 DEF Clean, IInv, Terminated
<1>4. Content \in Seq(Bytes) /\ Len(Content) = len
  <2>1. offs + len <= cap
    BY <1>1
  <2> QED BY <1>1, <2>1, ReadType, SMTT(30) DEF Content
<1>5. CASE Len(s) < room
  <2> DEFINE b == Write(buffer, offs + len, text)
  <2>1. /\ Install([buffer |-> b, cap |-> cap, offs |-> offs], new)
        /\ spilled' = spilled
    BY <1>5 DEF PrintText
  <2>2. Clean(b, cap, offs + len + Len(s), ~spilled)
    <3>1. offs + len <= offs + len + Len(s) + 1
      BY <1>1
    <3> QED BY <1>1, <1>2, <1>3, <3>1, WriteMarkClean
  <2> HIDE DEF b
  <2>3. offs + len + Len(s) = offs + new /\ offs + new < cap
    BY <1>1, <1>5
  <2> HIDE DEF new
  <2> QED BY <1>1, <1>2, <2>1, <2>2, <2>3, CleanInstalled
<1>6. CASE ~(Len(s) < room) /\ new < cap
  <2> DEFINE b == Write(moved, len, text)
  <2> DEFINE m0 == [buffer |-> moved, cap |-> cap, offs |-> 0]
  <2>0. /\ Install([m0 EXCEPT !.buffer = Write(m0.buffer, len, text)], new)
        /\ spilled' = (spilled \/ new < cap)
    BY <1>6 DEF PrintText
  <2>1. /\ Install([buffer |-> b, cap |-> cap, offs |-> 0], new)
        /\ spilled' = TRUE
    <3>1. spilled' = TRUE
      BY <2>0, <1>6
    <3> HIDE DEF moved, text, new
    <3>2. [m0 EXCEPT !.buffer = Write(m0.buffer, len, text)]
            = [buffer |-> b, cap |-> cap, offs |-> 0]
      OBVIOUS
    <3> QED BY <2>0, <3>1, <3>2
  <2>2. tried \in Memory(cap)
    <3>1. first \in Seq(Bytes)
      <4>0. room - 1 \in 0..Len(s)
        BY <1>1, <1>2, <1>6
      <4> HIDE DEF room
      <4>1. <<0>> \in Seq(Bytes) /\ SubSeq(s, 1, room - 1) \in Seq(Bytes)
        BY <4>0, BytesAssumption
      <4> QED BY <4>1
    <3> HIDE DEF first
    <3> QED BY <1>1, <1>2, <3>1, WriteType
  <2> HIDE DEF tried
  <2>3. again \in Memory(cap)
    BY <1>1, <1>2, <1>4, <2>2, WriteType
  <2> HIDE DEF again
  <2>4. moved \in Memory(cap)
    BY <1>1, <2>3, ZeroType
  <2> HIDE DEF moved
  <2>5. b \in Memory(cap)
    <3>1. text \in Seq(Bytes)
      BY BytesAssumption
    <3> HIDE DEF text
    <3> QED BY <1>1, <2>4, <3>1, WriteType
  <2> HIDE DEF b
  <2>6. TypeOK' /\ Terminated'
    BY <1>1, <1>2, <1>6, <2>1, <2>5 DEF Install, TypeOK, Terminated, Memory
  <2> QED BY <2>6 DEF IInv
<1>7. CASE ~(Len(s) < room) /\ ~(new < cap)
  <2>1. PICK m \in {[buffer |-> Write(Blank(c), 0, Content), cap |-> c, offs |-> 0] : c \in Enough(new)} :
            /\ Install([m EXCEPT !.buffer = Write(m.buffer, len, text)], new)
            /\ spilled' = (spilled \/ new < cap)
    BY <1>7 DEF PrintText
  <2>2. PICK c \in Enough(new) : m = [buffer |-> Write(Blank(c), 0, Content), cap |-> c, offs |-> 0]
    BY <2>1
  <2> DEFINE blank == Write(Blank(c), 0, Content)
             b == Write(blank, len, text)
  <2>3. Install([buffer |-> b, cap |-> c, offs |-> 0], new) /\ spilled' = spilled
    <3> HIDE DEF text, new
    <3>1. [m EXCEPT !.buffer = Write(m.buffer, len, text)] = [buffer |-> b, cap |-> c, offs |-> 0]
      BY <2>2
    <3> QED BY <1>1, <1>7, <2>1, <3>1
  <2>4. c \in Nat /\ c > new
    BY <1>2, EnoughType
  <2>5. Clean(Blank(c), c, len, ~spilled)
    BY <2>4, BlankType DEF Clean
  <2>6. Clean(blank, c, len, ~spilled)
    <3>1. 0 + Len(Content) <= len
      BY <1>1, <1>4
    <3> QED BY <1>1, <1>2, <1>4, <2>4, <2>5, <3>1, WriteClean
  <2> HIDE DEF blank
  <2>7. Clean(b, c, len + Len(s), ~spilled)
    <3>1. len <= len + Len(s) + 1
      BY <1>1
    <3> QED BY <1>1, <2>4, <2>6, <3>1, WriteMarkClean
  <2> HIDE DEF b
  <2>8. 0 + new = len + Len(s) /\ 0 + new < c
    BY <1>2, <2>4
  <2> HIDE DEF new
  <2> QED BY <1>1, <1>2, <2>3, <2>4, <2>7, <2>8, CleanInstalled
<1> QED BY <1>5, <1>6, <1>7

\* The memory that a StreamBuffer begins with.
LEMMA StartType == Init => IInv
<1> SUFFICES ASSUME Init PROVE IInv
  OBVIOUS
<1>1. PICK s \in Seq(Bytes), n \in Nat : Start(s, n) /\ Len(s) <= n /\ offs = 0 /\ spilled = FALSE
  <2>1. \A s \in Texts : s \in Seq(Bytes) /\ Len(s) \in Nat
    BY TextsAssumption
  <2>2. <<>> \in Seq(Bytes) /\ Len(<<>>) = 0
    OBVIOUS
  <2>3. offs = 0 /\ spilled = FALSE
    BY DEF Init
  <2>4. CASE \E s \in Texts : Start(s, Len(s))
    <3>1. PICK s \in Texts : Start(s, Len(s))
      BY <2>4
    <3>2. s \in Seq(Bytes) /\ Len(s) \in Nat /\ Len(s) <= Len(s)
      BY <2>1
    <3> QED BY <2>3, <3>1, <3>2
  <2>5. CASE \E n \in Numbers \cap Nat : Start(<<>>, n)
    <3>1. PICK n \in Numbers \cap Nat : Start(<<>>, n)
      BY <2>5
    <3>2. n \in Nat /\ Len(<<>>) <= n
      BY <2>2
    <3> QED BY <2>2, <2>3, <3>1, <3>2
  <2> QED BY <2>4, <2>5 DEF Init
<1>2. PICK c \in IF n >= Local THEN Enough(n) ELSE {Local} :
          buffer = Write(Blank(c), 0, s) /\ cap = c /\ len = Len(s)
  BY <1>1 DEF Start
<1>3. c \in Nat /\ c > Len(s) /\ Len(s) \in Nat /\ 0 \in Nat /\ 0 + Len(s) <= Len(s)
  <2>1. Len(s) \in Nat
    OBVIOUS
  <2>2. CASE n >= Local
    BY <1>1, <1>2, <2>1, <2>2, EnoughType
  <2>3. CASE ~(n >= Local)
    BY <1>1, <1>2, <2>1, <2>3, LocalAssumption
  <2> QED BY <2>2, <2>3
<1>4. Clean(Blank(c), c, Len(s), TRUE)
  BY <1>3, BlankType DEF Clean
<1>5. Clean(buffer, c, Len(s), TRUE)
  <2>1. Clean(Write(Blank(c), 0, s), c, Len(s), TRUE)
    BY <1>3, <1>4, WriteClean
  <2> QED BY <1>2, <2>1
<1> QED BY <1>1, <1>2, <1>3, <1>5, SMTT(30) DEF IInv, TypeOK, Terminated, Clean, Memory

\* Every step keeps the invariant.
LEMMA Inductive == IInv /\ [Next]_vars => IInv'
<1> SUFFICES ASSUME IInv, [Next]_vars PROVE IInv'
  OBVIOUS
<1>0. Texts \subseteq Seq(Bytes) /\ Numbers \subseteq Int
  BY TextsAssumption, NumbersAssumption
<1>1. ASSUME NEW c \in Bytes, AppendByte(c) PROVE IInv'
  <2>1. <<c>> \in Seq(Bytes)
    OBVIOUS
  <2> QED BY <1>1, <2>1, StoreStep DEF AppendByte
<1>2. ASSUME NEW s \in Texts, AppendText(s) PROVE IInv'
  BY <1>0, <1>2, StoreStep DEF AppendText
<1>3. ASSUME NEW c \in Bytes, NEW n \in Numbers \cap Nat, AppendFill(c, n) PROVE IInv'
  <2>1. [i \in 1..n |-> c] \in Seq(Bytes)
    OBVIOUS
  <2> QED BY <1>3, <2>1, StoreStep DEF AppendFill
<1>4. ASSUME NEW n \in Numbers \cap Nat, AppendNegative(n) PROVE IInv'
  BY <1>4, AppendNegativeStep
<1>5. CASE Clear \/ \E n \in Numbers \cap Nat : RemoveStart(n)
  BY <1>5, CutStep
<1>6. ASSUME NEW s \in Texts, Set(s) PROVE IInv'
  BY <1>0, <1>6, SetStep
<1>7. ASSUME NEW n \in Numbers \cap Nat, Reserve(n) PROVE IInv'
  BY <1>7, ReserveStep
<1>8. ASSUME NEW i \in Numbers, NEW c \in Bytes, Assign(i, c) PROVE IInv'
  BY <1>0, <1>8, AssignStep
<1>9. ASSUME NEW i \in Numbers, NEW n \in Numbers, NEW s \in Texts \cup {<<>>},
             Replace(i, n, 0, s)
      PROVE  IInv'
  <2>1. s \in Seq(Bytes) /\ 0 \in Nat /\ i \in Int /\ n \in Int
    <3>1. CASE s \in Texts
      BY <1>0, <3>1
    <3>2. CASE s = <<>>
      BY <1>0, <3>2
    <3> QED BY <3>1, <3>2
  <2> QED BY <1>9, <2>1, ReplaceStep
<1>10. ASSUME NEW i \in Numbers, NEW n \in Numbers, NEW more \in Numbers \cap Nat,
              Replace(i, n, more, <<>>)
       PROVE  IInv'
  <2>1. <<>> \in Seq(Bytes) /\ more \in Nat /\ i \in Int /\ n \in Int
    BY <1>0
  <2> QED BY <1>10, <2>1, ReplaceStep
<1>11. ASSUME NEW s \in Texts, PrintText(s) PROVE IInv'
  BY <1>0, <1>11, PrintStep
<1>12. ASSUME NEW i \in Numbers, Truncate(i) PROVE IInv'
  <2>1. <<>> \in Seq(Bytes) /\ 0 \in Nat /\ i \in Int /\ len \in Int
    BY <1>0 DEF IInv, TypeOK
  <2> QED BY <1>12, <2>1, ReplaceStep DEF Truncate
<1>14. CASE UNCHANGED vars
  BY <1>14 DEF vars, IInv, TypeOK, Terminated
<1> QED BY <1>1, <1>2, <1>3, <1>4, <1>5, <1>6, <1>7, <1>8, <1>9, <1>10, <1>11, <1>12, <1>14 DEF Next

\* The inductive invariant holds in every state.
LEMMA Invariance == Spec => []IInv
BY StartType, Inductive, PTL DEF Spec

\* No operation of any sequence writes outside of the memory, for every set of
\* bytes, texts, arguments and capacities (check(), grow(), replace(), print()).
THEOREM WithinMemory == Spec => []TypeOK
<1>1. IInv => TypeOK
  BY DEF IInv
<1> QED BY <1>1, Invariance, PTL

\* All memory behind the content is zero unless a print() had to make room, so
\* that the content can be read as a C string (StreamBuffer::operator()).
THEOREM EndsWithZeros == Spec => []Terminated
<1>1. IInv => Terminated
  BY DEF IInv
<1> QED BY <1>1, Invariance, PTL
============================================================================
