------------------------ MODULE ProtocolText_proofs -------------------------
(***************************************************************************)
(* The parser does what ProtocolText says: for every file, of any length   *)
(* and with any blocks, parseProtocol() accepts it exactly if it is legal, *)
(* and leaves of it the protocols that its text defines (ParserRight). And *)
(* compile() makes the same of a protocol whatever the record has been     *)
(* compiled to before (CompileIs).                                         *)
(*                                                                         *)
(* The parser goes through a file once, with its context in variables; the *)
(* text has blocks that enclose each other, and references to whatever     *)
(* lies before. So: which blocks are open after n statements (Open), how   *)
(* the next statement changes them (BlocksStep), and what a statement adds *)
(* to the settings and commands of the block it lies in (EntriesAdd,       *)
(* CommandsStep). Each kind of statement takes the parser from what the    *)
(* first n statements mean to what the first n + 1 mean, or is not legal   *)
(* and an error (Follows).                                                 *)
(***************************************************************************)
EXTENDS ProtocolText, TLAPS, WellFoundedInduction, FiniteSetTheorems, SequenceTheorems

(* A set of naturals has a least element.                                  *)
LEMMA LeastNatural ==
  ASSUME NEW S \in SUBSET Nat, S # {}
  PROVE  \E x \in S : \A y \in S : x <= y
<1> DEFINE R == OpToRel(<, Nat)
<1>1. IsWellFoundedOn(R, Nat)
  BY NatLessThanWellFounded
<1>2. R = {ss \in Nat \X Nat : ss[1] < ss[2]}
  BY DEF OpToRel
<1> HIDE DEF R
<1>3. PICK x \in S : \A y \in S : ~ (<<y, x>> \in R)
  BY <1>1, WFMin
<1>4. ASSUME NEW y \in S PROVE x <= y
  <2>1. <<y, x>> \in Nat \X Nat
    OBVIOUS
  <2>2. ~ (<<y, x>>[1] < <<y, x>>[2])
    BY <1>2, <1>3, <2>1
  <2> QED BY <2>2
<1> QED BY <1>4

(* A bounded set of naturals has a greatest element, which is its Max.     *)
LEMMA MaxIn ==
  ASSUME NEW n \in Nat, NEW S \in SUBSET (0 .. n), S # {}
  PROVE  Max(S) \in S /\ \A y \in S : y <= Max(S)
<1> DEFINE T == {n - y : y \in S}
<1>1. T \in SUBSET Nat /\ T # {}
  OBVIOUS
<1> HIDE DEF T
<1>2. PICK t \in T : \A y \in T : t <= y
  BY <1>1, LeastNatural
<1>3. PICK x \in S : t = n - x
  BY DEF T
<1>4. \A y \in S : n - y \in T
  BY DEF T
<1>5. \A y \in S : y <= x
  BY <1>2, <1>3, <1>4
<1>6. \E z \in S : \A y \in S : z >= y
  BY <1>5
<1>7. Max(S) \in S /\ \A y \in S : Max(S) >= y
  BY <1>6, Zenon DEF Max
<1> QED BY <1>7

-----------------------------------------------------------------------------
(* FlattenSeq of the community modules, as a run of concatenations         *)

Cat(a, b) == a \o b

(* Sequences are put together.                                             *)
LEMMA CatIs ==
  ASSUME NEW T, NEW a \in Seq(T), NEW b \in Seq(T)
  PROVE  Cat(a, b) \in Seq(T) /\ Cat(<<>>, a) = a /\ Cat(a, <<>>) = a
BY DEF Cat

(* t holds what the first n sequences make together.                       *)
Joins(seqs, t) ==
  t = [n \in 0 .. Len(seqs) |-> IF n = 0 THEN <<>> ELSE Cat(t[n - 1], seqs[n])]
Joined(seqs) == CHOOSE t : Joins(seqs, t)

(* The run of concatenations exists, for any number of sequences.          *)
LEMMA JoinedExists ==
  ASSUME NEW T, NEW N \in Nat, NEW seqs \in [1 .. N -> Seq(T)], Len(seqs) = N
  PROVE  Joins(seqs, Joined(seqs))
<1> DEFINE Upon(m, t) == t = [n \in 0 .. m |-> IF n = 0 THEN <<>> ELSE Cat(t[n - 1], seqs[n])]
           Bad == {m \in 0 .. Len(seqs) : ~\E t : Upon(m, t)}
<1>0. Len(seqs) \in Nat
  OBVIOUS
<1>1. Bad = {}
  <2> SUFFICES ASSUME Bad # {} PROVE FALSE
    OBVIOUS
  <2>1. Bad \in SUBSET Nat
    OBVIOUS
  <2>2. PICK m \in Bad : \A y \in Bad : m <= y
    <3> HIDE DEF Bad
    <3> QED BY <2>1, LeastNatural
  <2>3. m \in 0 .. Len(seqs) /\ ~\E t : Upon(m, t)
    OBVIOUS
  <2>4. CASE m = 0
    <3> DEFINE none == [n \in 0 .. 0 |-> <<>>]
    <3>1. Upon(0, none)
      BY Z3
    <3> QED BY <2>3, <2>4, <3>1
  <2>5. CASE m # 0
    <3>1. m - 1 \in 0 .. Len(seqs) /\ m - 1 < m
      BY <1>0, <2>3, <2>5
    <3>2. m - 1 \notin Bad
      <4> HIDE DEF Bad
      <4> QED BY <2>1, <2>2, <2>3, <3>1
    <3>3. PICK t : Upon(m - 1, t)
      <4> HIDE DEF Upon
      <4> QED BY <3>1, <3>2
    <3> DEFINE g == [n \in 0 .. m |-> IF n = m THEN Cat(t[m - 1], seqs[m]) ELSE t[n]]
    <3>4. ASSUME NEW n \in 0 .. m PROVE g[n] = IF n = 0 THEN <<>> ELSE Cat(g[n - 1], seqs[n])
      <4>1. CASE n = m
        <5>1. m - 1 \in 0 .. m /\ m - 1 # m
          BY <2>3, <2>5
        <5>2. g[m - 1] = t[m - 1]
          BY <5>1
        <5>3. g[m] = Cat(t[m - 1], seqs[m])
          BY <2>3
        <5> HIDE DEF g
        <5> QED BY <2>5, <4>1, <5>2, <5>3
      <4>2. CASE n # m
        <5>1. n \in 0 .. m - 1
          BY <2>3, <4>2
        <5>2. t[n] = IF n = 0 THEN <<>> ELSE Cat(t[n - 1], seqs[n])
          BY <3>3, <5>1
        <5>3. g[n] = t[n]
          BY <4>2
        <5>4. n # 0 => g[n - 1] = t[n - 1]
          BY <2>3, <5>1
        <5> HIDE DEF g, Upon
        <5> QED BY <5>2, <5>3, <5>4
      <4> QED BY <4>1, <4>2
    <3>5. g = [n \in 0 .. m |-> g[n]]
      OBVIOUS
    <3>6. Upon(m, g)
      <4> HIDE DEF g
      <4> QED BY <3>4, <3>5
    <3> QED BY <2>3, <3>6
  <2> QED BY <2>4, <2>5
<1>2. \E t : Upon(Len(seqs), t)
  <2>1. Len(seqs) \in 0 .. Len(seqs)
    BY <1>0
  <2>2. Len(seqs) \notin Bad
    <3> HIDE DEF Bad
    <3> QED BY <1>1
  <2> HIDE DEF Upon
  <2> QED BY <2>1, <2>2
<1>3. \E t : Joins(seqs, t)
  BY <1>2 DEF Joins
<1> QED BY <1>3 DEF Joined

(* How it goes on from each sequence to the next.                          *)
LEMMA JoinedIs ==
  ASSUME NEW T, NEW N \in Nat, NEW seqs \in [1 .. N -> Seq(T)], Len(seqs) = N
  PROVE  /\ Joined(seqs)[0] = <<>>
         /\ \A n \in 1 .. Len(seqs) : Joined(seqs)[n] = Cat(Joined(seqs)[n - 1], seqs[n])
         /\ \A n \in 0 .. Len(seqs) : Joined(seqs)[n] \in Seq(T)
<1> DEFINE t == Joined(seqs)
<1>0. Len(seqs) \in Nat
  OBVIOUS
<1>1. t = [n \in 0 .. Len(seqs) |-> IF n = 0 THEN <<>> ELSE Cat(t[n - 1], seqs[n])]
  BY JoinedExists DEF Joins
<1> HIDE DEF t
<1>2. t[0] = <<>>
  BY <1>0, <1>1
<1>3. \A n \in 1 .. Len(seqs) : t[n] = Cat(t[n - 1], seqs[n])
  BY <1>0, <1>1
<1>4. ASSUME NEW n0 \in 0 .. Len(seqs), t[n0] \notin Seq(T) PROVE FALSE
  <2> DEFINE Bad == {n \in 0 .. Len(seqs) : t[n] \notin Seq(T)}
  <2>1. Bad \in SUBSET Nat /\ Bad # {}
    BY <1>4
  <2>2. PICK m \in Bad : \A y \in Bad : m <= y
    <3> HIDE DEF Bad
    <3> QED BY <2>1, LeastNatural
  <2>3. m \in 0 .. Len(seqs) /\ t[m] \notin Seq(T)
    OBVIOUS
  <2>4. m # 0
    <3>1. <<>> \in Seq(T)
      OBVIOUS
    <3> QED BY <1>2, <2>3, <3>1
  <2>5. m - 1 \in 0 .. Len(seqs) /\ m \in 1 .. Len(seqs) /\ m - 1 < m
    BY <1>0, <2>3, <2>4
  <2>6. t[m - 1] \in Seq(T)
    <3>1. m - 1 \notin Bad
      <4> HIDE DEF Bad
      <4> QED BY <2>1, <2>2, <2>5
    <3> QED BY <2>5, <3>1
  <2>7. seqs[m] \in Seq(T)
    BY <2>5
  <2>8. t[m] \in Seq(T)
    BY <1>3, <2>5, <2>6, <2>7, CatIs
  <2> QED BY <2>3, <2>8
<1> QED BY <1>2, <1>3, <1>4 DEF t

(* What FlattenSeq computes with.                                          *)
Flattens(seqs, t) ==
  t = [i \in 1 .. Len(seqs) |-> IF i = 1 THEN seqs[i] ELSE Cat(t[i - 1], seqs[i])]

(* The recursion of FlattenSeq is one such function.                       *)
LEMMA FlattenIs ==
  ASSUME NEW seqs, Len(seqs) # 0
  PROVE  FlattenSeq(seqs) = (CHOOSE t : Flattens(seqs, t))[Len(seqs)]
BY Zenon DEF FlattenSeq, Flattens, Cat

(* FlattenSeq is the end of the run.                                       *)
LEMMA FlattenJoined ==
  ASSUME NEW T, NEW N \in Nat, NEW seqs \in [1 .. N -> Seq(T)], Len(seqs) = N
  PROVE  FlattenSeq(seqs) = Joined(seqs)[Len(seqs)]
<1>0. Len(seqs) \in Nat
  OBVIOUS
<1> DEFINE t == Joined(seqs)
<1>1. /\ t[0] = <<>>
      /\ \A n \in 1 .. Len(seqs) : t[n] = Cat(t[n - 1], seqs[n])
      /\ \A n \in 0 .. Len(seqs) : t[n] \in Seq(T)
  BY JoinedIs
<1> HIDE DEF t
<1>2. CASE Len(seqs) = 0
  <2>1. seqs = <<>>
    BY <1>2
  <2>2. FlattenSeq(seqs) = seqs
    BY <1>2 DEF FlattenSeq
  <2> QED BY <1>1, <1>2, <2>1, <2>2 DEF t
<1>3. CASE Len(seqs) # 0
  <2> DEFINE c == CHOOSE u : Flattens(seqs, u)
             g == [i \in 1 .. Len(seqs) |-> t[i]]
  <2>1. Flattens(seqs, g)
    <3>1. ASSUME NEW i \in 1 .. Len(seqs)
          PROVE  g[i] = IF i = 1 THEN seqs[i] ELSE Cat(g[i - 1], seqs[i])
      <4>1. g[i] = t[i] /\ t[i] = Cat(t[i - 1], seqs[i]) /\ seqs[i] \in Seq(T)
        BY <1>1
      <4>2. CASE i = 1
        <5>1. i - 1 = 0
          BY <4>2
        <5>2. Cat(<<>>, seqs[i]) = seqs[i]
          BY <4>1, CatIs
        <5> HIDE DEF g
        <5> QED BY <1>1, <4>1, <4>2, <5>1, <5>2
      <4>3. CASE i # 1
        <5>1. i - 1 \in 1 .. Len(seqs)
          BY <1>0, <4>3
        <5>2. g[i - 1] = t[i - 1]
          BY <5>1
        <5> HIDE DEF g
        <5> QED BY <4>1, <4>3, <5>2
      <4> QED BY <4>2, <4>3
    <3>2. g = [i \in 1 .. Len(seqs) |-> g[i]]
      OBVIOUS
    <3> HIDE DEF g
    <3> QED BY <3>1, <3>2 DEF Flattens
  <2>2. Flattens(seqs, c)
    <3> HIDE DEF g
    <3> QED BY <2>1
  <2>3. \A i \in 1 .. Len(seqs) : c[i] = IF i = 1 THEN seqs[i] ELSE Cat(c[i - 1], seqs[i])
    <3> HIDE DEF c
    <3> QED BY <2>2 DEF Flattens
  <2>4. ASSUME NEW i0 \in 1 .. Len(seqs), c[i0] # t[i0] PROVE FALSE
    <3> DEFINE Bad == {i \in 1 .. Len(seqs) : c[i] # t[i]}
    <3> HIDE DEF c
    <3>1. Bad \in SUBSET Nat /\ Bad # {}
      BY <2>4
    <3>2. PICK m \in Bad : \A y \in Bad : m <= y
      <4> HIDE DEF Bad
      <4> QED BY <3>1, LeastNatural
    <3>3. m \in 1 .. Len(seqs) /\ c[m] # t[m]
      OBVIOUS
    <3>4. c[m] = IF m = 1 THEN seqs[m] ELSE Cat(c[m - 1], seqs[m])
      BY <2>3, <3>3
    <3>5. t[m] = Cat(t[m - 1], seqs[m]) /\ seqs[m] \in Seq(T)
      BY <1>1, <3>3
    <3>6. CASE m = 1
      <4>1. m - 1 = 0
        BY <3>6
      <4>2. Cat(<<>>, seqs[m]) = seqs[m]
        BY <3>5, CatIs
      <4> QED BY <1>1, <3>3, <3>4, <3>5, <3>6, <4>1, <4>2
    <3>7. CASE m # 1
      <4>1. m - 1 \in 1 .. Len(seqs) /\ m - 1 < m
        BY <1>0, <3>3, <3>7
      <4>2. m - 1 \notin Bad
        <5> HIDE DEF Bad
        <5> QED BY <3>1, <3>2, <4>1
      <4>3. c[m - 1] = t[m - 1]
        BY <4>1, <4>2
      <4> QED BY <3>3, <3>4, <3>5, <3>7, <4>3
    <3> QED BY <3>6, <3>7
  <2>5. Len(seqs) \in 1 .. Len(seqs)
    BY <1>0, <1>3
  <2>6. c[Len(seqs)] = t[Len(seqs)]
    <3> HIDE DEF c
    <3> QED BY <2>4, <2>5
  <2> QED BY <1>3, <2>6, FlattenIs DEF t
<1> QED BY <1>2, <1>3
-----------------------------------------------------------------------------
(* Expanded is well defined: references go back                            *)

(* What the parts at j stand for, if e is what lies at the places before   *)
(* it; and parts whose references do go back.                              *)
Resolved(parts, e, j) ==
  [n \in DOMAIN parts[j] |->
     IF parts[j][n].at = 0 THEN parts[j][n].own ELSE e[parts[j][n].at]]
Expands(parts, e) == e = [j \in DOMAIN parts |-> FlattenSeq(Resolved(parts, e, j))]
Parted(T, N, parts) ==
  /\ DOMAIN parts = 1 .. N
  /\ \A j \in 1 .. N : parts[j] \in Seq([at : 0 .. j - 1, own : Seq(T)])

(* The recursion of Expanded is one such function.                         *)
LEMMA ExpandedIs ==
  ASSUME NEW parts PROVE Expanded(parts) = CHOOSE e : Expands(parts, e)
BY Zenon DEF Expanded, Expands, Resolved

(* The elements of a sequence, and where they are.                         *)
LEMMA SeqElement ==
  ASSUME NEW S, NEW q \in Seq(S)
  PROVE  /\ Len(q) \in Nat /\ DOMAIN q = 1 .. Len(q)
         /\ \A n \in DOMAIN q : q[n] \in S
OBVIOUS

(* What lies at j depends on what lies before it only.                     *)
LEMMA ResolvedBefore ==
  ASSUME NEW T, NEW N \in Nat, NEW parts, Parted(T, N, parts), NEW j \in 1 .. N, NEW e, NEW g,
         \A i \in 1 .. j - 1 : e[i] = g[i]
  PROVE  Resolved(parts, e, j) = Resolved(parts, g, j)
<1>1. parts[j] \in Seq([at : 0 .. j - 1, own : Seq(T)])
  BY DEF Parted
<1>2. ASSUME NEW n \in DOMAIN parts[j]
      PROVE  parts[j][n].at = 0 \/ e[parts[j][n].at] = g[parts[j][n].at]
  <2>1. parts[j][n] \in [at : 0 .. j - 1, own : Seq(T)]
    BY <1>1, SeqElement
  <2>2. parts[j][n].at \in 0 .. j - 1
    BY <2>1
  <2> QED BY <2>2
<1> QED BY <1>2 DEF Resolved

(* There is such a function: no chain of references is endless.            *)
LEMMA ExpandedExists ==
  ASSUME NEW T, NEW N \in Nat, NEW parts, Parted(T, N, parts)
  PROVE  Expands(parts, Expanded(parts))
<1> DEFINE Upon(m, e) == e = [j \in 1 .. m |-> FlattenSeq(Resolved(parts, e, j))]
           Bad == {m \in 0 .. N : ~\E e : Upon(m, e)}
<1>1. Bad = {}
  <2> SUFFICES ASSUME Bad # {} PROVE FALSE
    OBVIOUS
  <2>1. Bad \in SUBSET Nat
    OBVIOUS
  <2>2. PICK m \in Bad : \A y \in Bad : m <= y
    <3> HIDE DEF Bad
    <3> QED BY <2>1, LeastNatural
  <2>3. m \in 0 .. N /\ ~\E e : Upon(m, e)
    OBVIOUS
  <2>4. CASE m = 0
    <3> DEFINE none == [j \in {} |-> 0]
    <3>1. 1 .. 0 = {}
      OBVIOUS
    <3>2. Upon(0, none)
      BY <3>1
    <3> QED BY <2>3, <2>4, <3>2
  <2>5. CASE m # 0
    <3>1. m - 1 \in 0 .. N /\ m - 1 < m /\ m \in 1 .. N /\ m \in 1 .. m
      BY <2>3, <2>5
    <3>2. m - 1 \notin Bad
      <4> HIDE DEF Bad
      <4> QED BY <2>1, <2>2, <2>3, <3>1
    <3>3. PICK e : Upon(m - 1, e)
      <4> HIDE DEF Upon
      <4> QED BY <3>1, <3>2
    <3> DEFINE new == FlattenSeq(Resolved(parts, e, m))
               g == [j \in 1 .. m |-> IF j = m THEN new ELSE e[j]]
    <3>4. \A i \in 1 .. m - 1 : g[i] = e[i]
      <4> HIDE DEF new
      <4> QED BY <2>3
    <3>5. ASSUME NEW j \in 1 .. m PROVE g[j] = FlattenSeq(Resolved(parts, g, j))
      <4>1. Resolved(parts, g, j) = Resolved(parts, e, j)
        <5>1. j \in 1 .. N /\ \A i \in 1 .. j - 1 : i \in 1 .. m - 1
          BY <2>3, <3>5
        <5> HIDE DEF g
        <5> QED BY <3>4, <5>1, ResolvedBefore
      <4>2. CASE j = m
        <5>1. g[j] = new
          <6> HIDE DEF new
          <6> QED BY <4>2
        <5> HIDE DEF g
        <5> QED BY <4>1, <4>2, <5>1
      <4>3. CASE j # m
        <5>1. j \in 1 .. m - 1
          BY <2>3, <4>3
        <5>2. e[j] = FlattenSeq(Resolved(parts, e, j))
          BY <3>3, <5>1
        <5> HIDE DEF g
        <5> QED BY <3>4, <4>1, <5>1, <5>2
      <4> QED BY <4>2, <4>3
    <3>6. g = [j \in 1 .. m |-> g[j]]
      <4> HIDE DEF new
      <4> QED OBVIOUS
    <3>7. Upon(m, g)
      <4> HIDE DEF g
      <4> QED BY <3>5, <3>6
    <3> QED BY <2>3, <3>7
  <2> QED BY <2>4, <2>5
<1>2. \E e : Upon(N, e)
  <2>1. N \in 0 .. N
    OBVIOUS
  <2>2. N \notin Bad
    <3> HIDE DEF Bad
    <3> QED BY <1>1
  <2> HIDE DEF Upon
  <2> QED BY <2>1, <2>2
<1>3. \E e : Expands(parts, e)
  BY <1>2 DEF Expands, Parted
<1> QED BY <1>3, ExpandedIs

(* What is resolved at j are sequences, one for each part.                 *)
LEMMA ResolvedType ==
  ASSUME NEW T, NEW N \in Nat, NEW parts, Parted(T, N, parts), NEW j \in 1 .. N, NEW e,
         \A i \in 1 .. j - 1 : e[i] \in Seq(T)
  PROVE  LET K == Len(parts[j]) IN
         /\ K \in Nat /\ DOMAIN parts[j] = 1 .. K
         /\ Resolved(parts, e, j) \in [1 .. K -> Seq(T)]
         /\ Len(Resolved(parts, e, j)) = K
<1> DEFINE K == Len(parts[j])
<1>1. parts[j] \in Seq([at : 0 .. j - 1, own : Seq(T)])
  BY DEF Parted
<1>2. K \in Nat /\ DOMAIN parts[j] = 1 .. K
  BY <1>1
<1>3. ASSUME NEW n \in 1 .. K
      PROVE  (IF parts[j][n].at = 0 THEN parts[j][n].own ELSE e[parts[j][n].at]) \in Seq(T)
  <2>1. parts[j][n] \in [at : 0 .. j - 1, own : Seq(T)]
    <3> HIDE DEF K
    <3> QED BY <1>1, <1>2, SeqElement
  <2>2. parts[j][n].at \in 0 .. j - 1 /\ parts[j][n].own \in Seq(T)
    BY <2>1
  <2> QED BY <2>2
<1>4. Resolved(parts, e, j) \in [1 .. K -> Seq(T)]
  <2> HIDE DEF K
  <2> QED BY <1>2, <1>3 DEF Resolved
<1>5. Len(Resolved(parts, e, j)) = K
  <2> HIDE DEF K
  <2>1. Resolved(parts, e, j) \in Seq(Seq(T))
    BY <1>2, <1>4
  <2>2. DOMAIN Resolved(parts, e, j) = 1 .. K
    BY <1>4
  <2> QED BY <1>2, <2>1, <2>2
<1> QED BY <1>2, <1>4, <1>5

(* What lies at a position are the parts, joined.                          *)
LEMMA ExpandedJoined ==
  ASSUME NEW T, NEW N \in Nat, NEW parts, Parted(T, N, parts), NEW j \in 1 .. N
  PROVE  /\ Expanded(parts)[j] = FlattenSeq(Resolved(parts, Expanded(parts), j))
         /\ Expanded(parts)[j] \in Seq(T)
<1> DEFINE e == Expanded(parts)
<1>1. Expands(parts, e)
  BY ExpandedExists
<1> HIDE DEF e
<1>2. \A i \in 1 .. N : e[i] = FlattenSeq(Resolved(parts, e, i))
  BY <1>1 DEF Expands, Parted
<1>3. ASSUME NEW i0 \in 1 .. N, e[i0] \notin Seq(T) PROVE FALSE
  <2> DEFINE Bad == {i \in 1 .. N : e[i] \notin Seq(T)}
  <2>1. Bad \in SUBSET Nat /\ Bad # {}
    BY <1>3
  <2>2. PICK m \in Bad : \A y \in Bad : m <= y
    <3> HIDE DEF Bad
    <3> QED BY <2>1, LeastNatural
  <2>3. m \in 1 .. N /\ e[m] \notin Seq(T)
    OBVIOUS
  <2>4. ASSUME NEW i \in 1 .. m - 1 PROVE e[i] \in Seq(T)
    <3>1. i \in 1 .. N /\ i < m
      BY <2>3
    <3>2. i \notin Bad
      <4> HIDE DEF Bad
      <4> QED BY <2>1, <2>2, <2>3, <3>1
    <3> QED BY <3>1, <3>2
  <2> DEFINE r == Resolved(parts, e, m)
             K == Len(parts[m])
  <2>5. K \in Nat /\ r \in [1 .. K -> Seq(T)] /\ Len(r) = K
    BY <2>3, <2>4, ResolvedType
  <2> HIDE DEF r, K
  <2>6. FlattenSeq(r) = Joined(r)[K] /\ K \in 0 .. K
    BY <2>5, FlattenJoined
  <2>7. Joined(r)[K] \in Seq(T)
    BY <2>5, <2>6, JoinedIs
  <2> QED BY <1>2, <2>3, <2>6, <2>7 DEF r
<1> QED BY <1>2, <1>3 DEF e

-----------------------------------------------------------------------------
(* The depth of a place                                                    *)

Upto(S, n) == {k \in S : k <= n}

(* Members of S up to n are counted.                                       *)
LEMMA CountStep ==
  ASSUME NEW N \in Nat, NEW S \in SUBSET (1 .. N), NEW n \in Nat
  PROVE  /\ IsFiniteSet(Upto(S, n)) /\ Cardinality(Upto(S, n)) \in Nat
         /\ Cardinality(Upto(S, 0)) = 0
         /\ n + 1 \in S => Cardinality(Upto(S, n + 1)) = Cardinality(Upto(S, n)) + 1
         /\ n + 1 \notin S => Cardinality(Upto(S, n + 1)) = Cardinality(Upto(S, n))
<1>0. \A k \in S : k \in Nat /\ k > 0 /\ k \in 1 .. N
  OBVIOUS
<1>1. IsFiniteSet(1 .. N)
  BY FS_Interval
<1>2. IsFiniteSet(Upto(S, n)) /\ Cardinality(Upto(S, n)) \in Nat
  <2>1. Upto(S, n) \subseteq 1 .. N
    BY DEF Upto
  <2> QED BY <1>1, <2>1, FS_Subset, FS_CardinalityType
<1>3. Upto(S, 0) = {}
  <2>1. ASSUME NEW k \in Upto(S, 0) PROVE FALSE
    <3>1. k \in S /\ k <= 0
      BY DEF Upto
    <3> QED BY <1>0, <3>1
  <2> QED BY <2>1
<1>4. Cardinality(Upto(S, 0)) = 0
  BY <1>3, FS_EmptySet
<1>5. CASE n + 1 \in S
  <2>1. ASSUME NEW k \in S PROVE k <= n + 1 <=> k <= n \/ k = n + 1
    BY <1>0
  <2>2. ~(n + 1 <= n)
    OBVIOUS
  <2>3. Upto(S, n + 1) = Upto(S, n) \cup {n + 1} /\ n + 1 \notin Upto(S, n)
    BY <1>5, <2>1, <2>2, Zenon DEF Upto
  <2>4. Cardinality(Upto(S, n + 1)) = Cardinality(Upto(S, n)) + 1
    BY <1>2, <2>3, FS_AddElement
  <2> QED BY <1>2, <1>4, <1>5, <2>4
<1>6. CASE n + 1 \notin S
  <2>1. ASSUME NEW k \in S PROVE k <= n + 1 <=> k <= n
    <3>1. k # n + 1
      BY <1>6
    <3> QED BY <1>0, <3>1
  <2>2. Upto(S, n + 1) = Upto(S, n)
    BY <2>1, Zenon DEF Upto
  <2> QED BY <1>2, <1>4, <1>6, <2>2
<1> QED BY <1>5, <1>6

IsFile(f) == f \in Seq(Statement)

(* The positions of a file, and of the statements that open and close      *)
(* blocks.                                                                 *)
LEMMA FileIs ==
  ASSUME NEW f, IsFile(f)
  PROVE  /\ Len(f) \in Nat /\ DOMAIN f = 1 .. Len(f)
         /\ Opening(f) \in SUBSET (1 .. Len(f)) /\ Closing(f) \in SUBSET (1 .. Len(f))
BY DEF IsFile, Opening, Closing

(* How the depth changes with the next statement.                          *)
LEMMA DepthStep ==
  ASSUME NEW f, IsFile(f), NEW n \in Nat
  PROVE  /\ Depth(f, n) \in Int /\ Depth(f, 0) = 0
         /\ n + 1 \in Opening(f) => Depth(f, n + 1) = Depth(f, n) + 1
         /\ n + 1 \in Closing(f) => Depth(f, n + 1) = Depth(f, n) - 1
         /\ n + 1 \notin Opening(f) \cup Closing(f) => Depth(f, n + 1) = Depth(f, n)
<1> DEFINE N == Len(f)
           O == Opening(f)
           C == Closing(f)
<1>0. N \in Nat /\ O \in SUBSET (1 .. N) /\ C \in SUBSET (1 .. N)
  BY FileIs
<1>1. O \cap C = {}
  BY DEF Opening, Closing
<1>2. \A m : Depth(f, m) = Cardinality(Upto(O, m)) - Cardinality(Upto(C, m))
  BY Zenon DEF Depth, Upto
<1> HIDE DEF N, O, C
<1>3. /\ Cardinality(Upto(O, n)) \in Nat /\ Cardinality(Upto(O, 0)) = 0
      /\ n + 1 \in O => Cardinality(Upto(O, n + 1)) = Cardinality(Upto(O, n)) + 1
      /\ n + 1 \notin O => Cardinality(Upto(O, n + 1)) = Cardinality(Upto(O, n))
  BY <1>0, CountStep
<1>4. /\ Cardinality(Upto(C, n)) \in Nat /\ Cardinality(Upto(C, 0)) = 0
      /\ n + 1 \in C => Cardinality(Upto(C, n + 1)) = Cardinality(Upto(C, n)) + 1
      /\ n + 1 \notin C => Cardinality(Upto(C, n + 1)) = Cardinality(Upto(C, n))
  BY <1>0, CountStep
<1> QED BY <1>1, <1>2, <1>3, <1>4 DEF O, C

-----------------------------------------------------------------------------
(* The blocks that are open after n statements                             *)

Open(f, n) == {i \in Opening(f) : i <= n /\ \A k \in i .. n : Depth(f, i) <= Depth(f, k)}

(* How the next statement changes the open blocks: those that it closes    *)
(* are gone, and the one that it opens is there.                           *)
LEMMA OpenStep ==
  ASSUME NEW f, IsFile(f), NEW n \in Nat
  PROVE  /\ Open(f, 0) = {}
         /\ Open(f, n) \in SUBSET (1 .. n) /\ Open(f, n) \subseteq Opening(f)
         /\ \A i \in Open(f, n) : Depth(f, i) <= Depth(f, n)
         /\ Open(f, n + 1) = {i \in Open(f, n) : Depth(f, i) <= Depth(f, n + 1)}
                               \cup (Opening(f) \cap {n + 1})
<1>1. \A k \in Nat : Depth(f, k) \in Int
  BY DepthStep
<1>2. Opening(f) \in SUBSET Nat /\ 0 \notin Opening(f)
  BY FileIs
<1>3. Opening(f) \in SUBSET (1 .. Len(f)) /\ Len(f) \in Nat
  BY FileIs
<1>4. Open(f, 0) = {}
  BY <1>3 DEF Open
<1>5. Open(f, n) \in SUBSET (1 .. n) /\ Open(f, n) \subseteq Opening(f)
  BY <1>3 DEF Open
<1>6. \A i \in Open(f, n) : Depth(f, i) <= Depth(f, n)
  BY <1>3 DEF Open
<1>7. ASSUME NEW i \in Opening(f)
      PROVE  i \in Open(f, n + 1) <=> (i \in Open(f, n) /\ Depth(f, i) <= Depth(f, n + 1)) \/ i = n + 1
  <2>1. i \in Nat
    BY <1>2
  <2>2. CASE i <= n
    <3>1. \A k : k \in i .. n + 1 <=> k \in i .. n \/ k = n + 1
      BY <2>1, <2>2
    <3> QED BY <2>1, <2>2, <3>1 DEF Open
  <2>3. CASE i = n + 1
    <3>1. \A k : k \in i .. n + 1 => k = i
      BY <2>1, <2>3
    <3> QED BY <1>1, <2>1, <2>3, <3>1 DEF Open
  <2>4. CASE i > n + 1
    BY <2>1, <2>4 DEF Open
  <2> QED BY <2>1, <2>2, <2>3, <2>4
<1>8. Open(f, n + 1) \subseteq Opening(f) /\ Open(f, n) \subseteq Opening(f)
  BY DEF Open
<1>9. Open(f, n + 1) = {i \in Open(f, n) : Depth(f, i) <= Depth(f, n + 1)}
                               \cup (Opening(f) \cap {n + 1})
  BY <1>7, <1>8
<1> QED BY <1>4, <1>5, <1>6, <1>9

(* The same, for the three kinds of statements.                            *)
LEMMA OpenKinds ==
  ASSUME NEW f, IsFile(f), NEW n \in Nat
  PROVE  /\ n + 1 \in Opening(f) => Open(f, n + 1) = Open(f, n) \cup {n + 1}
         /\ n + 1 \in Closing(f) =>
              Open(f, n + 1) = {i \in Open(f, n) : Depth(f, i) <= Depth(f, n) - 1}
         /\ n + 1 \notin Opening(f) \cup Closing(f) => Open(f, n + 1) = Open(f, n)
<1>1. Open(f, n + 1) = {i \in Open(f, n) : Depth(f, i) <= Depth(f, n + 1)}
                               \cup (Opening(f) \cap {n + 1})
  BY OpenStep
<1>2. \A i \in Open(f, n) : Depth(f, i) <= Depth(f, n) /\ i \in Nat
  BY OpenStep
<1>3. \A k \in Nat : Depth(f, k) \in Int
  BY DepthStep
<1>4. CASE n + 1 \in Opening(f)
  <2>1. Depth(f, n + 1) = Depth(f, n) + 1 /\ n + 1 \notin Closing(f)
    BY <1>4, DepthStep DEF Opening, Closing
  <2>2. \A i \in Open(f, n) : Depth(f, i) <= Depth(f, n + 1)
    BY <1>2, <1>3, <2>1
  <2> QED BY <1>1, <1>4, <2>1, <2>2
<1>5. CASE n + 1 \in Closing(f)
  <2>1. Depth(f, n + 1) = Depth(f, n) - 1 /\ n + 1 \notin Opening(f)
    BY <1>5, DepthStep DEF Opening, Closing
  <2> QED BY <1>1, <1>5, <2>1
<1>6. CASE n + 1 \notin Opening(f) \cup Closing(f)
  <2>1. Depth(f, n + 1) = Depth(f, n)
    BY <1>6, DepthStep
  <2> QED BY <1>1, <1>2, <1>6, <2>1
<1> QED BY <1>4, <1>5, <1>6

(* BlockOf is the innermost block around j.                                *)
LEMMA BlockIs ==
  ASSUME NEW f, IsFile(f), NEW j \in DOMAIN f
  PROVE  /\ BlockOf(f, j) \in 0 .. j - 1
         /\ BlockOf(f, j) # 0 => BlockOf(f, j) \in Opening(f) /\ Encloses(f, BlockOf(f, j), j)
         /\ \A i \in Opening(f) : Encloses(f, i, j) => i <= BlockOf(f, j)
<1> DEFINE S == {i \in Opening(f) : Encloses(f, i, j)} \cup {0}
<1>1. j \in Nat /\ Opening(f) \in SUBSET Nat /\ 0 \notin Opening(f) /\ j - 1 \in Nat
  BY FileIs
<1>2. S \in SUBSET (0 .. j - 1) /\ S # {}
  BY <1>1 DEF Encloses
<1>3. BlockOf(f, j) = Max(S)
  BY Zenon DEF BlockOf
<1> HIDE DEF S
<1>4. BlockOf(f, j) \in S /\ \A y \in S : y <= BlockOf(f, j)
  BY <1>1, <1>2, <1>3, MaxIn
<1> QED BY <1>1, <1>2, <1>4 DEF S

(* A statement that closes nothing lies in the blocks that are open before *)
(* it.                                                                     *)
LEMMA EnclosesNext ==
  ASSUME NEW f, IsFile(f), NEW n \in Nat, n + 1 \notin Closing(f), NEW i \in Opening(f)
  PROVE  Encloses(f, i, n + 1) <=> i \in Open(f, n)
<1>1. i \in Nat
  BY FileIs
<1>2. Depth(f, n + 1) >= Depth(f, n) /\ \A k \in Nat : Depth(f, k) \in Int
  BY DepthStep
<1>3. CASE i <= n
  <2>1. \A k : k \in i + 1 .. n + 1 => k = n + 1 \/ k \in i .. n
    BY <1>1, <1>3
  <2>2. \A k : k \in i .. n => k = i \/ k \in i + 1 .. n + 1
    BY <1>1, <1>3
  <2>3. i < n + 1 /\ i \in i .. n /\ n \in i .. n /\ n + 1 \in i + 1 .. n + 1
    BY <1>1, <1>3
  <2>4. Encloses(f, i, n + 1) <=> \A k \in i + 1 .. n + 1 : Depth(f, i) <= Depth(f, k)
    BY <2>3 DEF Encloses
  <2>5. i \in Open(f, n) <=> \A k \in i .. n : Depth(f, i) <= Depth(f, k)
    BY <1>3 DEF Open
  <2>6. ASSUME \A k \in i .. n : Depth(f, i) <= Depth(f, k)
        PROVE  \A k \in i + 1 .. n + 1 : Depth(f, i) <= Depth(f, k)
    <3>1. Depth(f, i) <= Depth(f, n)
      BY <2>3, <2>6
    <3>2. Depth(f, i) <= Depth(f, n + 1)
      BY <1>1, <1>2, <3>1
    <3> QED BY <2>1, <2>6, <3>2
  <2>7. ASSUME \A k \in i + 1 .. n + 1 : Depth(f, i) <= Depth(f, k)
        PROVE  \A k \in i .. n : Depth(f, i) <= Depth(f, k)
    <3>1. Depth(f, i) <= Depth(f, i)
      BY <1>1, <1>2
    <3> QED BY <2>2, <2>7, <3>1
  <2> QED BY <2>4, <2>5, <2>6, <2>7
<1>4. CASE i > n
  BY <1>1, <1>4 DEF Encloses, Open
<1> QED BY <1>1, <1>3, <1>4

(* What is open after n is open after every j between.                     *)
LEMMA OpenEncloses ==
  ASSUME NEW f, IsFile(f), NEW n \in Nat, NEW i \in Open(f, n), NEW j \in i + 1 .. n
  PROVE  Encloses(f, i, j)
<1>1. i \in Nat /\ i \in Opening(f) /\ i <= n /\ \A k \in i .. n : Depth(f, i) <= Depth(f, k)
  BY FileIs DEF Open
<1>2. i < j /\ \A k : k \in i + 1 .. j => k \in i .. n
  BY <1>1
<1> QED BY <1>1, <1>2 DEF Encloses

(* What is closed stays closed, and nothing behind it lies in it.          *)
LEMMA ClosedEncloses ==
  ASSUME NEW f, IsFile(f), NEW n \in Nat, NEW i \in Opening(f), i <= n, i \notin Open(f, n),
         NEW j \in Nat, n < j
  PROVE  ~Encloses(f, i, j) /\ i \notin Open(f, j)
<1>1. i \in Nat
  BY FileIs
<1>2. PICK k \in i .. n : ~(Depth(f, i) <= Depth(f, k))
  BY DEF Open
<1>3. k # i
  <2>1. Depth(f, i) \in Int
    BY <1>1, DepthStep
  <2> QED BY <1>2, <2>1
<1>4. k \in i + 1 .. j /\ k \in i .. j
  BY <1>1, <1>3
<1> QED BY <1>2, <1>4 DEF Encloses, Open

(* The next statement lies in the innermost of the open blocks.            *)
LEMMA BlockNext ==
  ASSUME NEW f, IsFile(f), NEW n \in Nat, n + 1 \in DOMAIN f, n + 1 \notin Closing(f)
  PROVE  /\ BlockOf(f, n + 1) \in Open(f, n) \cup {0}
         /\ \A i \in Open(f, n) : i <= BlockOf(f, n + 1)
<1>1. /\ BlockOf(f, n + 1) # 0 =>
           BlockOf(f, n + 1) \in Opening(f) /\ Encloses(f, BlockOf(f, n + 1), n + 1)
      /\ \A i \in Opening(f) : Encloses(f, i, n + 1) => i <= BlockOf(f, n + 1)
  BY BlockIs
<1>2. \A i \in Opening(f) : Encloses(f, i, n + 1) <=> i \in Open(f, n)
  BY EnclosesNext
<1>3. Open(f, n) \subseteq Opening(f)
  BY DEF Open
<1> QED BY <1>1, <1>2, <1>3

-----------------------------------------------------------------------------
(* Of several statements with the same name, the last one counts           *)

(* A function on 1 .. N is a sequence.                                     *)
LEMMA FunctionIsSeq ==
  ASSUME NEW N \in Nat, NEW S, NEW q \in [1 .. N -> S]
  PROVE  q \in Seq(S) /\ Len(q) = N
OBVIOUS

(* The last statement of a name.                                           *)
LEMMA LastNamedIs ==
  ASSUME NEW f, NEW n \in Nat, NEW S \in SUBSET (1 .. n), NEW name
  PROVE  /\ LastNamed(f, S, name) \in 0 .. n
         /\ LastNamed(f, S, name) # 0 =>
              LastNamed(f, S, name) \in S /\ f[LastNamed(f, S, name)].name = name
         /\ \A j \in S : f[j].name = name => j <= LastNamed(f, S, name)
         /\ name \in NamesIn(f, S) => LastNamed(f, S, name) # 0
<1> DEFINE T == {j \in S : f[j].name = name} \cup {0}
<1>1. T \in SUBSET (0 .. n) /\ T # {}
  <2>1. \A j \in S : j \in 0 .. n
    OBVIOUS
  <2>2. 0 \in 0 .. n
    OBVIOUS
  <2> QED BY <2>1, <2>2
<1>2. LastNamed(f, S, name) = Max(T)
  BY Zenon DEF LastNamed
<1> HIDE DEF T
<1>3. LastNamed(f, S, name) \in T /\ \A y \in T : y <= LastNamed(f, S, name)
  BY <1>1, <1>2, MaxIn
<1>4. \A j \in S : f[j].name = name => j \in T /\ j >= 1
  BY DEF T
<1>5. name \in NamesIn(f, S) => \E j \in S : f[j].name = name
  BY DEF NamesIn
<1>6. LastNamed(f, S, name) \in 0 .. n
  BY <1>1, <1>3
<1>7. \A j \in S : f[j].name = name => j <= LastNamed(f, S, name)
  BY <1>3, <1>4
<1>8. name \in NamesIn(f, S) => LastNamed(f, S, name) # 0
  <2>1. ASSUME NEW j \in S, f[j].name = name PROVE LastNamed(f, S, name) # 0
    <3>1. j >= 1 /\ j <= LastNamed(f, S, name) /\ j \in Nat
      BY <1>4, <1>7, <2>1
    <3> QED BY <1>6, <3>1
  <2> QED BY <1>5, <2>1
<1>9. LastNamed(f, S, name) # 0 =>
        LastNamed(f, S, name) \in S /\ f[LastNamed(f, S, name)].name = name
  BY <1>3 DEF T
<1> QED BY <1>6, <1>7, <1>8, <1>9

(* Entries depend on what the statements that they are taken from say.     *)
LEMMA EntriesSame ==
  ASSUME NEW f, NEW n \in Nat, NEW S \in SUBSET (1 .. n), NEW u, NEW w, \A j \in S : u[j] = w[j]
  PROVE  Entries(f, S, u) = Entries(f, S, w)
<1>1. ASSUME NEW x \in NamesIn(f, S) PROVE LastNamed(f, S, x) \in S
  BY LastNamedIs
<1> QED BY <1>1 DEF Entries

(* A later statement replaces the entry of its name.                       *)
LEMMA EntriesAdd ==
  ASSUME NEW f, NEW n \in Nat, NEW S \in SUBSET (1 .. n), NEW u, NEW w, \A j \in S : u[j] = w[j]
  PROVE  CreateVariable(Entries(f, S, u), f[n + 1].name, w[n + 1]) = Entries(f, S \cup {n + 1}, w)
<1> DEFINE T == S \cup {n + 1}
           name == f[n + 1].name
<1>0. n + 1 \in Nat /\ S \in SUBSET (1 .. n + 1) /\ T \in SUBSET (1 .. n + 1) /\ n + 1 \in T
  OBVIOUS
<1>1. NamesIn(f, T) = NamesIn(f, S) \cup {name}
  BY DEF NamesIn
<1>2. DOMAIN Entries(f, S, u) = NamesIn(f, S)
  BY DEF Entries
<1>3. LastNamed(f, T, name) = n + 1
  <2>1. /\ LastNamed(f, T, name) \in 0 .. n + 1
        /\ \A j \in T : f[j].name = name => j <= LastNamed(f, T, name)
    <3> HIDE DEF T, name
    <3> QED BY <1>0, LastNamedIs
  <2>2. n + 1 <= LastNamed(f, T, name)
    <3> HIDE DEF T
    <3> QED BY <1>0, <2>1
  <2> HIDE DEF T, name
  <2> QED BY <2>1, <2>2
<1>4. ASSUME NEW x \in NamesIn(f, S), x # name
      PROVE  LastNamed(f, T, x) = LastNamed(f, S, x) /\ LastNamed(f, S, x) \in S
  <2> DEFINE a == LastNamed(f, S, x)
             b == LastNamed(f, T, x)
  <2>1. a \in S /\ f[a].name = x /\ \A j \in S : f[j].name = x => j <= a
    <3> HIDE DEF name
    <3> QED BY <1>4, LastNamedIs
  <2>2. x \in NamesIn(f, T)
    BY <1>1
  <2>3. b \in T /\ f[b].name = x /\ \A j \in T : f[j].name = x => j <= b
    <3> HIDE DEF name, T
    <3> QED BY <1>0, <2>2, LastNamedIs
  <2>4. b \in S /\ a \in T
    <3>1. b # n + 1
      BY <1>4, <2>3
    <3> HIDE DEF a, b
    <3> QED BY <2>1, <2>3, <3>1
  <2>5. a <= b /\ b <= a
    <3> HIDE DEF a, b, T
    <3> QED BY <2>1, <2>3, <2>4
  <2>6. a \in Nat /\ b \in Nat
    <3> HIDE DEF a, b
    <3> QED BY <2>1, <2>4
  <2> HIDE DEF a, b
  <2>7. a = b
    BY <2>5, <2>6
  <2> QED BY <2>1, <2>7 DEF a, b
<1>5. ASSUME NEW x \in NamesIn(f, T)
      PROVE  (IF x = name THEN w[n + 1] ELSE Entries(f, S, u)[x]) = w[LastNamed(f, T, x)]
  <2>1. CASE x = name
    BY <1>3, <2>1
  <2>2. CASE x # name
    <3>1. x \in NamesIn(f, S)
      BY <1>1, <2>2
    <3>2. Entries(f, S, u)[x] = u[LastNamed(f, S, x)]
      BY <3>1 DEF Entries
    <3> HIDE DEF name, T
    <3> QED BY <1>4, <2>2, <3>1, <3>2
  <2> QED BY <2>1, <2>2
<1>6. CreateVariable(Entries(f, S, u), name, w[n + 1])
        = [x \in NamesIn(f, T) |-> IF x = name THEN w[n + 1] ELSE Entries(f, S, u)[x]]
  <2> HIDE DEF name, T
  <2> QED BY <1>1, <1>2 DEF CreateVariable
<1>7. Entries(f, T, w) = [x \in NamesIn(f, T) |-> w[LastNamed(f, T, x)]]
  BY DEF Entries
<1> HIDE DEF T
<1>8. CreateVariable(Entries(f, S, u), name, w[n + 1]) = Entries(f, T, w)
  <2> HIDE DEF name
  <2> QED BY <1>5, <1>6, <1>7
<1> QED BY <1>8 DEF T

Put(entries, x, value) == [entries EXCEPT ![x] = value]
IsLast(S, n, k) == S \in SUBSET (1 .. n) /\ k \in S /\ \A j \in S : j <= k
SameBut(S, k, u, w) == \A j \in S : j # k => u[j] = w[j]

(* The entry of the last statement of all is changed.                      *)
LEMMA EntriesChange ==
  ASSUME NEW f, NEW n \in Nat, NEW S, NEW u, NEW w, NEW k, IsLast(S, n, k), SameBut(S, k, u, w)
  PROVE  /\ Entries(f, S, u)[f[k].name] = u[k]
         /\ Put(Entries(f, S, u), f[k].name, w[k]) = Entries(f, S, w)
<1>0. /\ S \in SUBSET (1 .. n) /\ k \in S
      /\ \A j \in S : j <= k
      /\ \A j \in S : j # k => u[j] = w[j]
  BY DEF IsLast, SameBut
<1> DEFINE name == f[k].name
<1>1. name \in NamesIn(f, S)
  BY <1>0 DEF NamesIn
<1>2. LastNamed(f, S, name) = k
  <2> DEFINE a == LastNamed(f, S, name)
  <2>1. a \in S /\ \A j \in S : f[j].name = name => j <= a
    <3> HIDE DEF name
    <3> QED BY <1>0, <1>1, LastNamedIs
  <2> HIDE DEF a
  <2>2. a <= k /\ k <= a /\ a \in Nat /\ k \in Nat
    BY <1>0, <2>1
  <2>3. a = k
    BY <2>2
  <2> QED BY <2>3 DEF a
<1>3. ASSUME NEW x \in NamesIn(f, S)
      PROVE  (IF x = name THEN w[k] ELSE u[LastNamed(f, S, x)]) = w[LastNamed(f, S, x)]
  <2>1. CASE x = name
    <3> HIDE DEF name
    <3> QED BY <1>2, <2>1
  <2>2. CASE x # name
    <3>1. LastNamed(f, S, x) \in S /\ f[LastNamed(f, S, x)].name = x
      BY <1>0, LastNamedIs
    <3>2. LastNamed(f, S, x) # k
      BY <2>2, <3>1
    <3> HIDE DEF name
    <3> QED BY <1>0, <2>2, <3>1, <3>2
  <2> QED BY <2>1, <2>2
<1>4. Entries(f, S, u)[name] = u[k]
  <2> HIDE DEF name
  <2> QED BY <1>1, <1>2 DEF Entries
<1>5. [Entries(f, S, u) EXCEPT ![name] = w[k]] = Entries(f, S, w)
  <2> HIDE DEF name
  <2> QED BY <1>3 DEF Entries
<1> QED BY <1>4, <1>5 DEF Put

-----------------------------------------------------------------------------
(* Values and commands have parts that refer back                          *)

Command == [op : STRING, args : Seq(Part)]

(* What a statement consists of.                                           *)
LEMMA StatementIs ==
  ASSUME NEW f, IsFile(f), NEW j \in DOMAIN f
  PROVE  /\ f[j].is \in {"assign", "handler", "protocol", "close", "word", "junk"}
         /\ f[j].name \in STRING /\ f[j].value \in Seq(Part)
         /\ f[j].is = "handler" => f[j].name # ""
<1>1. f[j] \in Statement
  BY SeqElement DEF IsFile
<1> QED BY <1>1 DEF Statement

(* A value refers to statements before it.                                 *)
LEMMA ValuesParted ==
  ASSUME NEW f, IsFile(f)
  PROVE  Parted(Part, Len(f), ValueParts(f))
<1>1. Len(f) \in Nat /\ DOMAIN f = 1 .. Len(f)
  BY FileIs
<1>2. DOMAIN ValueParts(f) = 1 .. Len(f)
  BY <1>1 DEF ValueParts
<1>3. ASSUME NEW j \in 1 .. Len(f)
      PROVE  ValueParts(f)[j] \in Seq([at : 0 .. j - 1, own : Seq(Part)])
  <2> DEFINE value == f[j].value
             At(n) == IF value[n].is = "var"
                      THEN LastNamed(f, Before(Within(f, 0, "assign"), j), value[n].of) ELSE 0
  <2>1. value \in Seq(Part) /\ j \in Nat /\ j - 1 \in Nat
    <3>1. f[j].value \in Seq(Part)
      BY <1>1, StatementIs
    <3> QED BY <3>1
  <2>2. Len(value) \in Nat /\ DOMAIN value = 1 .. Len(value) /\ \A n \in DOMAIN value : value[n] \in Part
    BY <2>1, SeqElement
  <2>3. ValueParts(f)[j] = [n \in DOMAIN value |-> [at |-> At(n), own |-> <<value[n]>>]]
    BY <1>1 DEF ValueParts
  <2> HIDE DEF value
  <2>4. ASSUME NEW n \in DOMAIN value PROVE At(n) \in 0 .. j - 1
    <3>1. Before(Within(f, 0, "assign"), j) \in SUBSET (1 .. j - 1)
      BY <1>1 DEF Before, Within
    <3>2. LastNamed(f, Before(Within(f, 0, "assign"), j), value[n].of) \in 0 .. j - 1
      BY <2>1, <3>1, LastNamedIs
    <3> QED BY <2>1, <3>2
  <2> HIDE DEF At
  <2>5. ASSUME NEW n \in DOMAIN value
        PROVE  [at |-> At(n), own |-> <<value[n]>>] \in [at : 0 .. j - 1, own : Seq(Part)]
    <3>1. <<value[n]>> \in Seq(Part)
      BY <2>2
    <3> QED BY <2>4, <3>1
  <2>6. ValueParts(f)[j] \in [1 .. Len(value) -> [at : 0 .. j - 1, own : Seq(Part)]]
    BY <2>2, <2>3, <2>5
  <2> QED BY <2>2, <2>6, FunctionIsSeq
<1> QED BY <1>2, <1>3 DEF Parted

(* A protocol that a word stands for begins before the block of the word.  *)
LEMMA MeantBefore ==
  ASSUME NEW f, IsFile(f), NEW j \in DOMAIN f, NEW m \in Meant(f, j), BlockOf(f, j) # 0
  PROVE  m < BlockOf(f, j)
<1> DEFINE i == BlockOf(f, j)
<1>1. i \in Opening(f) /\ Encloses(f, i, j)
  BY BlockIs
<1>2. m \in Within(f, 0, "protocol") /\ m < j /\ ~Encloses(f, m, j)
  BY DEF Meant
<1>3. m \in DOMAIN f /\ BlockOf(f, m) = 0
  BY <1>2 DEF Within
<1>4. i \in Nat /\ m \in Nat /\ i >= 1 /\ j \in Nat
  BY <1>1, <1>3, FileIs
<1> HIDE DEF i
<1>5. m # i
  BY <1>1, <1>2
<1>6. ASSUME i < m PROVE FALSE
  <2>1. Encloses(f, i, m)
    <3>1. \A k : k \in i + 1 .. m => k \in i + 1 .. j
      BY <1>2, <1>4
    <3> QED BY <1>1, <1>6, <3>1 DEF Encloses
  <2>2. i <= 0
    BY <1>1, <1>3, <2>1, BlockIs
  <2> QED BY <1>4, <2>2
<1>7. m < i
  BY <1>4, <1>5, <1>6
<1> QED BY <1>7 DEF i

(* The commands that a word stands for.                                    *)
MeantAt(f, j) == Max(Meant(f, j) \cup {0})
Own(f, j) == <<[op |-> f[j].name, args |-> f[j].value]>>
Means(f, j) == IF MeantAt(f, j) = 0 THEN Own(f, j) ELSE CommandsIn(f)[MeantAt(f, j)]
WordIn(f, i, j) == f[j].is = "word" /\ BlockOf(f, j) = i

(* The last protocol that a word may stand for, and where it lies.         *)
LEMMA MeantAtIs ==
  ASSUME NEW f, IsFile(f), NEW j \in DOMAIN f
  PROVE  /\ MeantAt(f, j) \in Meant(f, j) \cup {0}
         /\ MeantAt(f, j) \in 0 .. j - 1
         /\ \A m \in Meant(f, j) : m <= MeantAt(f, j) /\ m \in Nat /\ m # 0
         /\ BlockOf(f, j) # 0 => MeantAt(f, j) \in 0 .. BlockOf(f, j) - 1
<1>1. Meant(f, j) \cup {0} \in SUBSET (0 .. j - 1) /\ 0 \notin Meant(f, j) /\ j - 1 \in Nat
  BY FileIs DEF Meant, Within
<1>2. MeantAt(f, j) \in Meant(f, j) \cup {0} /\ \A m \in Meant(f, j) \cup {0} : m <= MeantAt(f, j)
  BY <1>1, MaxIn DEF MeantAt
<1>3. ASSUME BlockOf(f, j) # 0 PROVE MeantAt(f, j) \in 0 .. BlockOf(f, j) - 1
  <2>1. BlockOf(f, j) \in 0 .. j - 1
    BY BlockIs
  <2>2. MeantAt(f, j) = 0 \/ MeantAt(f, j) < BlockOf(f, j)
    BY <1>2, <1>3, MeantBefore
  <2> QED BY <1>1, <1>2, <1>3, <2>1, <2>2
<1> QED BY <1>1, <1>2, <1>3

(* The parts of the commands of a block: its words.                        *)
LEMMA CommandPartsAre ==
  ASSUME NEW f, IsFile(f), NEW i \in DOMAIN f
  PROVE  /\ DOMAIN CommandParts(f) = DOMAIN f /\ DOMAIN CommandParts(f)[i] = DOMAIN f
         /\ \A j \in DOMAIN f : CommandParts(f)[i][j] =
              IF WordIn(f, i, j) THEN [at |-> MeantAt(f, j), own |-> Own(f, j)]
              ELSE [at |-> 0, own |-> <<>>]
BY DEF CommandParts, WordIn, MeantAt, Own

(* A block refers to protocols that begin before it.                       *)
LEMMA CommandsParted ==
  ASSUME NEW f, IsFile(f)
  PROVE  Parted(Command, Len(f), CommandParts(f))
<1>1. Len(f) \in Nat /\ DOMAIN f = 1 .. Len(f)
  BY FileIs
<1>2. ASSUME NEW i \in 1 .. Len(f)
      PROVE  CommandParts(f)[i] \in Seq([at : 0 .. i - 1, own : Seq(Command)])
  <2>1. DOMAIN CommandParts(f)[i] = 1 .. Len(f)
    BY <1>1, CommandPartsAre
  <2>2. ASSUME NEW j \in 1 .. Len(f)
        PROVE  CommandParts(f)[i][j] \in [at : 0 .. i - 1, own : Seq(Command)]
    <3>1. CommandParts(f)[i][j] =
              IF WordIn(f, i, j) THEN [at |-> MeantAt(f, j), own |-> Own(f, j)]
              ELSE [at |-> 0, own |-> <<>>]
      BY <1>1, CommandPartsAre
    <3>2. CASE WordIn(f, i, j)
      <4>1. BlockOf(f, j) = i /\ i # 0
        BY <3>2 DEF WordIn
      <4>2. MeantAt(f, j) \in 0 .. i - 1
        BY <1>1, <4>1, MeantAtIs
      <4>3. [op |-> f[j].name, args |-> f[j].value] \in Command
        BY <1>1, StatementIs DEF Command
      <4>4. Own(f, j) \in Seq(Command)
        BY <4>3 DEF Own
      <4> QED BY <3>1, <3>2, <4>2, <4>4
    <3>3. CASE ~WordIn(f, i, j)
      <4>1. <<>> \in Seq(Command)
        OBVIOUS
      <4>2. 0 \in 0 .. i - 1
        BY <1>1
      <4> QED BY <3>1, <3>3, <4>1, <4>2
    <3> QED BY <3>2, <3>3
  <2>3. CommandParts(f)[i] = [j \in 1 .. Len(f) |-> CommandParts(f)[i][j]]
    BY <1>1 DEF CommandParts
  <2>4. CommandParts(f)[i] \in [1 .. Len(f) -> [at : 0 .. i - 1, own : Seq(Command)]]
    BY <2>2, <2>3
  <2> QED BY <1>1, <2>4, FunctionIsSeq
<1>3. DOMAIN CommandParts(f) = 1 .. Len(f)
  BY <1>1 DEF CommandParts
<1> QED BY <1>2, <1>3 DEF Parted

(* A value is what its parts stand for, joined.                            *)
LEMMA ValueIs ==
  ASSUME NEW f, IsFile(f), NEW j \in DOMAIN f
  PROVE  Values(f)[j] = FlattenSeq(Resolved(ValueParts(f), Values(f), j))
<1>1. Len(f) \in Nat /\ j \in 1 .. Len(f) /\ Parted(Part, Len(f), ValueParts(f))
  BY FileIs, ValuesParted
<1>2. Expanded(ValueParts(f))[j] = FlattenSeq(Resolved(ValueParts(f), Expanded(ValueParts(f)), j))
  BY <1>1, ExpandedJoined
<1> QED BY <1>2 DEF Values

-----------------------------------------------------------------------------
(* What a block and the settings have come to after n statements           *)

(* The commands of a block, as far as n statements give them.              *)
CommandsUpTo(f, n) ==
  [i \in DOMAIN f |-> Joined(Resolved(CommandParts(f), CommandsIn(f), i))[n]]

(* They begin with none, end with all, and grow with each word of the      *)
(* block.                                                                  *)
LEMMA CommandsUpToIs ==
  ASSUME NEW f, IsFile(f), NEW i \in DOMAIN f
  PROVE  /\ CommandsUpTo(f, 0)[i] = <<>>
         /\ CommandsUpTo(f, Len(f))[i] = CommandsIn(f)[i]
         /\ \A n \in 0 .. Len(f) - 1 : CommandsUpTo(f, n + 1)[i] =
              IF WordIn(f, i, n + 1) THEN Cat(CommandsUpTo(f, n)[i], Means(f, n + 1))
              ELSE CommandsUpTo(f, n)[i]
<1> DEFINE parts == CommandParts(f)
           e == CommandsIn(f)
           r == Resolved(parts, e, i)
           N == Len(f)
<1>1. N \in Nat /\ DOMAIN f = 1 .. N
  BY FileIs
<1>2. Parted(Command, N, parts)
  BY CommandsParted
<1>3. \A k \in 1 .. N : e[k] \in Seq(Command) /\ e[k] = FlattenSeq(Resolved(parts, e, k))
  <2> HIDE DEF N, parts
  <2> QED BY <1>1, <1>2, ExpandedJoined DEF CommandsIn, parts
<1>4. DOMAIN parts[i] = 1 .. N /\ DOMAIN parts = 1 .. N
  BY <1>1, CommandPartsAre
<1>5. Len(parts[i]) = N
  <2>1. parts[i] \in Seq([at : 0 .. i - 1, own : Seq(Command)])
    BY <1>1, <1>2 DEF Parted
  <2> HIDE DEF parts, N
  <2>2. Len(parts[i]) \in Nat /\ DOMAIN parts[i] = 1 .. Len(parts[i])
    BY <2>1, SeqElement
  <2> QED BY <1>1, <1>4, <2>2
<1>6. r \in [1 .. N -> Seq(Command)] /\ Len(r) = N
  <2>1. i \in 1 .. N /\ \A k \in 1 .. i - 1 : e[k] \in Seq(Command)
    BY <1>1, <1>3
  <2> HIDE DEF parts, N, e
  <2> QED BY <1>1, <1>2, <1>5, <2>1, ResolvedType
<1>7. ASSUME NEW j \in 1 .. N
      PROVE  r[j] = IF WordIn(f, i, j) THEN Means(f, j) ELSE <<>>
  <2>1. parts[i][j] = IF WordIn(f, i, j) THEN [at |-> MeantAt(f, j), own |-> Own(f, j)]
                      ELSE [at |-> 0, own |-> <<>>]
    BY <1>1, CommandPartsAre
  <2>2. r[j] = IF parts[i][j].at = 0 THEN parts[i][j].own ELSE e[parts[i][j].at]
    <3> HIDE DEF parts, N, e
    <3> QED BY <1>4 DEF Resolved
  <2> HIDE DEF r, parts
  <2>3. CASE WordIn(f, i, j)
    <3>1. parts[i][j].at = MeantAt(f, j) /\ parts[i][j].own = Own(f, j)
      BY <2>1, <2>3
    <3> QED BY <2>2, <2>3, <3>1 DEF Means
  <2>4. CASE ~WordIn(f, i, j)
    <3>1. parts[i][j].at = 0 /\ parts[i][j].own = <<>>
      BY <2>1, <2>4
    <3> QED BY <2>2, <2>4, <3>1
  <2> QED BY <2>3, <2>4
<1>8. \A n : CommandsUpTo(f, n)[i] = Joined(r)[n]
  BY DEF CommandsUpTo
<1> HIDE DEF r
<1>9. /\ Joined(r)[0] = <<>>
      /\ \A n \in 1 .. N : Joined(r)[n] = Cat(Joined(r)[n - 1], r[n])
      /\ \A n \in 0 .. N : Joined(r)[n] \in Seq(Command)
  <2> HIDE DEF N
  <2> QED BY <1>1, <1>6, JoinedIs
<1>10. e[i] = Joined(r)[N]
  <2>1. e[i] = FlattenSeq(r)
    BY <1>1, <1>3 DEF r
  <2> HIDE DEF N, e
  <2> QED BY <1>1, <1>6, <2>1, FlattenJoined
<1>11. ASSUME NEW n \in 0 .. N - 1
       PROVE  Joined(r)[n + 1] = IF WordIn(f, i, n + 1) THEN Cat(Joined(r)[n], Means(f, n + 1))
                                 ELSE Joined(r)[n]
  <2>1. n + 1 \in 1 .. N /\ n + 1 - 1 = n /\ n \in 0 .. N
    BY <1>1
  <2>2. Joined(r)[n + 1] = Cat(Joined(r)[n], r[n + 1])
    <3> HIDE DEF N
    <3> QED BY <1>9, <2>1
  <2>3. r[n + 1] = IF WordIn(f, i, n + 1) THEN Means(f, n + 1) ELSE <<>>
    <3> HIDE DEF N
    <3> QED BY <1>7, <2>1
  <2>4. Joined(r)[n] \in Seq(Command)
    <3> HIDE DEF N
    <3> QED BY <1>9, <2>1
  <2>5. Cat(Joined(r)[n], <<>>) = Joined(r)[n]
    BY <2>4, CatIs
  <2> QED BY <2>2, <2>3, <2>5
<1> QED BY <1>8, <1>9, <1>10, <1>11

-----------------------------------------------------------------------------
(* What lies within a block                                                *)

(* What encloses a place encloses all before it.                           *)
LEMMA EnclosesPart ==
  ASSUME NEW f, IsFile(f), NEW i \in Nat, NEW j \in Nat, NEW k \in Nat, Encloses(f, i, k), i < j, j <= k
  PROVE  Encloses(f, i, j)
<1>1. \A x : x \in i + 1 .. j => x \in i + 1 .. k
  OBVIOUS
<1> QED BY <1>1 DEF Encloses

(* A block in a block lies in whatever the outer one lies in.              *)
LEMMA EnclosesTransitive ==
  ASSUME NEW f, IsFile(f), NEW i \in Nat, NEW j \in Nat, NEW k \in Nat,
         Encloses(f, i, j), Encloses(f, j, k)
  PROVE  Encloses(f, i, k)
<1>1. \A x \in Nat : Depth(f, x) \in Int
  BY DepthStep
<1>2. i < j /\ j < k /\ j \in i + 1 .. j
  BY DEF Encloses
<1>3. Depth(f, i) <= Depth(f, j)
  BY <1>2 DEF Encloses
<1>4. ASSUME NEW x \in i + 1 .. k PROVE Depth(f, i) <= Depth(f, x)
  <2>1. CASE x <= j
    <3>1. x \in i + 1 .. j
      BY <2>1
    <3> QED BY <3>1 DEF Encloses
  <2>2. CASE x > j
    <3>1. x \in j + 1 .. k
      BY <2>2
    <3>2. Depth(f, j) <= Depth(f, x)
      BY <3>1 DEF Encloses
    <3>3. Depth(f, i) \in Int /\ Depth(f, j) \in Int /\ Depth(f, x) \in Int
      BY <1>1
    <3> QED BY <1>3, <3>2, <3>3
  <2> QED BY <2>1, <2>2
<1> QED BY <1>2, <1>4 DEF Encloses

(* What lies within a block, up to the next statement.                     *)
LEMMA WithinIs ==
  ASSUME NEW f, IsFile(f), NEW n \in Nat, NEW i, NEW kind
  PROVE  /\ Within(f, i, kind) \in SUBSET (1 .. Len(f))
         /\ Upto(Within(f, i, kind), n) \in SUBSET (1 .. n)
         /\ Before(Within(f, i, kind), n + 1) = Upto(Within(f, i, kind), n)
         /\ n + 1 \in Within(f, i, kind) =>
              Upto(Within(f, i, kind), n + 1) = Upto(Within(f, i, kind), n) \cup {n + 1}
         /\ n + 1 \notin Within(f, i, kind) =>
              Upto(Within(f, i, kind), n + 1) = Upto(Within(f, i, kind), n)
<1> DEFINE S == Within(f, i, kind)
<1>1. S \in SUBSET (1 .. Len(f)) /\ Len(f) \in Nat
  BY FileIs DEF Within
<1> HIDE DEF S
<1>2. \A j \in S : j \in Nat /\ j >= 1
  BY <1>1
<1>3. ASSUME NEW j \in S
      PROVE  /\ j < n + 1 <=> j <= n
             /\ j <= n + 1 <=> j <= n \/ j = n + 1
             /\ j <= n => j \in 1 .. n
  BY <1>2
<1>4. Upto(S, n) \in SUBSET (1 .. n)
  BY <1>3, Zenon DEF Upto
<1>5. Before(S, n + 1) = Upto(S, n)
  BY <1>3, Zenon DEF Upto, Before
<1>6. ASSUME n + 1 \in S PROVE Upto(S, n + 1) = Upto(S, n) \cup {n + 1}
  BY <1>3, <1>6, Zenon DEF Upto
<1>7. ASSUME n + 1 \notin S PROVE Upto(S, n + 1) = Upto(S, n)
  <2>1. \A j \in S : j <= n + 1 <=> j <= n
    BY <1>3, <1>7
  <2> QED BY <2>1, Zenon DEF Upto
<1> QED BY <1>1, <1>4, <1>5, <1>6, <1>7 DEF S

(* The same for what a protocol inherits and says itself.                  *)
LEMMA InheritedIs ==
  ASSUME NEW f, IsFile(f), NEW n \in Nat, NEW m \in Nat, m <= n, NEW kind
  PROVE  /\ Inherited(f, m, kind) \in SUBSET (1 .. Len(f))
         /\ Upto(Inherited(f, m, kind), n) \in SUBSET (1 .. n)
         /\ n + 1 \in Within(f, m, kind) =>
              Upto(Inherited(f, m, kind), n + 1) = Upto(Inherited(f, m, kind), n) \cup {n + 1}
         /\ n + 1 \notin Within(f, m, kind) =>
              Upto(Inherited(f, m, kind), n + 1) = Upto(Inherited(f, m, kind), n)
<1> DEFINE S == Inherited(f, m, kind)
           B == Before(Within(f, 0, kind), m)
<1>1. B \in SUBSET (1 .. Len(f)) /\ \A j \in B : j < m
  BY WithinIs DEF Before
<1>2. S = B \cup Within(f, m, kind) /\ Within(f, m, kind) \in SUBSET (1 .. Len(f))
  BY WithinIs DEF Inherited
<1>3. n + 1 \notin B
  <2> HIDE DEF B
  <2> SUFFICES ASSUME n + 1 \in B PROVE FALSE
    OBVIOUS
  <2>1. n + 1 < m
    BY <1>1
  <2> QED BY <2>1
<1> HIDE DEF B, S
<1>4. S \in SUBSET (1 .. Len(f)) /\ Len(f) \in Nat
  BY <1>1, <1>2, FileIs
<1>5. n + 1 \in S <=> n + 1 \in Within(f, m, kind)
  BY <1>2, <1>3
<1>6. \A j \in S : j \in Nat /\ j >= 1
  BY <1>4
<1>7. ASSUME NEW j \in S
      PROVE  /\ j <= n + 1 <=> j <= n \/ j = n + 1
             /\ j <= n => j \in 1 .. n
  BY <1>6
<1>8. Upto(S, n) \in SUBSET (1 .. n)
  BY <1>7, Zenon DEF Upto
<1>9. ASSUME n + 1 \in S PROVE Upto(S, n + 1) = Upto(S, n) \cup {n + 1}
  BY <1>7, <1>9, Zenon DEF Upto
<1>10. ASSUME n + 1 \notin S PROVE Upto(S, n + 1) = Upto(S, n)
  <2>1. \A j \in S : j <= n + 1 <=> j <= n
    BY <1>7, <1>10
  <2> QED BY <2>1, Zenon DEF Upto
<1> QED BY <1>4, <1>5, <1>8, <1>9, <1>10 DEF S

(* A word gives commands to its own block, and to no other.                *)
LEMMA CommandsStep ==
  ASSUME NEW f, IsFile(f), NEW n \in Nat, n + 1 \in DOMAIN f, NEW i \in DOMAIN f
  PROVE  /\ WordIn(f, i, n + 1) =>
              CommandsUpTo(f, n + 1)[i] = Cat(CommandsUpTo(f, n)[i], Means(f, n + 1))
         /\ ~WordIn(f, i, n + 1) => CommandsUpTo(f, n + 1)[i] = CommandsUpTo(f, n)[i]
<1>1. n \in 0 .. Len(f) - 1
  BY FileIs
<1> QED BY <1>1, CommandsUpToIs

(* A block has no commands before it is opened.                            *)
LEMMA CommandsBefore ==
  ASSUME NEW f, IsFile(f), NEW i \in DOMAIN f
  PROVE  CommandsUpTo(f, i)[i] = <<>>
<1>0. Len(f) \in Nat /\ DOMAIN f = 1 .. Len(f) /\ i \in Nat
  BY FileIs
<1> DEFINE Bad == {n \in 0 .. i : CommandsUpTo(f, n)[i] # <<>>}
<1>1. Bad = {}
  <2> SUFFICES ASSUME Bad # {} PROVE FALSE
    OBVIOUS
  <2>1. Bad \in SUBSET Nat
    BY <1>0
  <2>2. PICK m \in Bad : \A y \in Bad : m <= y
    <3> HIDE DEF Bad
    <3> QED BY <2>1, LeastNatural
  <2>3. m \in 0 .. i /\ CommandsUpTo(f, m)[i] # <<>>
    OBVIOUS
  <2>4. m # 0
    BY <2>3, CommandsUpToIs
  <2>5. m - 1 \in 0 .. i /\ m - 1 \in Nat /\ m - 1 + 1 = m /\ m \in DOMAIN f /\ m - 1 < m
    BY <1>0, <2>3, <2>4
  <2>6. CommandsUpTo(f, m - 1)[i] = <<>>
    <3>1. m - 1 \notin Bad
      <4> HIDE DEF Bad
      <4> QED BY <1>0, <2>1, <2>2, <2>5
    <3> QED BY <2>5, <3>1
  <2>7. ~WordIn(f, i, m)
    <3> SUFFICES ASSUME WordIn(f, i, m) PROVE FALSE
      OBVIOUS
    <3>1. i # 0 /\ BlockOf(f, m) = i
      BY <1>0 DEF WordIn
    <3>2. BlockOf(f, m) \in 0 .. m - 1
      BY <2>5, BlockIs
    <3> QED BY <1>0, <2>3, <3>1, <3>2
  <2>8. CommandsUpTo(f, m)[i] = CommandsUpTo(f, m - 1)[i]
    BY <2>5, <2>7, CommandsStep
  <2> QED BY <2>3, <2>6, <2>8
<1>2. i \in 0 .. i
  BY <1>0
<1> QED BY <1>1, <1>2

(* All that a closed block says has been read.                             *)
LEMMA CommandsSettled ==
  ASSUME NEW f, IsFile(f), NEW n \in 0 .. Len(f), NEW i \in Opening(f), i <= n, i \notin Open(f, n)
  PROVE  CommandsUpTo(f, n)[i] = CommandsIn(f)[i]
<1>0. Len(f) \in Nat /\ DOMAIN f = 1 .. Len(f) /\ i \in DOMAIN f /\ i # 0 /\ i \in Nat
  BY FileIs
<1> DEFINE Bad == {m \in n .. Len(f) : CommandsUpTo(f, m)[i] # CommandsUpTo(f, n)[i]}
<1>1. Bad = {}
  <2> SUFFICES ASSUME Bad # {} PROVE FALSE
    OBVIOUS
  <2>1. Bad \in SUBSET Nat
    BY <1>0
  <2>2. PICK m \in Bad : \A y \in Bad : m <= y
    <3> HIDE DEF Bad
    <3> QED BY <2>1, LeastNatural
  <2>3. m \in n .. Len(f) /\ CommandsUpTo(f, m)[i] # CommandsUpTo(f, n)[i]
    OBVIOUS
  <2>4. m # n
    BY <2>3
  <2>5. m - 1 \in n .. Len(f) /\ m - 1 \in Nat /\ m - 1 + 1 = m /\ m \in DOMAIN f /\ m - 1 < m /\ n < m
        /\ m \in Nat
    BY <1>0, <2>3, <2>4
  <2>6. CommandsUpTo(f, m - 1)[i] = CommandsUpTo(f, n)[i]
    <3>1. m - 1 \notin Bad
      <4> HIDE DEF Bad
      <4> QED BY <2>1, <2>2, <2>5
    <3> QED BY <2>5, <3>1
  <2>7. ~WordIn(f, i, m)
    <3> SUFFICES ASSUME WordIn(f, i, m) PROVE FALSE
      OBVIOUS
    <3>1. Encloses(f, i, m)
      BY <1>0, <2>5, BlockIs DEF WordIn
    <3> QED BY <2>5, <3>1, ClosedEncloses
  <2>8. CommandsUpTo(f, m)[i] = CommandsUpTo(f, m - 1)[i]
    BY <1>0, <2>5, <2>7, CommandsStep, SMTT(30)
  <2> QED BY <2>3, <2>6, <2>8
<1>2. Len(f) \in n .. Len(f)
  BY <1>0
<1>3. CommandsUpTo(f, Len(f))[i] = CommandsUpTo(f, n)[i]
  BY <1>1, <1>2
<1> QED BY <1>0, <1>3, CommandsUpToIs

(* The global settings, and a protocol, as far as n statements give them.  *)
Settings(name, variables, handlers, commands) ==
  [name |-> name, vars |-> variables, handlers |-> handlers, commands |-> commands]
GlobalsUpTo(f, n) ==
  Settings("",
    Entries(f, Upto(Within(f, 0, "assign"), n), Values(f)),
    Entries(f, Upto(Within(f, 0, "handler"), n), CommandsUpTo(f, n)),
    <<>>)
ProtocolUpTo(f, i, n) ==
  Settings(f[i].name,
    Entries(f, Upto(Inherited(f, i, "assign"), n), Values(f)),
    Entries(f, Upto(Inherited(f, i, "handler"), n), CommandsUpTo(f, n)),
    CommandsUpTo(f, n)[i])
Done(f, n) == {m \in Within(f, 0, "protocol") : m <= n /\ m \notin Open(f, n)}
Ended(f, n) == {ProtocolUpTo(f, m, n) : m \in Done(f, n)}

(* What statements do to them.                                             *)
Rename(s, x) == [s EXCEPT !.name = x]
SetVariable(s, x, y) == [s EXCEPT !.vars = CreateVariable(@, x, y)]
SetHandler(s, x, y) == [s EXCEPT !.handlers = CreateVariable(@, x, y)]
AddToHandler(s, x, y) == [s EXCEPT !.handlers[x] = @ \o y]
Extend(h, x, y) == [h EXCEPT ![x] = Cat(@, y)]
AddCommands(s, y) == [s EXCEPT !.commands = @ \o y]

(* More commands.                                                          *)
LEMMA AddCommandsIs ==
  ASSUME NEW a, NEW v, NEW h, NEW c, NEW y
  PROVE  AddCommands(Settings(a, v, h, c), y) = Settings(a, v, h, Cat(c, y))
BY DEF Settings, Cat, AddCommands

(* What each of them does to settings.                                     *)
LEMMA SettingsChange ==
  ASSUME NEW a, NEW v, NEW h, NEW c, NEW x, NEW y
  PROVE  /\ Settings(a, v, h, c).name = a /\ Settings(a, v, h, c).vars = v
         /\ Settings(a, v, h, c).handlers = h /\ Settings(a, v, h, c).commands = c
         /\ Rename(Settings(a, v, h, c), x) = Settings(x, v, h, c)
         /\ SetVariable(Settings(a, v, h, c), x, y) = Settings(a, CreateVariable(v, x, y), h, c)
         /\ SetHandler(Settings(a, v, h, c), x, y) = Settings(a, v, CreateVariable(h, x, y), c)
         /\ AddToHandler(Settings(a, v, h, c), x, y)
              = Settings(a, v, Extend(h, x, y), c)
         /\ AddCommands(Settings(a, v, h, c), y) = Settings(a, v, h, Cat(c, y))
<1>1. /\ Settings(a, v, h, c).name = a /\ Settings(a, v, h, c).vars = v
      /\ Settings(a, v, h, c).handlers = h /\ Settings(a, v, h, c).commands = c
  BY DEF Settings
<1>2. Rename(Settings(a, v, h, c), x) = Settings(x, v, h, c)
  BY DEF Settings, Rename
<1>3. SetVariable(Settings(a, v, h, c), x, y) = Settings(a, CreateVariable(v, x, y), h, c)
  BY DEF Settings, SetVariable
<1>4. SetHandler(Settings(a, v, h, c), x, y) = Settings(a, v, CreateVariable(h, x, y), c)
  BY DEF Settings, SetHandler
<1>5. AddToHandler(Settings(a, v, h, c), x, y) = Settings(a, v, Extend(h, x, y), c)
  BY DEF Settings, Cat, AddToHandler, Extend
<1>6. AddCommands(Settings(a, v, h, c), y) = Settings(a, v, h, Cat(c, y))
  BY AddCommandsIs
<1> QED BY <1>1, <1>2, <1>3, <1>4, <1>5, <1>6

(* A statement that is not global leaves the global settings alone.        *)
LEMMA GlobalsSame ==
  ASSUME NEW f, IsFile(f), NEW n \in Nat, n + 1 \in DOMAIN f,
         f[n + 1].is \in {"assign", "handler"} => BlockOf(f, n + 1) # 0,
         \A i \in Upto(Within(f, 0, "handler"), n) : ~WordIn(f, i, n + 1)
  PROVE  GlobalsUpTo(f, n + 1) = GlobalsUpTo(f, n)
<1>1. n + 1 \notin Within(f, 0, "assign") /\ n + 1 \notin Within(f, 0, "handler")
  BY DEF Within
<1>2. /\ Upto(Within(f, 0, "assign"), n + 1) = Upto(Within(f, 0, "assign"), n)
      /\ Upto(Within(f, 0, "handler"), n + 1) = Upto(Within(f, 0, "handler"), n)
  BY <1>1, WithinIs
<1>3. \A i \in Upto(Within(f, 0, "handler"), n) : CommandsUpTo(f, n)[i] = CommandsUpTo(f, n + 1)[i]
  BY CommandsStep DEF Upto, Within
<1>4. Upto(Within(f, 0, "handler"), n) \in SUBSET (1 .. n)
  BY WithinIs
<1>5. Entries(f, Upto(Within(f, 0, "handler"), n), CommandsUpTo(f, n + 1))
        = Entries(f, Upto(Within(f, 0, "handler"), n), CommandsUpTo(f, n))
  BY <1>3, <1>4, EntriesSame
<1> QED BY <1>2, <1>5 DEF GlobalsUpTo

(* A statement that does not lie in a protocol, nor in a handler that it   *)
(* has, leaves it alone.                                                   *)
LEMMA ProtocolSame ==
  ASSUME NEW f, IsFile(f), NEW n \in Nat, n + 1 \in DOMAIN f, NEW m \in 1 .. n,
         n + 1 \notin Within(f, m, "assign"), n + 1 \notin Within(f, m, "handler"),
         ~WordIn(f, m, n + 1),
         \A i \in Upto(Inherited(f, m, "handler"), n) : ~WordIn(f, i, n + 1)
  PROVE  ProtocolUpTo(f, m, n + 1) = ProtocolUpTo(f, m, n)
<1>1. m \in DOMAIN f /\ m \in Nat /\ m <= n
  BY FileIs
<1>2. /\ Upto(Inherited(f, m, "assign"), n + 1) = Upto(Inherited(f, m, "assign"), n)
      /\ Upto(Inherited(f, m, "handler"), n + 1) = Upto(Inherited(f, m, "handler"), n)
      /\ Upto(Inherited(f, m, "handler"), n) \in SUBSET (1 .. n)
  BY <1>1, InheritedIs
<1>3. \A i \in Upto(Inherited(f, m, "handler"), n) : i \in DOMAIN f
  <2>1. DOMAIN f = 1 .. Len(f) /\ Len(f) \in Nat
    BY FileIs
  <2> QED BY <1>2, <2>1
<1>4. \A i \in Upto(Inherited(f, m, "handler"), n) : CommandsUpTo(f, n)[i] = CommandsUpTo(f, n + 1)[i]
  BY <1>3, CommandsStep
<1>5. Entries(f, Upto(Inherited(f, m, "handler"), n), CommandsUpTo(f, n + 1))
        = Entries(f, Upto(Inherited(f, m, "handler"), n), CommandsUpTo(f, n))
  BY <1>2, <1>4, EntriesSame, ZenonT(60)
<1>6. CommandsUpTo(f, n + 1)[m] = CommandsUpTo(f, n)[m]
  BY <1>1, CommandsStep
<1> QED BY <1>2, <1>5, <1>6 DEF ProtocolUpTo

(* Nothing changes a protocol that has ended.                              *)
LEMMA DoneSame ==
  ASSUME NEW f, IsFile(f), NEW n \in Nat, n + 1 \in DOMAIN f, NEW m \in Done(f, n)
  PROVE  ProtocolUpTo(f, m, n + 1) = ProtocolUpTo(f, m, n) /\ m \in Done(f, n + 1)
<1>1. /\ m \in DOMAIN f /\ f[m].is = "protocol" /\ BlockOf(f, m) = 0 /\ m <= n /\ m \notin Open(f, n)
      /\ m \in Within(f, 0, "protocol")
  BY DEF Done, Within
<1>2. m \in Opening(f) /\ m \in Nat /\ m \in 1 .. n
  BY <1>1, FileIs DEF Opening
<1>3. ~Encloses(f, m, n + 1) /\ m \notin Open(f, n + 1)
  BY <1>1, <1>2, ClosedEncloses
<1>4. \A i \in DOMAIN f : BlockOf(f, n + 1) = i => i \in Opening(f) /\ Encloses(f, i, n + 1)
  BY FileIs, BlockIs
<1>5. BlockOf(f, n + 1) # m
  BY <1>1, <1>3, <1>4
<1>6. ASSUME NEW i \in Upto(Inherited(f, m, "handler"), n), WordIn(f, i, n + 1) PROVE FALSE
  <2>1. i \in DOMAIN f /\ i \in Nat /\ f[i].is = "handler"
        /\ ((BlockOf(f, i) = 0 /\ i < m) \/ BlockOf(f, i) = m)
    BY FileIs DEF Upto, Inherited, Before, Within
  <2>2. BlockOf(f, n + 1) = i
    BY <1>6 DEF WordIn
  <2>3. Encloses(f, i, n + 1) /\ i \in Opening(f)
    BY <1>4, <2>1, <2>2
  <2>4. CASE i < m
    <3>1. Encloses(f, i, m)
      <4>1. m <= n + 1 /\ n + 1 \in Nat
        BY <1>1, <1>2
      <4> QED BY <1>2, <2>1, <2>3, <2>4, <4>1, EnclosesPart
    <3>2. i <= 0
      BY <1>1, <2>3, <3>1, BlockIs
    <3> QED BY <2>1, <3>2, FileIs
  <2>5. CASE BlockOf(f, i) = m
    <3>1. Encloses(f, m, i)
      BY <1>2, <2>1, <2>5, BlockIs
    <3>2. Encloses(f, m, n + 1)
      <4>1. n + 1 \in Nat
        OBVIOUS
      <4> QED BY <1>2, <2>1, <2>3, <3>1, <4>1, EnclosesTransitive
    <3> QED BY <1>3, <3>2
  <2> QED BY <2>1, <2>4, <2>5
<1>7. /\ n + 1 \notin Within(f, m, "assign") /\ n + 1 \notin Within(f, m, "handler")
      /\ ~WordIn(f, m, n + 1)
  BY <1>5 DEF Within, WordIn
<1>8. ProtocolUpTo(f, m, n + 1) = ProtocolUpTo(f, m, n)
  BY <1>2, <1>6, <1>7, ProtocolSame
<1>9. m \in Done(f, n + 1)
  <2>1. m <= n + 1
    BY <1>2
  <2> QED BY <1>1, <1>3, <2>1 DEF Done
<1> QED BY <1>8, <1>9

-----------------------------------------------------------------------------
(* What the parser has got after n statements                              *)

(* After n statements of a file that is legal so far, at most a protocol p *)
(* and in it, or outside of all, a handler h are open; 0 is none.          *)
Blocks(f, n, p, h) ==
  /\ p \in 0 .. n /\ h \in 0 .. n
  /\ Open(f, n) = {p, h} \ {0}
  /\ Depth(f, n) = (IF p = 0 THEN 0 ELSE 1) + (IF h = 0 THEN 0 ELSE 1)
  /\ p # 0 => f[p].is = "protocol" /\ BlockOf(f, p) = 0 /\ Depth(f, p) = 1
  /\ h # 0 => f[h].is = "handler" /\ BlockOf(f, h) = p /\ p < h /\ Depth(f, h) = Depth(f, n)

(* What the parser has got by then.                                        *)
StateUpTo(f, n, p, h) ==
  [globals |-> GlobalsUpTo(f, n),
   protocols |-> Ended(f, n),
   body |-> IF p = 0 THEN Empty ELSE ProtocolUpTo(f, p, n),
   inside |-> p # 0,
   handler |-> IF h = 0 THEN "" ELSE f[h].name,
   valid |-> TRUE]

(* The next statement lies in the handler if there is one, else in the     *)
(* protocol, else in none.                                                 *)
LEMMA InnermostBlock ==
  ASSUME NEW f, IsFile(f), NEW n \in Nat, n + 1 \in DOMAIN f, n + 1 \notin Closing(f),
         NEW p, NEW h, Blocks(f, n, p, h)
  PROVE  /\ BlockOf(f, n + 1) = IF h # 0 THEN h ELSE p
         /\ IsHandler(f, BlockOf(f, n + 1)) <=> h # 0
<1>1. /\ BlockOf(f, n + 1) \in Open(f, n) \cup {0}
      /\ \A i \in Open(f, n) : i <= BlockOf(f, n + 1)
  BY BlockNext
<1>2. p \in Nat /\ h \in Nat /\ Open(f, n) = {p, h} \ {0} /\ (h # 0 => p < h)
  BY DEF Blocks
<1>3. BlockOf(f, n + 1) = IF h # 0 THEN h ELSE p
  BY <1>1, <1>2
<1>4. (h # 0 => f[h].is = "handler") /\ (p # 0 => f[p].is # "handler")
  BY DEF Blocks
<1> QED BY <1>3, <1>4 DEF IsHandler

(* How the parser tells which blocks are open.                             *)
LEMMA StateIs ==
  ASSUME NEW f, IsFile(f), NEW n \in Nat, NEW p, NEW h, Blocks(f, n, p, h)
  PROVE  LET s == StateUpTo(f, n, p, h) IN
         /\ InHandler(s) <=> h # 0
         /\ s.inside <=> p # 0
         /\ IsGlobal(s) <=> p = 0 /\ h = 0
         /\ Context(s) = IF p = 0 THEN GlobalsUpTo(f, n) ELSE ProtocolUpTo(f, p, n)
<1>1. h # 0 => h \in DOMAIN f /\ f[h].name # ""
  <2> SUFFICES ASSUME h # 0 PROVE h \in DOMAIN f /\ f[h].name # ""
    OBVIOUS
  <2>1. h \in DOMAIN f /\ f[h].is = "handler"
    BY FileIs DEF Blocks, Open
  <2> QED BY <2>1, StatementIs
<1> QED BY <1>1 DEF StateUpTo, InHandler, IsGlobal, Context

(* References to variables, and the value of an assignment.                *)
LEMMA GlobalVars ==
  ASSUME NEW f, IsFile(f), NEW n \in Nat
  PROVE  /\ DOMAIN GlobalsUpTo(f, n).vars = NamesIn(f, Before(Within(f, 0, "assign"), n + 1))
         /\ \A x \in DOMAIN GlobalsUpTo(f, n).vars :
              LET k == LastNamed(f, Before(Within(f, 0, "assign"), n + 1), x)
              IN  k # 0 /\ GlobalsUpTo(f, n).vars[x] = Values(f)[k]
<1> DEFINE S == Before(Within(f, 0, "assign"), n + 1)
<1>1. Upto(Within(f, 0, "assign"), n) = S /\ S \in SUBSET (1 .. n)
  BY WithinIs
<1>2. GlobalsUpTo(f, n).vars = Entries(f, S, Values(f))
  BY <1>1 DEF GlobalsUpTo, Settings
<1> HIDE DEF S
<1>3. GlobalsUpTo(f, n).vars = [x \in NamesIn(f, S) |-> Values(f)[LastNamed(f, S, x)]]
  BY <1>2 DEF Entries
<1>4. \A x \in NamesIn(f, S) : LastNamed(f, S, x) # 0
  BY <1>1, LastNamedIs
<1> QED BY <1>3, <1>4 DEF S

(* If the references of an assignment have been set globally, replacing    *)
(* them gives the value that the text means.                               *)
LEMMA AssignedValue ==
  ASSUME NEW f, IsFile(f), NEW n \in Nat, n + 1 \in DOMAIN f,
         References(f[n + 1].value) \subseteq DOMAIN GlobalsUpTo(f, n).vars
  PROVE  FlattenSeq([i \in DOMAIN f[n + 1].value |->
                       Replaced(GlobalsUpTo(f, n), f[n + 1].value[i])]) = Values(f)[n + 1]
<1> DEFINE value == f[n + 1].value
           S == Before(Within(f, 0, "assign"), n + 1)
           g == GlobalsUpTo(f, n)
           parts == ValueParts(f)
<1>1. parts[n + 1] = [i \in DOMAIN value |->
        [at |-> IF value[i].is = "var" THEN LastNamed(f, S, value[i].of) ELSE 0,
         own |-> <<value[i]>>]]
  BY DEF ValueParts
<1> HIDE DEF parts, value
<1>2. ASSUME NEW i \in DOMAIN value
      PROVE  Replaced(g, value[i]) =
               IF parts[n + 1][i].at = 0 THEN parts[n + 1][i].own
               ELSE Values(f)[parts[n + 1][i].at]
  <2>1. CASE value[i].is = "var"
    <3> DEFINE x == value[i].of
    <3>1. x \in References(value)
      BY <2>1 DEF References
    <3>2. x \in DOMAIN g.vars
      BY <3>1 DEF value
    <3>3. LastNamed(f, S, x) # 0 /\ g.vars[x] = Values(f)[LastNamed(f, S, x)]
      BY <3>2, GlobalVars
    <3>4. parts[n + 1][i].at = LastNamed(f, S, x)
      BY <1>1, <2>1
    <3>5. Replaced(g, value[i]) = g.vars[x]
      BY <2>1 DEF Replaced
    <3> HIDE DEF g, S, x
    <3> QED BY <3>3, <3>4, <3>5
  <2>2. CASE value[i].is # "var"
    BY <1>1, <2>2 DEF Replaced
  <2> QED BY <2>1, <2>2
<1>3. DOMAIN parts[n + 1] = DOMAIN value
  BY <1>1
<1>4. [i \in DOMAIN value |-> Replaced(g, value[i])] = Resolved(parts, Values(f), n + 1)
  <2> HIDE DEF g
  <2> QED BY <1>2, <1>3 DEF Resolved
<1>5. Values(f)[n + 1] = FlattenSeq(Resolved(parts, Values(f), n + 1))
  BY ValueIs DEF parts
<1> HIDE DEF g
<1>6. FlattenSeq([i \in DOMAIN value |-> Replaced(g, value[i])]) = Values(f)[n + 1]
  BY <1>4, <1>5
<1> QED BY <1>6 DEF g, value

-----------------------------------------------------------------------------
(* One statement: a protocol that is open, and what has been there before  *)

(* Protocols that have ended, and a block that is open, after a statement  *)
(* that ends none.                                                         *)
LEMMA DoneNext ==
  ASSUME NEW f, IsFile(f), NEW n \in Nat, n + 1 \in DOMAIN f, Open(f, n) \subseteq Open(f, n + 1),
         f[n + 1].is # "protocol" \/ n + 1 \in Open(f, n + 1)
  PROVE  /\ Done(f, n + 1) = Done(f, n)
         /\ Ended(f, n + 1) = Ended(f, n)
<1>1. ASSUME NEW m \in Done(f, n + 1) PROVE m \in Done(f, n)
  <2>1. m \in Within(f, 0, "protocol") /\ m <= n + 1 /\ m \notin Open(f, n + 1) /\ m \in Nat
    BY FileIs DEF Done, Within
  <2>2. m # n + 1
    BY <2>1 DEF Within
  <2> QED BY <2>1, <2>2 DEF Done
<1>2. Done(f, n + 1) = Done(f, n)
  BY <1>1, DoneSame
<1>3. \A m \in Done(f, n) : ProtocolUpTo(f, m, n + 1) = ProtocolUpTo(f, m, n)
  BY DoneSame
<1> QED BY <1>2, <1>3 DEF Ended

(* Statements in an open protocol do not change the global settings.       *)
LEMMA GlobalsInside ==
  ASSUME NEW f, IsFile(f), NEW n \in Nat, n + 1 \in DOMAIN f, n + 1 \notin Closing(f),
         NEW p, NEW h, Blocks(f, n, p, h), p # 0
  PROVE  GlobalsUpTo(f, n + 1) = GlobalsUpTo(f, n)
<1>1. BlockOf(f, n + 1) = IF h # 0 THEN h ELSE p
  BY InnermostBlock
<1>2. p \in Nat /\ h \in Nat
  BY DEF Blocks
<1>3. ASSUME NEW i \in Upto(Within(f, 0, "handler"), n), WordIn(f, i, n + 1) PROVE FALSE
  <2>1. f[i].is = "handler" /\ BlockOf(f, i) = 0 /\ BlockOf(f, n + 1) = i
    BY <1>3 DEF Upto, Within, WordIn
  <2>2. i # p
    BY <2>1 DEF Blocks
  <2>3. i = h /\ h # 0
    BY <1>1, <2>1, <2>2
  <2> QED BY <2>1, <2>3 DEF Blocks
<1> QED BY <1>1, <1>2, <1>3, GlobalsSame

(* h is the last handler there is.                                         *)
LEMMA LastHandler ==
  ASSUME NEW f, IsFile(f), NEW n \in Nat, NEW p, NEW h, Blocks(f, n, p, h), h # 0
  PROVE  /\ p = 0 => h \in Upto(Within(f, 0, "handler"), n)
                     /\ \A j \in Upto(Within(f, 0, "handler"), n) : j <= h
         /\ p # 0 => h \in Upto(Inherited(f, p, "handler"), n)
                     /\ \A j \in Upto(Inherited(f, p, "handler"), n) : j <= h
<1>0. /\ h \in Nat /\ p \in Nat /\ h <= n /\ p < h /\ h \in Open(f, n) /\ f[h].is = "handler"
      /\ BlockOf(f, h) = p
  BY DEF Blocks
<1>1. h \in Opening(f) /\ h \in DOMAIN f
  BY <1>0, FileIs DEF Open
<1>2. ASSUME NEW j \in DOMAIN f, j <= n, BlockOf(f, j) < h PROVE j <= h
  <2> SUFFICES ASSUME j > h PROVE FALSE
    BY <1>0, FileIs
  <2>1. j \in h + 1 .. n
    BY <1>0, <1>2, FileIs
  <2>2. Encloses(f, h, j)
    BY <1>0, <2>1, OpenEncloses
  <2>3. h <= BlockOf(f, j) /\ BlockOf(f, j) \in 0 .. j - 1 /\ j \in Nat
    BY <1>1, <2>2, BlockIs, FileIs
  <2> QED BY <1>0, <1>2, <2>3
<1>3. ASSUME p = 0
      PROVE  h \in Upto(Within(f, 0, "handler"), n) /\ \A j \in Upto(Within(f, 0, "handler"), n) : j <= h
  <2>1. h \in Upto(Within(f, 0, "handler"), n)
    BY <1>0, <1>1, <1>3 DEF Upto, Within
  <2>2. ASSUME NEW j \in Upto(Within(f, 0, "handler"), n) PROVE j <= h
    <3>1. j \in DOMAIN f /\ j <= n /\ BlockOf(f, j) = 0
      BY DEF Upto, Within
    <3> QED BY <1>0, <1>2, <1>3, <3>1
  <2> QED BY <2>1, <2>2
<1>4. ASSUME p # 0
      PROVE  h \in Upto(Inherited(f, p, "handler"), n)
             /\ \A j \in Upto(Inherited(f, p, "handler"), n) : j <= h
  <2>1. h \in Upto(Inherited(f, p, "handler"), n)
    BY <1>0, <1>1 DEF Upto, Within, Inherited
  <2>2. ASSUME NEW j \in Upto(Inherited(f, p, "handler"), n) PROVE j <= h
    <3>1. j \in DOMAIN f /\ j <= n /\ (BlockOf(f, j) = 0 \/ BlockOf(f, j) = p)
      BY DEF Upto, Within, Inherited, Before
    <3> QED BY <1>0, <1>2, <3>1
  <2> QED BY <2>1, <2>2
<1> QED BY <1>3, <1>4

(* How the open blocks change with the next statement.                     *)
LEMMA BlocksStep ==
  ASSUME NEW f, IsFile(f), NEW n \in Nat, n + 1 \in DOMAIN f, NEW p, NEW h, Blocks(f, n, p, h)
  PROVE  /\ n + 1 \notin Opening(f) \cup Closing(f) => Blocks(f, n + 1, p, h)
         /\ f[n + 1].is = "handler" /\ h = 0 => Blocks(f, n + 1, p, n + 1)
         /\ f[n + 1].is = "protocol" /\ p = 0 /\ h = 0 => Blocks(f, n + 1, n + 1, 0)
         /\ f[n + 1].is = "close" /\ h # 0 => Blocks(f, n + 1, p, 0)
         /\ f[n + 1].is = "close" /\ h = 0 /\ p # 0 => Blocks(f, n + 1, 0, 0)
<1>1. p \in Nat /\ h \in Nat /\ p <= n /\ h <= n
  BY DEF Blocks
<1>2. CASE n + 1 \notin Opening(f) \cup Closing(f)
  <2>1. Open(f, n + 1) = Open(f, n) /\ Depth(f, n + 1) = Depth(f, n)
    BY <1>2, OpenKinds, DepthStep
  <2>2. f[n + 1].is \notin {"handler", "protocol", "close"}
    BY <1>2 DEF Opening, Closing
  <2>3. p \in 0 .. n + 1 /\ h \in 0 .. n + 1
    BY <1>1
  <2> QED BY <2>1, <2>2, <2>3 DEF Blocks
<1>3. CASE f[n + 1].is = "handler"
  <2>1. n + 1 \in Opening(f)
    BY <1>3 DEF Opening
  <2>2. Open(f, n + 1) = Open(f, n) \cup {n + 1} /\ Depth(f, n + 1) = Depth(f, n) + 1
    BY <2>1, OpenKinds, DepthStep
  <2>3. n + 1 \notin Closing(f)
    BY <1>3 DEF Closing
  <2>4. h = 0 => BlockOf(f, n + 1) = p
    BY <2>3, InnermostBlock
  <2>5. p \in 0 .. n + 1 /\ n + 1 \in 0 .. n + 1 /\ p < n + 1 /\ n + 1 # 0
    BY <1>1
  <2>6. h = 0 => Blocks(f, n + 1, p, n + 1)
    BY <1>3, <2>2, <2>4, <2>5 DEF Blocks
  <2> QED BY <1>3, <2>1, <2>6
<1>4. CASE f[n + 1].is = "protocol"
  <2>1. n + 1 \in Opening(f)
    BY <1>4 DEF Opening
  <2>2. Open(f, n + 1) = Open(f, n) \cup {n + 1} /\ Depth(f, n + 1) = Depth(f, n) + 1
    BY <2>1, OpenKinds, DepthStep
  <2>3. n + 1 \notin Closing(f)
    BY <1>4 DEF Closing
  <2>4. p = 0 /\ h = 0 => BlockOf(f, n + 1) = 0
    BY <2>3, InnermostBlock
  <2>5. 0 \in 0 .. n + 1 /\ n + 1 \in 0 .. n + 1 /\ n + 1 # 0
    BY <1>1
  <2>6. p = 0 /\ h = 0 => Blocks(f, n + 1, n + 1, 0)
    BY <1>4, <2>2, <2>4, <2>5 DEF Blocks
  <2> QED BY <1>4, <2>1, <2>6
<1>5. CASE f[n + 1].is = "close"
  <2>1. n + 1 \in Closing(f)
    BY <1>5 DEF Closing
  <2>2. Open(f, n + 1) = {i \in Open(f, n) : Depth(f, i) <= Depth(f, n) - 1}
        /\ Depth(f, n + 1) = Depth(f, n) - 1
    BY <2>1, OpenKinds, DepthStep
  <2>3. p \in 0 .. n + 1 /\ 0 \in 0 .. n + 1
    BY <1>1
  <2>4. Open(f, n) = {p, h} \ {0}
    BY DEF Blocks
  <2>5. ASSUME h # 0 PROVE Blocks(f, n + 1, p, 0)
    <3>1. Depth(f, h) = Depth(f, n) /\ Depth(f, n) = 1 + (IF p = 0 THEN 0 ELSE 1)
          /\ (p # 0 => Depth(f, p) = 1)
      BY <2>5 DEF Blocks
    <3>2. ~(Depth(f, h) <= Depth(f, n) - 1) /\ (p # 0 => Depth(f, p) <= Depth(f, n) - 1)
      BY <3>1
    <3>3. Open(f, n + 1) = {p, 0} \ {0}
      BY <2>2, <2>4, <3>2
    <3>4. Depth(f, n + 1) = (IF p = 0 THEN 0 ELSE 1) + 0
      BY <2>2, <3>1
    <3> QED BY <2>3, <3>3, <3>4 DEF Blocks
  <2>6. ASSUME h = 0, p # 0 PROVE Blocks(f, n + 1, 0, 0)
    <3>1. Depth(f, n) = 1 /\ Depth(f, p) = 1
      BY <2>6 DEF Blocks
    <3>2. ~(Depth(f, p) <= Depth(f, n) - 1)
      BY <3>1
    <3>3. Open(f, n + 1) = {0, 0} \ {0}
      BY <2>2, <2>4, <2>6, <3>2
    <3>4. Depth(f, n + 1) = 0
      BY <2>2, <3>1
    <3> QED BY <2>3, <3>3, <3>4 DEF Blocks
  <2> QED BY <1>5, <2>1, <2>5, <2>6
<1> QED BY <1>2, <1>3, <1>4, <1>5 DEF Opening, Closing

(* The statement after n leads from what the first n give to what n + 1    *)
(* give, or it is not legal and the parser says so.                        *)
Follows(f, n, s) ==
  \/ /\ LegalAt(f, n + 1)
     /\ \E p, h \in Nat : Blocks(f, n + 1, p, h) /\ s = StateUpTo(f, n + 1, p, h)
  \/ ~LegalAt(f, n + 1) /\ ~s.valid

(* There is one function of the parser for each kind of statement.         *)
LEMMA ParseKinds ==
  ASSUME NEW f, NEW n, NEW p, NEW h, NEW st
  PROVE  LET s == StateUpTo(f, n, p, h) IN
         /\ st.is = "assign" => ParseStatement(s, st) = Assignment(s, st)
         /\ st.is = "handler" => ParseStatement(s, st) = HandlerDefinition(s, st)
         /\ st.is = "protocol" => ParseStatement(s, st) = ProtocolDefinition(s, st)
         /\ st.is = "close" => ParseStatement(s, st) = BlockEnd(s)
         /\ st.is = "word" => ParseStatement(s, st) = CommandOrReference(s, st)
         /\ st.is = "junk" => ParseStatement(s, st) = Invalid(s)
<1> DEFINE s == StateUpTo(f, n, p, h)
<1>1. s.valid = TRUE
  BY DEF StateUpTo
<1> HIDE DEF s
<1>2. /\ st.is = "assign" => ParseStatement(s, st) = Assignment(s, st)
      /\ st.is = "handler" => ParseStatement(s, st) = HandlerDefinition(s, st)
      /\ st.is = "protocol" => ParseStatement(s, st) = ProtocolDefinition(s, st)
      /\ st.is = "close" => ParseStatement(s, st) = BlockEnd(s)
      /\ st.is = "word" => ParseStatement(s, st) = CommandOrReference(s, st)
      /\ st.is = "junk" => ParseStatement(s, st) = Invalid(s)
  BY <1>1 DEF ParseStatement
<1> QED BY <1>2 DEF s

(* An error is an error.                                                   *)
LEMMA InvalidIs ==
  ASSUME NEW f, NEW n, NEW p, NEW h
  PROVE  ~Invalid(StateUpTo(f, n, p, h)).valid
BY DEF Invalid, StateUpTo

-----------------------------------------------------------------------------
(* Assignments                                                             *)

(* What counts at a place: the settings of the open protocol p, or the     *)
(* global ones.                                                            *)
ContextUpTo(f, n, p) ==
  Settings(IF p = 0 THEN "" ELSE f[p].name,
    Entries(f, Upto(Inherited(f, p, "assign"), n), Values(f)),
    Entries(f, Upto(Inherited(f, p, "handler"), n), CommandsUpTo(f, n)),
    IF p = 0 THEN <<>> ELSE CommandsUpTo(f, n)[p])

(* The global settings inherit nothing.                                    *)
LEMMA InheritedGlobal ==
  ASSUME NEW f, IsFile(f), NEW kind
  PROVE  Inherited(f, 0, kind) = Within(f, 0, kind)
<1>1. \A j \in Within(f, 0, kind) : ~(j < 0)
  BY FileIs DEF Within
<1>2. Before(Within(f, 0, kind), 0) = {}
  BY <1>1 DEF Before
<1> QED BY <1>2 DEF Inherited

(* It is one of the two.                                                   *)
LEMMA ContextIs ==
  ASSUME NEW f, IsFile(f), NEW n \in Nat, NEW p \in Nat
  PROVE  /\ p = 0 => GlobalsUpTo(f, n) = ContextUpTo(f, n, p)
         /\ p # 0 => ProtocolUpTo(f, p, n) = ContextUpTo(f, n, p)
<1>1. \A kind : Inherited(f, 0, kind) = Within(f, 0, kind)
  BY InheritedGlobal
<1>2. p = 0 => GlobalsUpTo(f, n) = ContextUpTo(f, n, p)
  BY <1>1 DEF GlobalsUpTo, ContextUpTo
<1>3. p # 0 => ProtocolUpTo(f, p, n) = ContextUpTo(f, n, p)
  BY DEF ProtocolUpTo, ContextUpTo
<1> QED BY <1>2, <1>3

(* The parser has it as its context.                                       *)
LEMMA StateContext ==
  ASSUME NEW f, IsFile(f), NEW n \in Nat, n + 1 \in DOMAIN f, NEW p, NEW h, Blocks(f, n, p, h)
  PROVE  Context(StateUpTo(f, n, p, h)) = ContextUpTo(f, n, p)
<1>1. p \in Nat
  BY DEF Blocks
<1> QED BY <1>1, StateIs, ContextIs

(* A change of the context, in an open protocol or outside of all.         *)
LEMMA ChangedContext ==
  ASSUME NEW f, IsFile(f), NEW n \in Nat, n + 1 \in DOMAIN f, n + 1 \notin Closing(f),
         f[n + 1].is # "protocol", NEW p, NEW h, Blocks(f, n, p, h)
  PROVE  /\ Change(StateUpTo(f, n, p, h), ContextUpTo(f, n + 1, p)) = StateUpTo(f, n + 1, p, h)
         /\ Ended(f, n + 1) = Ended(f, n)
<1>1. Ended(f, n + 1) = Ended(f, n)
  <2>1. Open(f, n) \subseteq Open(f, n + 1)
    <3>1. CASE n + 1 \in Opening(f)
      BY <3>1, OpenKinds
    <3>2. CASE n + 1 \notin Opening(f)
      BY <3>2, OpenKinds
    <3> QED BY <3>1, <3>2
  <2> QED BY <2>1, DoneNext
<1>2. p \in Nat
  BY DEF Blocks
<1>3. CASE p = 0
  <2>1. ContextUpTo(f, n + 1, p) = GlobalsUpTo(f, n + 1)
    BY <1>3, ContextIs
  <2> QED BY <1>1, <1>3, <2>1 DEF Change, StateUpTo
<1>4. CASE p # 0
  <2>1. ContextUpTo(f, n + 1, p) = ProtocolUpTo(f, p, n + 1)
    BY <1>2, <1>4, ContextIs
  <2>2. GlobalsUpTo(f, n + 1) = GlobalsUpTo(f, n)
    BY <1>4, GlobalsInside
  <2> QED BY <1>1, <1>4, <2>1, <2>2 DEF Change, StateUpTo
<1> QED BY <1>3, <1>4, <1>1

(* What the statement n + 1 does to the sets of what counts.               *)
LEMMA ContextSets ==
  ASSUME NEW f, IsFile(f), NEW n \in Nat, n + 1 \in DOMAIN f, n + 1 \notin Closing(f),
         NEW p, NEW h, Blocks(f, n, p, h)
  PROVE  /\ p \in Nat /\ p <= n /\ (p # 0 => p \in DOMAIN f)
         /\ \A kind : LET S == Upto(Inherited(f, p, kind), n) IN
              /\ S \in SUBSET (1 .. n) /\ S \subseteq DOMAIN f
              /\ h = 0 /\ f[n + 1].is = kind => Upto(Inherited(f, p, kind), n + 1) = S \cup {n + 1}
              /\ f[n + 1].is # kind => Upto(Inherited(f, p, kind), n + 1) = S
<1>1. p \in Nat /\ p <= n
  BY DEF Blocks
<1>2. DOMAIN f = 1 .. Len(f) /\ Len(f) \in Nat
  BY FileIs
<1>3. h = 0 => BlockOf(f, n + 1) = p
  BY InnermostBlock
<1>4. ASSUME NEW kind
      PROVE  LET S == Upto(Inherited(f, p, kind), n) IN
             /\ S \in SUBSET (1 .. n) /\ S \subseteq DOMAIN f
             /\ h = 0 /\ f[n + 1].is = kind => Upto(Inherited(f, p, kind), n + 1) = S \cup {n + 1}
             /\ f[n + 1].is # kind => Upto(Inherited(f, p, kind), n + 1) = S
  <2> DEFINE S == Upto(Inherited(f, p, kind), n)
  <2>1. /\ S \in SUBSET (1 .. n)
        /\ n + 1 \in Within(f, p, kind) => Upto(Inherited(f, p, kind), n + 1) = S \cup {n + 1}
        /\ n + 1 \notin Within(f, p, kind) => Upto(Inherited(f, p, kind), n + 1) = S
    BY <1>1, InheritedIs
  <2>2. S \subseteq DOMAIN f
    <3> HIDE DEF S
    <3>1. n <= Len(f)
      BY <1>2
    <3> QED BY <1>2, <2>1, <3>1
  <2>3. h = 0 /\ f[n + 1].is = kind => n + 1 \in Within(f, p, kind)
    BY <1>3 DEF Within
  <2>4. f[n + 1].is # kind => n + 1 \notin Within(f, p, kind)
    BY DEF Within
  <2> HIDE DEF S
  <2>5. /\ S \in SUBSET (1 .. n) /\ S \subseteq DOMAIN f
        /\ h = 0 /\ f[n + 1].is = kind => Upto(Inherited(f, p, kind), n + 1) = S \cup {n + 1}
        /\ f[n + 1].is # kind => Upto(Inherited(f, p, kind), n + 1) = S
    BY <2>1, <2>2, <2>3, <2>4
  <2> QED BY <2>5 DEF S
<1>5. p # 0 => p \in DOMAIN f
  BY <1>1, <1>2
<1> QED BY <1>1, <1>4, <1>5

(* The context after an assignment.                                        *)
LEMMA AssignedContext ==
  ASSUME NEW f, IsFile(f), NEW n \in Nat, n + 1 \in DOMAIN f, f[n + 1].is = "assign",
         NEW p, Blocks(f, n, p, 0)
  PROVE  SetVariable(ContextUpTo(f, n, p), f[n + 1].name, Values(f)[n + 1]) = ContextUpTo(f, n + 1, p)
<1> DEFINE S == Upto(Inherited(f, p, "assign"), n)
           H == Upto(Inherited(f, p, "handler"), n)
           a0 == IF p = 0 THEN "" ELSE f[p].name
           v == Values(f)
           v0 == Entries(f, S, v)
           v1 == Entries(f, S \cup {n + 1}, v)
           h0 == Entries(f, H, CommandsUpTo(f, n))
           c0 == IF p = 0 THEN <<>> ELSE CommandsUpTo(f, n)[p]
<1>1. n + 1 \notin Closing(f)
  BY DEF Closing
<1>2. /\ p \in Nat /\ p <= n /\ (p # 0 => p \in DOMAIN f)
      /\ S \in SUBSET (1 .. n) /\ Upto(Inherited(f, p, "assign"), n + 1) = S \cup {n + 1}
      /\ H \in SUBSET (1 .. n) /\ H \subseteq DOMAIN f /\ Upto(Inherited(f, p, "handler"), n + 1) = H
  BY <1>1, ContextSets
<1>3. \A i : ~WordIn(f, i, n + 1)
  BY DEF WordIn
<1>4. CreateVariable(v0, f[n + 1].name, v[n + 1]) = v1
  <2>1. \A j \in S : v[j] = v[j]
    OBVIOUS
  <2> HIDE DEF S, v
  <2> QED BY <1>2, <2>1, EntriesAdd
<1>5. Entries(f, H, CommandsUpTo(f, n + 1)) = h0
  <2> DEFINE u == CommandsUpTo(f, n)
             w == CommandsUpTo(f, n + 1)
  <2>1. \A i \in H : u[i] = w[i]
    <3> HIDE DEF H
    <3> QED BY <1>2, <1>3, CommandsStep
  <2>2. H \in SUBSET (1 .. n)
    BY <1>2
  <2> HIDE DEF H, u, w
  <2>3. Entries(f, H, w) = Entries(f, H, u)
    BY <2>1, <2>2, EntriesSame
  <2> QED BY <2>3 DEF u, w
<1>6. p # 0 => CommandsUpTo(f, n + 1)[p] = CommandsUpTo(f, n)[p]
  BY <1>2, <1>3, CommandsStep
<1>7. ContextUpTo(f, n, p) = Settings(a0, v0, h0, c0)
  BY DEF ContextUpTo
<1>8. ContextUpTo(f, n + 1, p) = Settings(a0, v1, h0, c0)
  BY <1>2, <1>5, <1>6 DEF ContextUpTo
<1> DEFINE x0 == f[n + 1].name
           y0 == v[n + 1]
<1> HIDE DEF a0, v0, v1, h0, c0, x0, y0
<1>9. SetVariable(Settings(a0, v0, h0, c0), x0, y0) = Settings(a0, CreateVariable(v0, x0, y0), h0, c0)
  BY DEF SetVariable, Settings
<1> QED BY <1>4, <1>7, <1>8, <1>9 DEF x0, y0

(* An assignment is a variable of the context, if its references are       *)
(* known.                                                                  *)
LEMMA AssignmentFollows ==
  ASSUME NEW f, IsFile(f), NEW n \in Nat, n + 1 \in DOMAIN f, f[n + 1].is = "assign",
         NEW p, NEW h, Blocks(f, n, p, h)
  PROVE  Follows(f, n, ParseStatement(StateUpTo(f, n, p, h), f[n + 1]))
<1> DEFINE s == StateUpTo(f, n, p, h)
           st == f[n + 1]
           B == Before(Within(f, 0, "assign"), n + 1)
<1>1. n + 1 \notin Closing(f) /\ n + 1 \notin Opening(f)
  BY DEF Closing, Opening
<1>2. /\ BlockOf(f, n + 1) = IF h # 0 THEN h ELSE p
      /\ IsHandler(f, BlockOf(f, n + 1)) <=> h # 0
      /\ p \in Nat /\ h \in Nat
  <2>1. /\ BlockOf(f, n + 1) = IF h # 0 THEN h ELSE p
        /\ IsHandler(f, BlockOf(f, n + 1)) <=> h # 0
    BY <1>1, InnermostBlock
  <2>2. p \in Nat /\ h \in Nat
    BY DEF Blocks
  <2> QED BY <2>1, <2>2
<1>3. Depth(f, n + 1) >= 0
  <2>1. Depth(f, n + 1) = Depth(f, n)
    BY <1>1, DepthStep
  <2> QED BY <2>1 DEF Blocks
<1>4. s.globals = GlobalsUpTo(f, n) /\ DOMAIN s.globals.vars = NamesIn(f, B)
  BY GlobalVars DEF StateUpTo
<1>5. InHandler(s) <=> h # 0
  BY StateIs
<1>6. ParseStatement(s, st) = Assignment(s, st)
  BY ParseKinds
<1>7. LegalAt(f, n + 1) <=> /\ h = 0 /\ Parsable(st.value)
                            /\ References(st.value) \subseteq NamesIn(f, B)
  <2> HIDE DEF B
  <2> QED BY <1>2, <1>3 DEF LegalAt, Parsable, B
<1>8. References(st.value) \subseteq NamesIn(f, B) <=>
        ~\E i \in DOMAIN st.value :
          st.value[i].is = "var" /\ st.value[i].of \notin DOMAIN s.globals.vars
  <2> HIDE DEF B, st, s
  <2> QED BY <1>4 DEF References
<1>9. CASE ~LegalAt(f, n + 1)
  <2>1. Assignment(s, st) = Invalid(s)
    <3> HIDE DEF s, st, B
    <3> QED BY <1>5, <1>7, <1>8, <1>9 DEF Assignment
  <2> QED BY <1>6, <1>9, <2>1, InvalidIs DEF Follows
<1>10. CASE LegalAt(f, n + 1)
  <2> DEFINE value == FlattenSeq([i \in DOMAIN st.value |-> Replaced(s.globals, st.value[i])])
             c == SetVariable(Context(s), st.name, value)
  <2>1. Assignment(s, st) = Change(s, c)
    <3> HIDE DEF s, st, B
    <3> QED BY <1>5, <1>7, <1>8, <1>10 DEF Assignment, SetVariable
  <2>2. value = Values(f)[n + 1]
    <3>1. References(st.value) \subseteq DOMAIN GlobalsUpTo(f, n).vars
      BY <1>4, <1>7, <1>10
    <3> QED BY <1>4, <3>1, AssignedValue
  <2>3. h = 0
    BY <1>7, <1>10
  <2>4. c = ContextUpTo(f, n + 1, p)
    <3>1. Context(s) = ContextUpTo(f, n, p)
      BY StateContext
    <3>2. SetVariable(ContextUpTo(f, n, p), f[n + 1].name, Values(f)[n + 1]) = ContextUpTo(f, n + 1, p)
      BY <2>3, AssignedContext
    <3> HIDE DEF value, s
    <3> QED BY <2>2, <3>1, <3>2
  <2>5. Change(s, c) = StateUpTo(f, n + 1, p, h)
    BY <1>1, <2>4, ChangedContext
  <2>6. Blocks(f, n + 1, p, h)
    BY <1>1, BlocksStep
  <2> HIDE DEF s, st, c
  <2> QED BY <1>2, <1>6, <1>10, <2>1, <2>5, <2>6 DEF Follows, s, st
<1> QED BY <1>9, <1>10

-----------------------------------------------------------------------------
(* Handlers and protocols begin                                            *)

(* The state of the parser, and how the beginning of a block changes it.   *)
Parsing(g, ended, b, i, h, v) ==
  [globals |-> g, protocols |-> ended, body |-> b, inside |-> i, handler |-> h, valid |-> v]
Begins(s, i, b) == [s EXCEPT !.inside = i, !.body = b]
Names(s, h) == [s EXCEPT !.handler = h]
Ends(s, i, b) == [s EXCEPT !.inside = i, !.body = b, !.protocols = @ \cup {s.body}]

(* A handler begins or ends ...                                            *)
LEMMA NamesIs ==
  ASSUME NEW g, NEW ended, NEW b, NEW i, NEW h, NEW v, NEW x
  PROVE  Names(Parsing(g, ended, b, i, h, v), x) = Parsing(g, ended, b, i, x, v)
BY DEF Names, Parsing

(* ... a protocol begins ...                                               *)
LEMMA BeginsIs ==
  ASSUME NEW g, NEW ended, NEW b, NEW i, NEW h, NEW v, NEW x, NEW y
  PROVE  Begins(Parsing(g, ended, b, i, h, v), y, x) = Parsing(g, ended, x, y, h, v)
<1>1. [Parsing(g, ended, b, i, h, v) EXCEPT !.inside = y] = Parsing(g, ended, b, y, h, v)
  BY DEF Parsing
<1>2. [Parsing(g, ended, b, y, h, v) EXCEPT !.body = x] = Parsing(g, ended, x, y, h, v)
  BY DEF Parsing
<1>3. \A s : Begins(s, y, x) = [[s EXCEPT !.inside = y] EXCEPT !.body = x]
  BY DEF Begins
<1> QED BY <1>1, <1>2, <1>3

(* ... and a protocol ends, among those that have ended before.            *)
LEMMA EndsIs ==
  ASSUME NEW g, NEW ended, NEW b, NEW i, NEW h, NEW v, NEW x, NEW y
  PROVE  Ends(Parsing(g, ended, b, i, h, v), y, x) = Parsing(g, ended \cup {b}, x, y, h, v)
<1> DEFINE e == ended \cup {b}
<1>0. /\ Parsing(g, ended, b, i, h, v).protocols = ended
      /\ Parsing(g, ended, b, i, h, v).body = b
  BY DEF Parsing
<1>1. \A s : Ends(s, y, x) = Begins([s EXCEPT !.protocols = s.protocols \cup {s.body}], y, x)
  BY DEF Ends, Begins
<1>2. Ends(Parsing(g, ended, b, i, h, v), y, x)
        = Begins([Parsing(g, ended, b, i, h, v) EXCEPT !.protocols = e], y, x)
  BY <1>0, <1>1
<1> HIDE DEF e
<1>3. [Parsing(g, ended, b, i, h, v) EXCEPT !.protocols = e] = Parsing(g, e, b, i, h, v)
  BY DEF Parsing
<1>4. Begins(Parsing(g, e, b, i, h, v), y, x) = Parsing(g, e, x, y, h, v)
  BY BeginsIs
<1> QED BY <1>2, <1>3, <1>4 DEF e

(* What the first statements give is a state of the parser.                *)
LEMMA StateParsing ==
  ASSUME NEW f, NEW n, NEW p, NEW h
  PROVE  StateUpTo(f, n, p, h) =
           Parsing(GlobalsUpTo(f, n), Ended(f, n), IF p = 0 THEN Empty ELSE ProtocolUpTo(f, p, n),
                   p # 0, IF h = 0 THEN "" ELSE f[h].name, TRUE)
BY DEF StateUpTo, Parsing

(* The context after the beginning of a handler.                           *)
LEMMA HandlerContext ==
  ASSUME NEW f, IsFile(f), NEW n \in Nat, n + 1 \in DOMAIN f, f[n + 1].is = "handler",
         NEW p, Blocks(f, n, p, 0)
  PROVE  SetHandler(ContextUpTo(f, n, p), f[n + 1].name, <<>>) = ContextUpTo(f, n + 1, p)
<1> DEFINE S == Upto(Inherited(f, p, "assign"), n)
           H == Upto(Inherited(f, p, "handler"), n)
           u == CommandsUpTo(f, n)
           w == CommandsUpTo(f, n + 1)
           a0 == IF p = 0 THEN "" ELSE f[p].name
           v0 == Entries(f, S, Values(f))
           h0 == Entries(f, H, u)
           h1 == Entries(f, H \cup {n + 1}, w)
           c0 == IF p = 0 THEN <<>> ELSE u[p]
<1>1. n + 1 \notin Closing(f)
  BY DEF Closing
<1>2. /\ p \in Nat /\ p <= n /\ (p # 0 => p \in DOMAIN f)
      /\ Upto(Inherited(f, p, "assign"), n + 1) = S
      /\ H \in SUBSET (1 .. n) /\ H \subseteq DOMAIN f
      /\ Upto(Inherited(f, p, "handler"), n + 1) = H \cup {n + 1}
  BY <1>1, ContextSets
<1>3. \A i \in DOMAIN f : w[i] = u[i]
  <2>1. \A i : ~WordIn(f, i, n + 1)
    BY DEF WordIn
  <2> QED BY <2>1, CommandsStep
<1>4. w[n + 1] = <<>>
  BY CommandsBefore
<1>5. CreateVariable(h0, f[n + 1].name, <<>>) = h1
  <2>1. \A j \in H : u[j] = w[j]
    BY <1>2, <1>3
  <2> HIDE DEF H, u, w
  <2>2. CreateVariable(Entries(f, H, u), f[n + 1].name, w[n + 1]) = Entries(f, H \cup {n + 1}, w)
    BY <1>2, <2>1, EntriesAdd
  <2> QED BY <1>4, <2>2
<1>6. p # 0 => w[p] = u[p]
  BY <1>2, <1>3
<1>7. ContextUpTo(f, n, p) = Settings(a0, v0, h0, c0)
  BY DEF ContextUpTo
<1>8. ContextUpTo(f, n + 1, p) = Settings(a0, v0, h1, c0)
  BY <1>2, <1>6 DEF ContextUpTo
<1> DEFINE x0 == f[n + 1].name
           y0 == <<>>
<1> HIDE DEF a0, v0, h0, h1, c0, x0, y0
<1>9. SetHandler(Settings(a0, v0, h0, c0), x0, y0) = Settings(a0, v0, CreateVariable(h0, x0, y0), c0)
  BY DEF SetHandler, Settings
<1> QED BY <1>5, <1>7, <1>8, <1>9 DEF x0, y0

(* A handler begins, but not within another.                               *)
LEMMA HandlerFollows ==
  ASSUME NEW f, IsFile(f), NEW n \in Nat, n + 1 \in DOMAIN f, f[n + 1].is = "handler",
         NEW p, NEW h, Blocks(f, n, p, h)
  PROVE  Follows(f, n, ParseStatement(StateUpTo(f, n, p, h), f[n + 1]))
<1> DEFINE s == StateUpTo(f, n, p, h)
           st == f[n + 1]
<1>1. n + 1 \notin Closing(f) /\ n + 1 \in Opening(f)
  BY FileIs DEF Closing, Opening
<1>2. p \in Nat /\ h \in Nat
  BY DEF Blocks
<1>3. IsHandler(f, BlockOf(f, n + 1)) <=> h # 0
  BY <1>1, InnermostBlock
<1>4. Depth(f, n + 1) >= 0
  <2>1. Depth(f, n + 1) = Depth(f, n) + 1
    BY <1>1, DepthStep
  <2> QED BY <2>1 DEF Blocks
<1>5. InHandler(s) <=> h # 0
  BY StateIs
<1>6. ParseStatement(s, st) = HandlerDefinition(s, st)
  BY ParseKinds
<1>7. LegalAt(f, n + 1) <=> h = 0
  BY <1>3, <1>4 DEF LegalAt
<1>8. CASE h # 0
  <2>1. HandlerDefinition(s, st) = Invalid(s)
    <3> HIDE DEF s, st
    <3> QED BY <1>5, <1>8 DEF HandlerDefinition
  <2> QED BY <1>6, <1>7, <1>8, <2>1, InvalidIs DEF Follows
<1>9. CASE h = 0
  <2> DEFINE c == SetHandler(Context(s), st.name, <<>>)
  <2>1. HandlerDefinition(s, st) = Names(Change(s, c), st.name)
    <3> HIDE DEF s, st
    <3> QED BY <1>5, <1>9 DEF HandlerDefinition, SetHandler, Names
  <2>2. c = ContextUpTo(f, n + 1, p)
    <3>1. Context(s) = ContextUpTo(f, n, p)
      BY StateContext
    <3> HIDE DEF s
    <3> QED BY <1>9, <3>1, HandlerContext
  <2>3. Change(s, c) = StateUpTo(f, n + 1, p, h)
    BY <1>1, <2>2, ChangedContext
  <2>4. Names(StateUpTo(f, n + 1, p, h), f[n + 1].name) = StateUpTo(f, n + 1, p, n + 1)
    <3> DEFINE g0 == GlobalsUpTo(f, n + 1)
               e0 == Ended(f, n + 1)
               b0 == IF p = 0 THEN Empty ELSE ProtocolUpTo(f, p, n + 1)
               i0 == p # 0
               h0 == IF h = 0 THEN "" ELSE f[h].name
               v0 == TRUE
               x0 == f[n + 1].name
    <3>1. StateUpTo(f, n + 1, p, h) = Parsing(g0, e0, b0, i0, h0, v0)
      BY StateParsing
    <3>2. StateUpTo(f, n + 1, p, n + 1) = Parsing(g0, e0, b0, i0, x0, v0)
      <4>1. n + 1 # 0
        OBVIOUS
      <4> QED BY <4>1 DEF StateUpTo, Parsing
    <3> HIDE DEF g0, e0, b0, i0, h0, v0, x0
    <3>3. Names(Parsing(g0, e0, b0, i0, h0, v0), x0) = Parsing(g0, e0, b0, i0, x0, v0)
      BY NamesIs
    <3> QED BY <3>1, <3>2, <3>3 DEF x0
  <2>5. Blocks(f, n + 1, p, n + 1)
    BY <1>9, BlocksStep
  <2> HIDE DEF s, c
  <2>6. ParseStatement(s, st) = StateUpTo(f, n + 1, p, n + 1)
    BY <1>6, <2>1, <2>3, <2>4
  <2>7. n + 1 \in Nat
    OBVIOUS
  <2> QED BY <1>2, <1>7, <1>9, <2>5, <2>6, <2>7 DEF Follows, s
<1> QED BY <1>8, <1>9

(* The protocols of a name that have ended.                                *)
LEMMA NamedEnded ==
  ASSUME NEW f, NEW n, NEW name
  PROVE  Named(Ended(f, n), name) = {ProtocolUpTo(f, m, n) : m \in {k \in Done(f, n) : f[k].name = name}}
<1>1. \A m : ProtocolUpTo(f, m, n).name = f[m].name
  BY DEF ProtocolUpTo, Settings
<1> QED BY <1>1, Zenon DEF Named, Ended

(* A protocol that begins has inherited what is global.                    *)
LEMMA ProtocolBegins ==
  ASSUME NEW f, IsFile(f), NEW n \in Nat, n + 1 \in DOMAIN f, f[n + 1].is = "protocol"
  PROVE  /\ GlobalsUpTo(f, n + 1) = GlobalsUpTo(f, n)
         /\ Rename(GlobalsUpTo(f, n), f[n + 1].name) = ProtocolUpTo(f, n + 1, n + 1)
<1>1. \A i : ~WordIn(f, i, n + 1)
  BY DEF WordIn
<1>2. GlobalsUpTo(f, n + 1) = GlobalsUpTo(f, n)
  BY <1>1, GlobalsSame
<1>3. ASSUME NEW kind PROVE Upto(Inherited(f, n + 1, kind), n + 1) = Upto(Within(f, 0, kind), n)
  <2>1. Before(Within(f, 0, kind), n + 1) = Upto(Within(f, 0, kind), n)
    BY WithinIs
  <2>2. ASSUME NEW j \in Within(f, n + 1, kind), j <= n + 1 PROVE FALSE
    <3>1. j \in DOMAIN f /\ BlockOf(f, j) = n + 1 /\ j \in Nat
      BY FileIs DEF Within
    <3>2. BlockOf(f, j) \in 0 .. j - 1
      BY <3>1, BlockIs
    <3> QED BY <2>2, <3>1, <3>2
  <2>3. \A j \in Upto(Within(f, 0, kind), n) : j <= n + 1
    <3>1. Upto(Within(f, 0, kind), n) \in SUBSET (1 .. n)
      BY WithinIs
    <3> HIDE DEF Upto
    <3> QED BY <3>1
  <2>4. Inherited(f, n + 1, kind) = Upto(Within(f, 0, kind), n) \cup Within(f, n + 1, kind)
    BY <2>1 DEF Inherited
  <2> QED BY <2>2, <2>3, <2>4 DEF Upto
<1>4. CommandsUpTo(f, n + 1)[n + 1] = <<>>
  BY CommandsBefore
<1>5. ProtocolUpTo(f, n + 1, n + 1) =
        Settings(f[n + 1].name,
          Entries(f, Upto(Within(f, 0, "assign"), n), Values(f)),
          Entries(f, Upto(Within(f, 0, "handler"), n), CommandsUpTo(f, n + 1)), <<>>)
  BY <1>3, <1>4 DEF ProtocolUpTo
<1>6. GlobalsUpTo(f, n + 1) =
        Settings("",
          Entries(f, Upto(Within(f, 0, "assign"), n), Values(f)),
          Entries(f, Upto(Within(f, 0, "handler"), n), CommandsUpTo(f, n + 1)), <<>>)
  <2>1. n + 1 \notin Within(f, 0, "assign") /\ n + 1 \notin Within(f, 0, "handler")
    BY DEF Within
  <2>2. /\ Upto(Within(f, 0, "assign"), n + 1) = Upto(Within(f, 0, "assign"), n)
        /\ Upto(Within(f, 0, "handler"), n + 1) = Upto(Within(f, 0, "handler"), n)
    BY <2>1, WithinIs
  <2> QED BY <2>2 DEF GlobalsUpTo
<1> DEFINE v0 == Entries(f, Upto(Within(f, 0, "assign"), n), Values(f))
           h0 == Entries(f, Upto(Within(f, 0, "handler"), n), CommandsUpTo(f, n + 1))
           c0 == <<>>
           a0 == ""
           x0 == f[n + 1].name
<1> HIDE DEF v0, h0, c0, a0, x0
<1>7. Rename(Settings(a0, v0, h0, c0), x0) = Settings(x0, v0, h0, c0)
  BY DEF Rename, Settings
<1> QED BY <1>2, <1>5, <1>6, <1>7 DEF v0, h0, c0, a0, x0

(* A protocol begins, but not within a block, nor with a name that is      *)
(* taken.                                                                  *)
LEMMA ProtocolFollows ==
  ASSUME NEW f, IsFile(f), NEW n \in Nat, n + 1 \in DOMAIN f, f[n + 1].is = "protocol",
         NEW p, NEW h, Blocks(f, n, p, h)
  PROVE  Follows(f, n, ParseStatement(StateUpTo(f, n, p, h), f[n + 1]))
<1> DEFINE s == StateUpTo(f, n, p, h)
           st == f[n + 1]
           B == Before(Within(f, 0, "protocol"), n + 1)
<1>1. n + 1 \notin Closing(f) /\ n + 1 \in Opening(f)
  BY FileIs DEF Closing, Opening
<1>2. p \in Nat /\ h \in Nat
  BY DEF Blocks
<1>3. BlockOf(f, n + 1) = 0 <=> p = 0 /\ h = 0
  <2>1. BlockOf(f, n + 1) = IF h # 0 THEN h ELSE p
    BY <1>1, InnermostBlock
  <2> QED BY <2>1
<1>4. Depth(f, n + 1) >= 0
  <2>1. Depth(f, n + 1) = Depth(f, n) + 1
    BY <1>1, DepthStep
  <2> QED BY <2>1 DEF Blocks
<1>5. IsGlobal(s) <=> p = 0 /\ h = 0
  BY StateIs
<1>6. ParseStatement(s, st) = ProtocolDefinition(s, st)
  BY ParseKinds
<1>7. LegalAt(f, n + 1) <=> p = 0 /\ h = 0 /\ st.name \notin NamesIn(f, B)
  <2> HIDE DEF B
  <2> QED BY <1>3, <1>4 DEF LegalAt, B
<1>8. ASSUME p = 0, h = 0
      PROVE  Named(s.protocols, st.name) # {} <=> st.name \in NamesIn(f, B)
  <2>1. Open(f, n) = {}
    BY <1>8 DEF Blocks
  <2>2. Done(f, n) = B
    <3>1. B = Upto(Within(f, 0, "protocol"), n)
      BY WithinIs
    <3> HIDE DEF B
    <3> QED BY <2>1, <3>1 DEF Done, Upto
  <2>3. s.protocols = Ended(f, n)
    BY DEF StateUpTo
  <2> HIDE DEF B, s, st
  <2>4. Named(s.protocols, st.name) = {ProtocolUpTo(f, m, n) : m \in {k \in B : f[k].name = st.name}}
    BY <2>2, <2>3, NamedEnded
  <2> QED BY <2>4 DEF NamesIn
<1>9. CASE ~LegalAt(f, n + 1)
  <2>1. ProtocolDefinition(s, st) = Invalid(s)
    <3> HIDE DEF s, st, B
    <3> QED BY <1>5, <1>7, <1>8, <1>9 DEF ProtocolDefinition
  <2> QED BY <1>6, <1>9, <2>1, InvalidIs DEF Follows
<1>10. CASE LegalAt(f, n + 1)
  <2>1. p = 0 /\ h = 0
    BY <1>7, <1>10
  <2>2. ProtocolDefinition(s, st) = Begins(s, TRUE, Rename(s.globals, st.name))
    <3> HIDE DEF s, st, B
    <3> QED BY <1>5, <1>7, <1>8, <1>10 DEF ProtocolDefinition, Rename, Begins
  <2>3. s.globals = GlobalsUpTo(f, n)
    BY DEF StateUpTo
  <2>4. Rename(s.globals, st.name) = ProtocolUpTo(f, n + 1, n + 1) /\ GlobalsUpTo(f, n + 1) = GlobalsUpTo(f, n)
    <3> HIDE DEF s
    <3> QED BY <2>3, ProtocolBegins
  <2>5. Blocks(f, n + 1, n + 1, 0)
    BY <2>1, BlocksStep
  <2>6. Ended(f, n + 1) = Ended(f, n)
    <3>1. Open(f, n + 1) = Open(f, n) \cup {n + 1}
      BY <1>1, OpenKinds
    <3> QED BY <3>1, DoneNext
  <2>7. Begins(s, TRUE, ProtocolUpTo(f, n + 1, n + 1)) = StateUpTo(f, n + 1, n + 1, 0)
    <3> DEFINE g0 == GlobalsUpTo(f, n)
               e0 == Ended(f, n)
               b0 == Empty
               b1 == ProtocolUpTo(f, n + 1, n + 1)
               i0 == FALSE
               i1 == TRUE
               h0 == ""
               v0 == TRUE
    <3>1. s = Parsing(g0, e0, b0, i0, h0, v0)
      BY <2>1 DEF StateUpTo, Parsing
    <3>2. StateUpTo(f, n + 1, n + 1, 0) = Parsing(g0, e0, b1, i1, h0, v0)
      <4>1. (n + 1 # 0) = TRUE
        OBVIOUS
      <4> QED BY <2>4, <2>6, <4>1 DEF StateUpTo, Parsing
    <3> HIDE DEF s, g0, e0, b0, b1, i0, i1, h0, v0
    <3>3. Begins(Parsing(g0, e0, b0, i0, h0, v0), i1, b1) = Parsing(g0, e0, b1, i1, h0, v0)
      BY BeginsIs
    <3> QED BY <3>1, <3>2, <3>3 DEF i1, b1
  <2> HIDE DEF s, st
  <2>8. ParseStatement(s, st) = StateUpTo(f, n + 1, n + 1, 0)
    BY <1>6, <2>2, <2>4, <2>7
  <2>9. n + 1 \in Nat /\ 0 \in Nat
    OBVIOUS
  <2> QED BY <1>10, <2>5, <2>8, <2>9 DEF Follows, s, st
<1> QED BY <1>9, <1>10

-----------------------------------------------------------------------------
(* A block ends                                                            *)

(* The end of a handler or a protocol changes no settings.                 *)
LEMMA CloseSame ==
  ASSUME NEW f, IsFile(f), NEW n \in Nat, n + 1 \in DOMAIN f, f[n + 1].is = "close"
  PROVE  /\ GlobalsUpTo(f, n + 1) = GlobalsUpTo(f, n)
         /\ \A m \in 1 .. n : ProtocolUpTo(f, m, n + 1) = ProtocolUpTo(f, m, n)
<1>1. /\ \A i : ~WordIn(f, i, n + 1)
      /\ \A i : n + 1 \notin Within(f, i, "assign") /\ n + 1 \notin Within(f, i, "handler")
  BY DEF WordIn, Within
<1>2. GlobalsUpTo(f, n + 1) = GlobalsUpTo(f, n)
  BY <1>1, GlobalsSame
<1>3. \A m \in 1 .. n : ProtocolUpTo(f, m, n + 1) = ProtocolUpTo(f, m, n)
  BY <1>1, ProtocolSame
<1> QED BY <1>2, <1>3

(* The protocols that have ended after a }.                                *)
LEMMA DoneClose ==
  ASSUME NEW f, IsFile(f), NEW n \in Nat, n + 1 \in DOMAIN f, f[n + 1].is = "close",
         NEW p, NEW h, Blocks(f, n, p, h)
  PROVE  /\ h # 0 => Ended(f, n + 1) = Ended(f, n)
         /\ h = 0 /\ p # 0 => Ended(f, n + 1) = Ended(f, n) \cup {ProtocolUpTo(f, p, n)}
<1>1. /\ p \in Nat /\ h \in Nat /\ p <= n /\ Open(f, n) = {p, h} \ {0}
      /\ p # 0 => f[p].is = "protocol" /\ BlockOf(f, p) = 0
      /\ h # 0 => f[h].is = "handler"
  BY DEF Blocks
<1>2. /\ h # 0 => Open(f, n + 1) = {p} \ {0}
      /\ h = 0 /\ p # 0 => Open(f, n + 1) = {}
  <2>1. h # 0 => Blocks(f, n + 1, p, 0)
    BY BlocksStep
  <2>2. h = 0 /\ p # 0 => Blocks(f, n + 1, 0, 0)
    BY BlocksStep
  <2> QED BY <2>1, <2>2 DEF Blocks
<1>3. \A m \in Done(f, n) : ProtocolUpTo(f, m, n + 1) = ProtocolUpTo(f, m, n) /\ m \in Done(f, n + 1)
  BY DoneSame
<1>4. ASSUME NEW m \in Done(f, n + 1)
      PROVE  m \in Within(f, 0, "protocol") /\ m <= n /\ m \notin Open(f, n + 1) /\ f[m].is = "protocol"
  <2>1. m \in Within(f, 0, "protocol") /\ m <= n + 1 /\ m \notin Open(f, n + 1)
    BY DEF Done
  <2>2. m \in DOMAIN f /\ f[m].is = "protocol" /\ m \in Nat
    BY <2>1, FileIs DEF Within
  <2>3. m # n + 1
    BY <2>2
  <2> QED BY <2>1, <2>2, <2>3
<1>5. ASSUME h # 0 PROVE Ended(f, n + 1) = Ended(f, n)
  <2>1. \A m \in Done(f, n + 1) : m \in Done(f, n)
    BY <1>1, <1>2, <1>4, <1>5 DEF Done
  <2>2. Done(f, n + 1) = Done(f, n)
    BY <1>3, <2>1
  <2> QED BY <1>3, <2>2 DEF Ended
<1>6. ASSUME h = 0, p # 0 PROVE Ended(f, n + 1) = Ended(f, n) \cup {ProtocolUpTo(f, p, n)}
  <2>1. \A m \in Done(f, n + 1) : m \in Done(f, n) \cup {p}
    BY <1>1, <1>4, <1>6 DEF Done
  <2>2. p \in Done(f, n + 1)
    <3>1. p \in DOMAIN f
      BY <1>1, <1>6, FileIs
    <3>2. p \in Within(f, 0, "protocol")
      BY <1>1, <1>6, <3>1 DEF Within
    <3>3. p <= n + 1
      BY <1>1
    <3> QED BY <1>2, <1>6, <3>2, <3>3 DEF Done
  <2>3. Done(f, n + 1) = Done(f, n) \cup {p}
    BY <1>3, <2>1, <2>2
  <2>4. ProtocolUpTo(f, p, n + 1) = ProtocolUpTo(f, p, n)
    BY <1>1, <1>6, CloseSame
  <2> QED BY <1>3, <2>3, <2>4 DEF Ended
<1> QED BY <1>5, <1>6

(* A } ends the handler if there is one, else the protocol; without either *)
(* it is an error.                                                         *)
LEMMA CloseFollows ==
  ASSUME NEW f, IsFile(f), NEW n \in Nat, n + 1 \in DOMAIN f, f[n + 1].is = "close",
         NEW p, NEW h, Blocks(f, n, p, h)
  PROVE  Follows(f, n, ParseStatement(StateUpTo(f, n, p, h), f[n + 1]))
<1> DEFINE s == StateUpTo(f, n, p, h)
           st == f[n + 1]
<1>1. p \in Nat /\ h \in Nat /\ p <= n
  BY DEF Blocks
<1>2. Depth(f, n + 1) = Depth(f, n) - 1
  <2>1. n + 1 \in Closing(f)
    BY DEF Closing
  <2> QED BY <2>1, DepthStep
<1>3. LegalAt(f, n + 1) <=> h # 0 \/ p # 0
  <2>1. Depth(f, n) = (IF p = 0 THEN 0 ELSE 1) + (IF h = 0 THEN 0 ELSE 1)
    BY DEF Blocks
  <2>2. Depth(f, n + 1) >= 0 <=> h # 0 \/ p # 0
    BY <1>2, <2>1
  <2> QED BY <2>2 DEF LegalAt
<1>4. (InHandler(s) <=> h # 0) /\ (s.inside <=> p # 0)
  BY StateIs
<1>5. ParseStatement(s, st) = BlockEnd(s)
  BY ParseKinds
<1>6. CASE h # 0
  <2>1. BlockEnd(s) = Names(s, "")
    <3> HIDE DEF s
    <3> QED BY <1>4, <1>6 DEF BlockEnd, Names
  <2>2. GlobalsUpTo(f, n + 1) = GlobalsUpTo(f, n) /\ Ended(f, n + 1) = Ended(f, n)
    BY <1>6, CloseSame, DoneClose
  <2> DEFINE g0 == GlobalsUpTo(f, n)
             e0 == Ended(f, n)
             b0 == IF p = 0 THEN Empty ELSE ProtocolUpTo(f, p, n)
             i0 == p # 0
             h0 == IF h = 0 THEN "" ELSE f[h].name
             v0 == TRUE
             x0 == ""
  <2>3. s = Parsing(g0, e0, b0, i0, h0, v0)
    BY StateParsing
  <2>4. StateUpTo(f, n + 1, p, 0) = Parsing(g0, e0, b0, i0, x0, v0)
    <3>1. p # 0 => ProtocolUpTo(f, p, n + 1) = ProtocolUpTo(f, p, n)
      BY <1>1, CloseSame
    <3> QED BY <2>2, <3>1 DEF StateUpTo, Parsing
  <2>5. Blocks(f, n + 1, p, 0)
    BY <1>6, BlocksStep
  <2> HIDE DEF s, g0, e0, b0, i0, h0, v0, x0
  <2>6. Names(Parsing(g0, e0, b0, i0, h0, v0), x0) = Parsing(g0, e0, b0, i0, x0, v0)
    BY NamesIs
  <2>7. ParseStatement(s, st) = StateUpTo(f, n + 1, p, 0)
    BY <1>5, <2>1, <2>3, <2>4, <2>6 DEF x0
  <2> QED BY <1>1, <1>3, <1>6, <2>5, <2>7 DEF Follows, s
<1>7. CASE h = 0 /\ p # 0
  <2>1. BlockEnd(s) = Ends(s, FALSE, Empty)
    <3> HIDE DEF s
    <3> QED BY <1>4, <1>7 DEF BlockEnd, Ends
  <2> DEFINE g0 == GlobalsUpTo(f, n)
             e0 == Ended(f, n)
             b0 == ProtocolUpTo(f, p, n)
             b1 == Empty
             i0 == TRUE
             i1 == FALSE
             h0 == ""
             v0 == TRUE
  <2>2. s = Parsing(g0, e0, b0, i0, h0, v0)
    <3>1. (p # 0) = TRUE
      BY <1>7
    <3> QED BY <1>7, <3>1 DEF StateUpTo, Parsing
  <2>3. StateUpTo(f, n + 1, 0, 0) = Parsing(g0, e0 \cup {b0}, b1, i1, h0, v0)
    <3>1. GlobalsUpTo(f, n + 1) = g0 /\ Ended(f, n + 1) = e0 \cup {b0}
      BY <1>7, CloseSame, DoneClose
    <3> QED BY <3>1 DEF StateUpTo, Parsing
  <2>4. Blocks(f, n + 1, 0, 0)
    BY <1>7, BlocksStep
  <2> HIDE DEF s, g0, e0, b0, b1, i0, i1, h0, v0
  <2>5. Ends(Parsing(g0, e0, b0, i0, h0, v0), i1, b1) = Parsing(g0, e0 \cup {b0}, b1, i1, h0, v0)
    BY EndsIs
  <2>6. ParseStatement(s, st) = StateUpTo(f, n + 1, 0, 0)
    BY <1>5, <2>1, <2>2, <2>3, <2>5 DEF b1, i1
  <2>7. 0 \in Nat
    OBVIOUS
  <2> QED BY <1>3, <1>7, <2>4, <2>6, <2>7 DEF Follows, s
<1>8. CASE h = 0 /\ p = 0
  <2>1. BlockEnd(s) = Invalid(s)
    <3> HIDE DEF s
    <3> QED BY <1>4, <1>8 DEF BlockEnd
  <2> QED BY <1>3, <1>5, <1>8, <2>1, InvalidIs DEF Follows
<1> QED BY <1>6, <1>7, <1>8

(* What no statement is, is not legal.                                     *)
LEMMA JunkFollows ==
  ASSUME NEW f, NEW n, f[n + 1].is = "junk", NEW p, NEW h
  PROVE  Follows(f, n, ParseStatement(StateUpTo(f, n, p, h), f[n + 1]))
<1>1. ParseStatement(StateUpTo(f, n, p, h), f[n + 1]) = Invalid(StateUpTo(f, n, p, h))
  BY ParseKinds
<1>2. ~LegalAt(f, n + 1)
  BY DEF LegalAt
<1> QED BY <1>1, <1>2, InvalidIs DEF Follows

-----------------------------------------------------------------------------
(* A command, or a reference to a protocol that is complete.               *)

(* Legal files give a name to one protocol only.                           *)
OneOfName(f, n) ==
  \A a, b \in Within(f, 0, "protocol") : a <= n /\ b <= n /\ f[a].name = f[b].name => a = b

(* No name is taken twice.                                                 *)
LEMMA LegalNames ==
  ASSUME NEW f, IsFile(f), NEW n \in Nat, \A i \in 1 .. n : LegalAt(f, i)
  PROVE  OneOfName(f, n)
<1> DEFINE W == Within(f, 0, "protocol")
<1>1. ASSUME NEW a \in W, NEW b \in W, a <= n, b <= n, f[a].name = f[b].name, a < b PROVE FALSE
  <2>1. a \in Nat /\ b \in Nat /\ b \in 1 .. n /\ f[b].is = "protocol"
    BY <1>1, FileIs DEF Within
  <2>2. LegalAt(f, b)
    BY <2>1
  <2>3. f[b].name \notin NamesIn(f, Before(W, b))
    BY <2>1, <2>2 DEF LegalAt
  <2> HIDE DEF W
  <2> QED BY <1>1, <2>3 DEF NamesIn, Before
<1>2. \A a \in W : a \in Nat
  BY FileIs DEF Within
<1> HIDE DEF W
<1>3. \A a, b \in W : a <= n /\ b <= n /\ f[a].name = f[b].name => a = b
  <2> SUFFICES ASSUME NEW a \in W, NEW b \in W, a <= n, b <= n, f[a].name = f[b].name, a # b PROVE FALSE
    OBVIOUS
  <2>1. a < b \/ b < a
    BY <1>2
  <2> QED BY <1>1, <2>1
<1> QED BY <1>3 DEF OneOfName, W

(* A word means what the protocol it names has come to.                    *)
LEMMA WordMeans ==
  ASSUME NEW f, IsFile(f), NEW n \in Nat, n + 1 \in DOMAIN f, f[n + 1].is = "word",
         OneOfName(f, n), NEW p, NEW h
  PROVE  Commands(StateUpTo(f, n, p, h), f[n + 1]) = Means(f, n + 1)
<1> DEFINE s == StateUpTo(f, n, p, h)
           st == f[n + 1]
           M == {m \in Done(f, n) : f[m].name = st.name}
<1>1. n + 1 \notin Closing(f) /\ n \in 0 .. Len(f)
  BY FileIs DEF Closing
<1>2. Meant(f, n + 1) = {m \in M : st.value = <<>>}
  <2>1. \A m \in Within(f, 0, "protocol") :
          m \in Opening(f) /\ (m < n + 1 <=> m <= n) /\ (Encloses(f, m, n + 1) <=> m \in Open(f, n))
    <3>1. \A m \in Within(f, 0, "protocol") : m \in Opening(f) /\ m \in Nat
      BY FileIs DEF Within, Opening
    <3> QED BY <1>1, <3>1, EnclosesNext
  <2> HIDE DEF st
  <2>2. Meant(f, n + 1) = {m \in Within(f, 0, "protocol") :
                             m < n + 1 /\ ~Encloses(f, m, n + 1) /\ f[m].name = st.name /\ st.value = <<>>}
    BY Zenon DEF Meant, st
  <2> QED BY <2>1, <2>2 DEF Done
<1>3. Named(s.protocols, st.name) = {ProtocolUpTo(f, m, n) : m \in M}
  <2>1. s.protocols = Ended(f, n)
    BY DEF StateUpTo
  <2> HIDE DEF s, st
  <2> QED BY <2>1, NamedEnded
<1>4. <<[op |-> st.name, args |-> st.value]>> = Own(f, n + 1)
  BY DEF Own
<1>5. /\ MeantAt(f, n + 1) \in Meant(f, n + 1) \cup {0}
      /\ \A m \in Meant(f, n + 1) : m <= MeantAt(f, n + 1) /\ m \in Nat /\ m # 0
  BY MeantAtIs
<1> DEFINE meant == IF st.value = <<>> THEN Named(s.protocols, st.name) ELSE {}
<1>6. Commands(s, st) = IF meant # {} THEN (CHOOSE q \in meant : TRUE).commands ELSE Own(f, n + 1)
  <2>1. Commands(s, st) = IF meant # {} THEN (CHOOSE q \in meant : TRUE).commands
                          ELSE <<[op |-> st.name, args |-> st.value]>>
    <3> HIDE DEF s, st
    <3> QED BY Zenon DEF Commands
  <2> HIDE DEF s, st, meant
  <2> QED BY <1>4, <2>1
<1>7. CASE Meant(f, n + 1) = {}
  <2>1. meant = {}
    <3> HIDE DEF s, st
    <3> QED BY <1>2, <1>3, <1>7
  <2>2. MeantAt(f, n + 1) = 0
    BY <1>5, <1>7
  <2> HIDE DEF meant, s, st
  <2>3. Commands(s, st) = Means(f, n + 1)
    BY <1>6, <2>1, <2>2 DEF Means
  <2> QED BY <2>3 DEF s, st
<1>8. CASE Meant(f, n + 1) # {}
  <2>1. PICK m \in M : st.value = <<>> /\ m \in Meant(f, n + 1)
    BY <1>2, <1>8
  <2>2. m \in Within(f, 0, "protocol") /\ m <= n /\ m \notin Open(f, n) /\ f[m].name = st.name
    BY DEF Done
  <2>3. \A k \in M : k = m
    BY <2>2 DEF Done, OneOfName
  <2>4. meant = {ProtocolUpTo(f, m, n)}
    <3> HIDE DEF s, st, M
    <3> QED BY <1>3, <2>1, <2>3
  <2>5. MeantAt(f, n + 1) = m /\ m # 0
    <3>1. MeantAt(f, n + 1) # 0 /\ m # 0
      BY <1>5, <2>1
    <3>2. MeantAt(f, n + 1) \in M
      BY <1>2, <1>5, <3>1
    <3> QED BY <2>3, <3>1, <3>2
  <2>6. CommandsUpTo(f, n)[m] = CommandsIn(f)[m]
    <3>1. m \in Opening(f)
      BY <2>2 DEF Within, Opening
    <3> QED BY <1>1, <2>2, <3>1, CommandsSettled
  <2>7. ProtocolUpTo(f, m, n).commands = CommandsIn(f)[m]
    BY <2>6 DEF ProtocolUpTo, Settings
  <2> HIDE DEF meant, s, st
  <2>8. (CHOOSE q \in meant : TRUE) = ProtocolUpTo(f, m, n)
    <3> DEFINE q0 == ProtocolUpTo(f, m, n)
    <3> HIDE DEF q0
    <3>1. (CHOOSE q \in {q0} : TRUE) = q0
      OBVIOUS
    <3> QED BY <2>4, <3>1 DEF q0
  <2>9. meant # {}
    BY <2>4
  <2>10. Commands(s, st) = CommandsIn(f)[m]
    BY <1>6, <2>7, <2>8, <2>9
  <2> QED BY <2>5, <2>10 DEF Means, s, st
<1> QED BY <1>7, <1>8

(* The context after a word in a handler, or in a protocol.                *)
LEMMA WordContext ==
  ASSUME NEW f, IsFile(f), NEW n \in Nat, n + 1 \in DOMAIN f, f[n + 1].is = "word",
         NEW p, NEW h, Blocks(f, n, p, h)
  PROVE  /\ h # 0 => AddToHandler(ContextUpTo(f, n, p), f[h].name, Means(f, n + 1))
                       = ContextUpTo(f, n + 1, p)
         /\ h = 0 /\ p # 0 => AddCommands(ContextUpTo(f, n, p), Means(f, n + 1))
                                = ContextUpTo(f, n + 1, p)
<1> DEFINE S == Upto(Inherited(f, p, "assign"), n)
           H == Upto(Inherited(f, p, "handler"), n)
           u == CommandsUpTo(f, n)
           w == CommandsUpTo(f, n + 1)
           a0 == IF p = 0 THEN "" ELSE f[p].name
           v0 == Entries(f, S, Values(f))
           h0 == Entries(f, H, u)
           h1 == Entries(f, H, w)
           y0 == Means(f, n + 1)
<1>1. n + 1 \notin Closing(f)
  BY DEF Closing
<1>2. /\ p \in Nat /\ p <= n /\ (p # 0 => p \in DOMAIN f)
      /\ Upto(Inherited(f, p, "assign"), n + 1) = S
      /\ H \in SUBSET (1 .. n) /\ H \subseteq DOMAIN f
      /\ Upto(Inherited(f, p, "handler"), n + 1) = H
  BY <1>1, ContextSets
<1>3. BlockOf(f, n + 1) = IF h # 0 THEN h ELSE p
  BY <1>1, InnermostBlock
<1>4. \A i \in DOMAIN f : w[i] = IF i = BlockOf(f, n + 1) THEN Cat(u[i], y0) ELSE u[i]
  BY CommandsStep DEF WordIn
<1>5. ContextUpTo(f, n, p) = Settings(a0, v0, h0, IF p = 0 THEN <<>> ELSE u[p])
  BY DEF ContextUpTo
<1>6. ContextUpTo(f, n + 1, p) = Settings(a0, v0, h1, IF p = 0 THEN <<>> ELSE w[p])
  BY <1>2 DEF ContextUpTo
<1>7. ASSUME h # 0
      PROVE  AddToHandler(ContextUpTo(f, n, p), f[h].name, y0) = ContextUpTo(f, n + 1, p)
  <2>1. h \in H /\ \A j \in H : j <= h
    <3>1. p = 0 => \A kind : Inherited(f, p, kind) = Within(f, 0, kind)
      BY InheritedGlobal
    <3> QED BY <1>7, <3>1, LastHandler
  <2>2. p # h
    BY <1>7 DEF Blocks
  <2>3. p # 0 => w[p] = u[p]
    BY <1>2, <1>3, <1>4, <1>7, <2>2
  <2>4. w[h] = Cat(u[h], y0) /\ \A j \in H : j # h => u[j] = w[j]
    BY <1>2, <1>3, <1>4, <1>7, <2>1
  <2>5. h0[f[h].name] = u[h] /\ Put(h0, f[h].name, w[h]) = h1
    <3> HIDE DEF H, u, w
    <3>1. IsLast(H, n, h) /\ SameBut(H, h, u, w)
      BY <1>2, <2>1, <2>4 DEF IsLast, SameBut
    <3>2. Entries(f, H, u)[f[h].name] = u[h] /\ Put(Entries(f, H, u), f[h].name, w[h]) = Entries(f, H, w)
      BY <3>1, EntriesChange
    <3> QED BY <3>2
  <2> DEFINE x0 == f[h].name
             c0 == IF p = 0 THEN <<>> ELSE u[p]
  <2>6. ContextUpTo(f, n + 1, p) = Settings(a0, v0, h1, c0)
    BY <1>6, <2>3
  <2> HIDE DEF a0, v0, h0, h1, c0, x0, y0, u, w
  <2>7. AddToHandler(Settings(a0, v0, h0, c0), x0, y0) = Settings(a0, v0, Extend(h0, x0, y0), c0)
    BY SettingsChange
  <2>8. Extend(h0, x0, y0) = Put(h0, x0, Cat(h0[x0], y0))
    BY DEF Extend, Put
  <2>9. Extend(h0, x0, y0) = h1
    BY <2>4, <2>5, <2>8 DEF x0
  <2> QED BY <1>5, <2>6, <2>7, <2>9 DEF x0, c0
<1>8. ASSUME h = 0, p # 0
      PROVE  AddCommands(ContextUpTo(f, n, p), y0) = ContextUpTo(f, n + 1, p)
  <2>1. \A i \in H : f[i].is = "handler"
    BY DEF Upto, Inherited, Before, Within
  <2>2. f[p].is = "protocol"
    BY <1>8 DEF Blocks
  <2>3. \A i \in H : u[i] = w[i]
    BY <1>2, <1>3, <1>4, <1>8, <2>1, <2>2
  <2>4. h0 = h1
    <3> HIDE DEF H, u, w
    <3> QED BY <1>2, <2>3, EntriesSame, ZenonT(60)
  <2>5. w[p] = Cat(u[p], y0)
    BY <1>2, <1>3, <1>4, <1>8
  <2> DEFINE c0 == u[p]
  <2>6. ContextUpTo(f, n, p) = Settings(a0, v0, h0, c0)
    BY <1>5, <1>8
  <2>7. ContextUpTo(f, n + 1, p) = Settings(a0, v0, h0, Cat(c0, y0))
    BY <1>6, <1>8, <2>4, <2>5
  <2> HIDE DEF a0, v0, h0, h1, c0, y0
  <2>8. AddCommands(Settings(a0, v0, h0, c0), y0) = Settings(a0, v0, h0, Cat(c0, y0))
    BY AddCommandsIs
  <2> QED BY <2>6, <2>7, <2>8
<1> QED BY <1>7, <1>8

(* A word stands for a command, or for those of a protocol that is         *)
(* complete; it is an error outside of all blocks.                         *)
LEMMA WordFollows ==
  ASSUME NEW f, IsFile(f), NEW n \in Nat, n + 1 \in DOMAIN f, f[n + 1].is = "word",
         OneOfName(f, n), NEW p, NEW h, Blocks(f, n, p, h)
  PROVE  Follows(f, n, ParseStatement(StateUpTo(f, n, p, h), f[n + 1]))
<1> DEFINE s == StateUpTo(f, n, p, h)
           st == f[n + 1]
<1>1. n + 1 \notin Closing(f) /\ n + 1 \notin Opening(f)
  BY DEF Closing, Opening
<1>2. p \in Nat /\ h \in Nat
  BY DEF Blocks
<1>3. BlockOf(f, n + 1) # 0 <=> p # 0 \/ h # 0
  <2>1. BlockOf(f, n + 1) = IF h # 0 THEN h ELSE p
    BY <1>1, InnermostBlock
  <2> QED BY <2>1
<1>4. Depth(f, n + 1) >= 0
  <2>1. Depth(f, n + 1) = Depth(f, n)
    BY <1>1, DepthStep
  <2> QED BY <2>1 DEF Blocks
<1>5. (IsGlobal(s) <=> p = 0 /\ h = 0) /\ (InHandler(s) <=> h # 0)
  BY StateIs
<1>6. ParseStatement(s, st) = CommandOrReference(s, st)
  BY ParseKinds
<1>7. LegalAt(f, n + 1) <=> (p # 0 \/ h # 0) /\ Parsable(st.value)
  BY <1>3, <1>4 DEF LegalAt, Parsable
<1>8. CASE ~LegalAt(f, n + 1)
  <2>1. CommandOrReference(s, st) = Invalid(s)
    <3> HIDE DEF s, st
    <3> QED BY <1>5, <1>7, <1>8 DEF CommandOrReference
  <2> QED BY <1>6, <1>8, <2>1, InvalidIs DEF Follows
<1>9. CASE LegalAt(f, n + 1)
  <2>1. Commands(s, st) = Means(f, n + 1)
    BY WordMeans
  <2>2. Context(s) = ContextUpTo(f, n, p)
    BY StateContext
  <2>3. h # 0 => s.handler = f[h].name
    BY DEF StateUpTo
  <2>4. CommandOrReference(s, st) =
          Change(s, IF InHandler(s) THEN AddToHandler(Context(s), s.handler, Commands(s, st))
                                    ELSE AddCommands(Context(s), Commands(s, st)))
    <3> HIDE DEF s, st
    <3> QED BY <1>5, <1>7, <1>9 DEF CommandOrReference, AddToHandler, AddCommands
  <2>5. (IF InHandler(s) THEN AddToHandler(Context(s), s.handler, Commands(s, st))
                         ELSE AddCommands(Context(s), Commands(s, st))) = ContextUpTo(f, n + 1, p)
    <3>1. CASE h # 0
      <4>1. AddToHandler(ContextUpTo(f, n, p), f[h].name, Means(f, n + 1)) = ContextUpTo(f, n + 1, p)
        BY <3>1, WordContext
      <4> HIDE DEF s, st
      <4> QED BY <1>5, <2>1, <2>2, <2>3, <3>1, <4>1
    <3>2. CASE h = 0
      <4>1. AddCommands(ContextUpTo(f, n, p), Means(f, n + 1)) = ContextUpTo(f, n + 1, p)
        BY <1>7, <1>9, <3>2, WordContext
      <4> HIDE DEF s, st
      <4> QED BY <1>5, <2>1, <2>2, <3>2, <4>1
    <3> QED BY <3>1, <3>2
  <2>6. Change(s, ContextUpTo(f, n + 1, p)) = StateUpTo(f, n + 1, p, h)
    BY <1>1, ChangedContext
  <2>7. Blocks(f, n + 1, p, h)
    BY <1>1, BlocksStep
  <2> HIDE DEF s
  <2>8. ParseStatement(s, st) = StateUpTo(f, n + 1, p, h)
    BY <1>6, <2>4, <2>5, <2>6
  <2> QED BY <1>2, <1>9, <2>7, <2>8 DEF Follows, s
<1> QED BY <1>8, <1>9

(* Whatever the statement is.                                              *)
LEMMA EveryStatementFollows ==
  ASSUME NEW f, IsFile(f), NEW n \in Nat, n + 1 \in DOMAIN f, \A i \in 1 .. n : LegalAt(f, i),
         NEW p, NEW h, Blocks(f, n, p, h)
  PROVE  Follows(f, n, ParseStatement(StateUpTo(f, n, p, h), f[n + 1]))
<1>1. OneOfName(f, n)
  BY LegalNames
<1>2. f[n + 1].is \in {"assign", "handler", "protocol", "close", "word", "junk"}
  BY StatementIs
<1> QED BY <1>1, <1>2, AssignmentFollows, HandlerFollows, ProtocolFollows, CloseFollows, WordFollows,
           JunkFollows

-----------------------------------------------------------------------------
(* The whole file                                                          *)

(* The states that the parser goes through.                                *)
Parses(f, t) ==
  t = [n \in 0 .. Len(f) |-> IF n = 0 THEN Start ELSE ParseStatement(t[n - 1], f[n])]
Parsed(f) == CHOOSE t : Parses(f, t)

(* ParseProtocol looks at the last of them.                                *)
LEMMA ParseIs ==
  ASSUME NEW f
  PROVE  ParseProtocol(f) = [valid |-> Parsed(f)[Len(f)].valid /\ IsGlobal(Parsed(f)[Len(f)]),
                             protocols |-> Parsed(f)[Len(f)].protocols]
BY Zenon DEF ParseProtocol, Parses, Parsed

(* They exist, for a file of any length.                                   *)
LEMMA ParsedExists ==
  ASSUME NEW f, Len(f) \in Nat
  PROVE  Parses(f, Parsed(f))
<1> DEFINE Upon(m, t) == t = [n \in 0 .. m |-> IF n = 0 THEN Start ELSE ParseStatement(t[n - 1], f[n])]
           Bad == {m \in 0 .. Len(f) : ~\E t : Upon(m, t)}
<1>0. Len(f) \in Nat
  OBVIOUS
<1>1. Bad = {}
  <2> SUFFICES ASSUME Bad # {} PROVE FALSE
    OBVIOUS
  <2>1. Bad \in SUBSET Nat
    OBVIOUS
  <2>2. PICK m \in Bad : \A y \in Bad : m <= y
    <3> HIDE DEF Bad
    <3> QED BY <2>1, LeastNatural
  <2>3. m \in 0 .. Len(f) /\ ~\E t : Upon(m, t)
    OBVIOUS
  <2>4. CASE m = 0
    <3> DEFINE none == [n \in 0 .. 0 |-> Start]
    <3>1. Upon(0, none)
      BY Z3
    <3> QED BY <2>3, <2>4, <3>1
  <2>5. CASE m # 0
    <3>1. m - 1 \in 0 .. Len(f) /\ m - 1 < m
      BY <1>0, <2>3, <2>5
    <3>2. m - 1 \notin Bad
      <4> HIDE DEF Bad
      <4> QED BY <2>1, <2>2, <2>3, <3>1
    <3>3. PICK t : Upon(m - 1, t)
      <4> HIDE DEF Upon
      <4> QED BY <3>1, <3>2
    <3> DEFINE g == [n \in 0 .. m |-> IF n = m THEN ParseStatement(t[m - 1], f[m]) ELSE t[n]]
    <3>4. ASSUME NEW n \in 0 .. m PROVE g[n] = IF n = 0 THEN Start ELSE ParseStatement(g[n - 1], f[n])
      <4>1. CASE n = m
        <5>1. m - 1 \in 0 .. m /\ m - 1 # m
          BY <2>3, <2>5
        <5>2. g[m - 1] = t[m - 1]
          BY <5>1
        <5>3. g[m] = ParseStatement(t[m - 1], f[m])
          BY <2>3
        <5> HIDE DEF g
        <5> QED BY <2>5, <4>1, <5>2, <5>3
      <4>2. CASE n # m
        <5>1. n \in 0 .. m - 1
          BY <2>3, <4>2
        <5>2. t[n] = IF n = 0 THEN Start ELSE ParseStatement(t[n - 1], f[n])
          BY <3>3, <5>1
        <5>3. g[n] = t[n]
          BY <4>2
        <5>4. n # 0 => g[n - 1] = t[n - 1]
          BY <2>3, <5>1
        <5> HIDE DEF g, Upon
        <5> QED BY <5>2, <5>3, <5>4
      <4> QED BY <4>1, <4>2
    <3>5. g = [n \in 0 .. m |-> g[n]]
      OBVIOUS
    <3>6. Upon(m, g)
      <4> HIDE DEF g
      <4> QED BY <3>4, <3>5
    <3> QED BY <2>3, <3>6
  <2> QED BY <2>4, <2>5
<1>2. \E t : Upon(Len(f), t)
  <2>1. Len(f) \in 0 .. Len(f)
    BY <1>0
  <2>2. Len(f) \notin Bad
    <3> HIDE DEF Bad
    <3> QED BY <1>1
  <2> HIDE DEF Upon
  <2> QED BY <2>1, <2>2
<1>3. \E t : Parses(f, t)
  BY <1>2 DEF Parses
<1> QED BY <1>3 DEF Parsed

(* What the parser has made of the first n statements: what they mean as   *)
(* long as they are legal, and an error from there on.                     *)
MeansSoFar(f, n, s) ==
  \/ /\ \A i \in 1 .. n : LegalAt(f, i)
     /\ \E p, h \in Nat : Blocks(f, n, p, h) /\ s = StateUpTo(f, n, p, h)
  \/ (\E i \in 1 .. n : ~LegalAt(f, i)) /\ ~s.valid

(* Before the first statement nothing has been said.                       *)
LEMMA StartMeans ==
  ASSUME NEW f, IsFile(f) PROVE MeansSoFar(f, 0, Start)
<1>1. Open(f, 0) = {} /\ Depth(f, 0) = 0
  BY OpenStep, DepthStep
<1>2. Blocks(f, 0, 0, 0)
  BY <1>1 DEF Blocks
<1>3. Done(f, 0) = {}
  BY FileIs DEF Done, Within
<1>4. Ended(f, 0) = {}
  BY <1>3 DEF Ended
<1>5. \A what, kind : Entries(f, Upto(Within(f, 0, kind), 0), what) = NoEntries
  <2> SUFFICES ASSUME NEW what, NEW kind
               PROVE  Entries(f, Upto(Within(f, 0, kind), 0), what) = NoEntries
    OBVIOUS
  <2>1. Upto(Within(f, 0, kind), 0) = {}
    BY FileIs DEF Upto, Within
  <2>2. NamesIn(f, {}) = {}
    BY DEF NamesIn
  <2> QED BY <2>1, <2>2 DEF Entries, NoEntries
<1>6. GlobalsUpTo(f, 0) = Empty
  BY <1>5 DEF GlobalsUpTo, Settings, Empty
<1>7. StateUpTo(f, 0, 0, 0) = Start
  BY <1>4, <1>6 DEF StateUpTo, Start
<1>8. (\A i \in 1 .. 0 : LegalAt(f, i)) /\ 0 \in Nat
  OBVIOUS
<1> QED BY <1>2, <1>7, <1>8 DEF MeansSoFar

(* Statement by statement it stays so.                                     *)
LEMMA StatementMeans ==
  ASSUME NEW f, IsFile(f), NEW n \in Nat, n + 1 \in DOMAIN f, NEW s, MeansSoFar(f, n, s)
  PROVE  MeansSoFar(f, n + 1, ParseStatement(s, f[n + 1]))
<1>1. \A i : i \in 1 .. n + 1 <=> i \in 1 .. n \/ i = n + 1
  OBVIOUS
<1>2. CASE \A i \in 1 .. n : LegalAt(f, i)
  <2>1. PICK p \in Nat, h \in Nat : Blocks(f, n, p, h) /\ s = StateUpTo(f, n, p, h)
    BY <1>2 DEF MeansSoFar
  <2>2. Follows(f, n, ParseStatement(s, f[n + 1]))
    BY <1>2, <2>1, EveryStatementFollows
  <2>3. CASE LegalAt(f, n + 1)
    <3>1. \A i \in 1 .. n + 1 : LegalAt(f, i)
      BY <1>1, <1>2, <2>3
    <3>2. \E q, k \in Nat : Blocks(f, n + 1, q, k) /\ ParseStatement(s, f[n + 1]) = StateUpTo(f, n + 1, q, k)
      BY <2>2, <2>3 DEF Follows
    <3> QED BY <3>1, <3>2 DEF MeansSoFar
  <2>4. CASE ~LegalAt(f, n + 1)
    <3>1. n + 1 \in 1 .. n + 1
      OBVIOUS
    <3>2. ~ParseStatement(s, f[n + 1]).valid
      BY <2>2, <2>4 DEF Follows
    <3> QED BY <2>4, <3>1, <3>2 DEF MeansSoFar
  <2> QED BY <2>3, <2>4
<1>3. CASE \E i \in 1 .. n : ~LegalAt(f, i)
  <2>1. ~s.valid
    BY <1>3 DEF MeansSoFar
  <2>2. ParseStatement(s, f[n + 1]) = s
    BY <2>1 DEF ParseStatement
  <2>3. \E i \in 1 .. n + 1 : ~LegalAt(f, i)
    BY <1>1, <1>3
  <2> QED BY <2>1, <2>2, <2>3 DEF MeansSoFar
<1> QED BY <1>2, <1>3

(* At the end the parser has what all statements mean.                     *)
LEMMA AllMeans ==
  ASSUME NEW f, IsFile(f)
  PROVE  MeansSoFar(f, Len(f), Parsed(f)[Len(f)])
<1> DEFINE t == Parsed(f)
           Bad == {n \in 0 .. Len(f) : ~MeansSoFar(f, n, t[n])}
<1>0. Len(f) \in Nat /\ DOMAIN f = 1 .. Len(f)
  BY FileIs
<1>1. t = [n \in 0 .. Len(f) |-> IF n = 0 THEN Start ELSE ParseStatement(t[n - 1], f[n])]
  BY <1>0, ParsedExists DEF Parses
<1> HIDE DEF t
<1>2. Bad = {}
  <2> SUFFICES ASSUME Bad # {} PROVE FALSE
    OBVIOUS
  <2>1. Bad \in SUBSET Nat
    BY <1>0
  <2>2. PICK m \in Bad : \A y \in Bad : m <= y
    <3> HIDE DEF Bad
    <3> QED BY <2>1, LeastNatural
  <2>3. m \in 0 .. Len(f) /\ ~MeansSoFar(f, m, t[m])
    OBVIOUS
  <2>4. m # 0
    <3>1. t[0] = Start
      BY <1>0, <1>1
    <3> QED BY <2>3, <3>1, StartMeans
  <2>5. m - 1 \in 0 .. Len(f) /\ m - 1 \in Nat /\ m - 1 + 1 = m /\ m \in DOMAIN f /\ m - 1 < m
    BY <1>0, <2>3, <2>4
  <2>6. MeansSoFar(f, m - 1, t[m - 1])
    <3>1. m - 1 \notin Bad
      <4> HIDE DEF Bad
      <4> QED BY <1>0, <2>1, <2>2, <2>5
    <3> QED BY <2>5, <3>1
  <2>7. t[m] = ParseStatement(t[m - 1], f[m])
    BY <1>1, <2>3, <2>4
  <2>8. MeansSoFar(f, m - 1 + 1, ParseStatement(t[m - 1], f[m - 1 + 1]))
    <3> DEFINE k == m - 1
    <3>1. k \in Nat /\ k + 1 \in DOMAIN f /\ MeansSoFar(f, k, t[k])
      BY <2>5, <2>6
    <3> HIDE DEF k
    <3>2. MeansSoFar(f, k + 1, ParseStatement(t[k], f[k + 1]))
      BY <3>1, StatementMeans
    <3> QED BY <3>2 DEF k
  <2> QED BY <2>3, <2>5, <2>7, <2>8
<1>3. Len(f) \in 0 .. Len(f)
  BY <1>0
<1> QED BY <1>2, <1>3 DEF t

(* At the end of the file a protocol means what the whole file says.       *)
LEMMA ProtocolIsAt ==
  ASSUME NEW f, IsFile(f), NEW m \in DOMAIN f
  PROVE  ProtocolUpTo(f, m, Len(f)) = ProtocolAt(f, m)
<1> DEFINE A == Inherited(f, m, "assign")
           H == Inherited(f, m, "handler")
           N == Len(f)
<1>1. N \in Nat /\ m \in Nat /\ m <= N /\ DOMAIN f = 1 .. N
  BY FileIs
<1>2. A \in SUBSET (1 .. N) /\ H \in SUBSET (1 .. N)
  BY <1>1, InheritedIs
<1>3. Upto(A, N) = A /\ Upto(H, N) = H
  <2> HIDE DEF A, H, N
  <2>1. (\A j \in A : j <= N) /\ \A j \in H : j <= N
    BY <1>1, <1>2
  <2> QED BY <2>1 DEF Upto
<1>4. \A i \in DOMAIN f : CommandsUpTo(f, N)[i] = CommandsIn(f)[i]
  BY CommandsUpToIs
<1>5. Entries(f, H, CommandsUpTo(f, N)) = Entries(f, H, CommandsIn(f))
  <2> DEFINE u == CommandsUpTo(f, N)
             w == CommandsIn(f)
  <2>1. N \in Nat /\ H \in SUBSET (1 .. N)
    BY <1>1, <1>2
  <2>2. \A j \in H : u[j] = w[j]
    BY <1>1, <1>2, <1>4
  <2> HIDE DEF H, N, u, w
  <2>3. Entries(f, H, u) = Entries(f, H, w)
    BY <2>1, <2>2, EntriesSame
  <2> QED BY <2>3 DEF u, w
<1> HIDE DEF A, H, N
<1>6. ProtocolUpTo(f, m, N) =
        Settings(f[m].name, Entries(f, A, Values(f)), Entries(f, H, CommandsIn(f)), CommandsIn(f)[m])
  BY <1>3, <1>4, <1>5 DEF ProtocolUpTo, A, H
<1>7. ProtocolAt(f, m) =
        Settings(f[m].name, Entries(f, A, Values(f)), Entries(f, H, CommandsIn(f)), CommandsIn(f)[m])
  BY DEF ProtocolAt, Settings, A, H
<1> QED BY <1>6, <1>7 DEF N

(* At the end of a file whose blocks are closed, all its protocols are     *)
(* there as the text gives them.                                           *)
LEMMA AllEnded ==
  ASSUME NEW f, IsFile(f), Blocks(f, Len(f), 0, 0)
  PROVE  Ended(f, Len(f)) = {ProtocolAt(f, m) : m \in Within(f, 0, "protocol")}
<1>1. \A m \in Within(f, 0, "protocol") : m \in DOMAIN f /\ m <= Len(f)
  BY FileIs DEF Within
<1>2. Open(f, Len(f)) = {}
  BY DEF Blocks
<1>3. Done(f, Len(f)) = Within(f, 0, "protocol")
  BY <1>1, <1>2 DEF Done
<1>4. \A m \in Within(f, 0, "protocol") : ProtocolUpTo(f, m, Len(f)) = ProtocolAt(f, m)
  BY <1>1, ProtocolIsAt
<1> QED BY <1>3, <1>4 DEF Ended

(* parseProtocol() takes the legal files and no others, and what it leaves *)
(* of them are the protocols that they define.                             *)
THEOREM ParserRight ==
  ASSUME NEW f, IsFile(f)
  PROVE  /\ ParseProtocol(f).valid <=> LegalFile(f)
         /\ LegalFile(f) => ParseProtocol(f).protocols =
                              {ProtocolAt(f, m) : m \in Within(f, 0, "protocol")}
<1> DEFINE end == Parsed(f)[Len(f)]
           N == Len(f)
<1>0. N \in Nat /\ DOMAIN f = 1 .. N
  BY FileIs
<1>1. /\ ParseProtocol(f).valid <=> end.valid /\ IsGlobal(end)
      /\ ParseProtocol(f).protocols = end.protocols
  BY ParseIs
<1>2. MeansSoFar(f, N, end)
  BY AllMeans
<1> HIDE DEF end, N
<1>3. LegalFile(f) <=> (\A i \in 1 .. N : LegalAt(f, i)) /\ Depth(f, N) = 0
  BY <1>0 DEF LegalFile, N
<1>4. CASE \A i \in 1 .. N : LegalAt(f, i)
  <2>1. PICK p \in Nat, h \in Nat : Blocks(f, N, p, h) /\ end = StateUpTo(f, N, p, h)
    BY <1>2, <1>4 DEF MeansSoFar
  <2>2. end.valid = TRUE /\ end.protocols = Ended(f, N)
    BY <2>1 DEF StateUpTo
  <2>3. IsGlobal(end) <=> p = 0 /\ h = 0
    BY <1>0, <2>1, StateIs
  <2>4. Depth(f, N) = 0 <=> p = 0 /\ h = 0
    BY <2>1 DEF Blocks
  <2>5. p = 0 /\ h = 0 => Ended(f, N) = {ProtocolAt(f, m) : m \in Within(f, 0, "protocol")}
    BY <2>1, AllEnded DEF N
  <2> QED BY <1>1, <1>3, <1>4, <2>2, <2>3, <2>4, <2>5
<1>5. CASE \E i \in 1 .. N : ~LegalAt(f, i)
  <2>1. ~end.valid
    BY <1>2, <1>5 DEF MeansSoFar
  <2> QED BY <1>1, <1>3, <1>5, <2>1
<1> QED BY <1>4, <1>5

(* The protocol of a name is the one that the file defines under it.       *)
LEMMA NamedIs ==
  ASSUME NEW f, IsFile(f), LegalFile(f), NEW name
  PROVE  LET named == Named(ParseProtocol(f).protocols, name) IN
         /\ named # {} <=> name \in ProtocolsIn(f)
         /\ named # {} => (CHOOSE p \in named : TRUE) = ProtocolIn(f, name)
<1> DEFINE W == Within(f, 0, "protocol")
           M == {m \in W : f[m].name = name}
           named == Named(ParseProtocol(f).protocols, name)
<1>1. \A m : ProtocolAt(f, m).name = f[m].name
  BY DEF ProtocolAt
<1>2. named = {ProtocolAt(f, m) : m \in M}
  <2>1. ParseProtocol(f).protocols = {ProtocolAt(f, m) : m \in W}
    BY ParserRight
  <2> QED BY <1>1, <2>1, Zenon DEF Named
<1>3. name \in ProtocolsIn(f) <=> M # {}
  BY DEF ProtocolsIn, NamesIn
<1>4. ASSUME NEW m \in M PROVE \A k \in M : k = m
  <2>1. Len(f) \in Nat /\ DOMAIN f = 1 .. Len(f)
    BY FileIs
  <2>2. OneOfName(f, Len(f))
    BY <2>1, LegalNames DEF LegalFile
  <2>3. \A k \in W : k <= Len(f)
    BY <2>1 DEF Within
  <2> HIDE DEF W
  <2> QED BY <2>2, <2>3 DEF OneOfName, W
<1>5. ASSUME NEW m \in M PROVE (CHOOSE p \in named : TRUE) = ProtocolIn(f, name)
  <2>1. named = {ProtocolAt(f, m)}
    <3> HIDE DEF M
    <3> QED BY <1>2, <1>4
  <2>2. (CHOOSE p \in named : TRUE) = ProtocolAt(f, m)
    <3> DEFINE q0 == ProtocolAt(f, m)
    <3> HIDE DEF q0, named
    <3>1. (CHOOSE p \in {q0} : TRUE) = q0
      OBVIOUS
    <3> QED BY <2>1, <3>1 DEF q0
  <2>3. (CHOOSE i \in W : f[i].name = name) = m
    <3> HIDE DEF W
    <3> QED BY <1>4
  <2> QED BY <2>2, <2>3 DEF ProtocolIn
<1>6. named # {} <=> M # {}
  <2> HIDE DEF M
  <2> QED BY <1>2
<1> HIDE DEF M, named
<1>7. (named # {} <=> name \in ProtocolsIn(f))
      /\ (named # {} => (CHOOSE p \in named : TRUE) = ProtocolIn(f, name))
  BY <1>3, <1>5, <1>6
<1> QED BY <1>7 DEF named

(* Compile: what the engine held before does not matter                    *)

EngineShape(e) == e = [settings |-> e.settings, code |-> e.code]

(* What a protocol compiles to with these arguments, if it is accepted.    *)
SettingsOf(p, args) == [s \in Setting |-> CompileSetting(p, args, s)]
CodeOf(p, args) == [b \in CodeBlock |-> GetCommands(p, args, Source(p, b), <<>>)]
Accepted(p, args) ==
  /\ \A s \in Setting : SettingsOf(p, args)[s].ok
  /\ \A b \in CodeBlock : CodeOf(p, args)[b].ok
NewEngine(p, args) ==
  [settings |-> [s \in Setting |-> SettingsOf(p, args)[s].value],
   code |-> [b \in CodeBlock |-> CodeOf(p, args)[b].code]]

(* The orders name settings and blocks only.                               *)
LEMMA OrdersAre ==
  /\ \A n \in DOMAIN SettingOrder : \A m \in 1 .. n - 1 : SettingOrder[m] \in Setting
  /\ \A n \in DOMAIN BlockOrder : \A m \in 1 .. n - 1 : BlockOrder[m] \in CodeBlock
<1>1. \A m \in 1 .. 12 : SettingOrder[m] \in Setting
  BY DEF SettingOrder, Setting, Defaults, Strings
<1>2. \A m \in 1 .. 6 : BlockOrder[m] \in CodeBlock
  BY DEF BlockOrder, CodeBlock, HandlerOf
<1>3. DOMAIN SettingOrder = 1 .. 12 /\ DOMAIN BlockOrder = 1 .. 6
  BY DEF SettingOrder, BlockOrder
<1>4. \A k \in Nat : \A n \in 1 .. k : \A m \in 1 .. n - 1 : m \in 1 .. k
  OBVIOUS
<1>5. 12 \in Nat /\ 6 \in Nat
  OBVIOUS
<1> QED BY <1>1, <1>2, <1>3, <1>4, <1>5

(* What is accepted as a whole is reached everywhere.                      *)
LEMMA AllReached ==
  ASSUME NEW p, NEW args
  PROVE  /\ (\A s \in Setting : SettingsOf(p, args)[s].ok) =>
              \A x : Reached(SettingOrder, SettingsOf(p, args), x)
         /\ (\A b \in CodeBlock : CodeOf(p, args)[b].ok) =>
              \A x : Reached(BlockOrder, CodeOf(p, args), x)
BY OrdersAre DEF Reached

(* Code that is replaced does not matter to the new code.                  *)
LEMMA OldCodeGone ==
  ASSUME NEW p, NEW args, NEW commands, NEW old
  PROVE  GetCommands(p, args, commands, old) = GetCommands(p, args, commands, <<>>)
BY DEF GetCommands, CompileCommands, Clear

(* The settings: nothing of the earlier ones is left if none is refused.   *)
LEMMA CompileSettingsIs ==
  ASSUME NEW e, EngineShape(e), NEW p, NEW args
  PROVE  LET set == CompileSettings(e, p, args) IN
         /\ set.ok <=> \A s \in Setting : SettingsOf(p, args)[s].ok
         /\ EngineShape(set.engine)
         /\ set.ok => set.engine.settings = [s \in Setting |-> SettingsOf(p, args)[s].value]
<1> DEFINE one == SettingsOf(p, args)
           new == [s \in Setting |-> IF Reached(SettingOrder, one, s) THEN one[s].value
                                     ELSE WithDefaults(e).settings[s]]
           set == CompileSettings(e, p, args)
<1>1. /\ set.ok <=> \A s \in Setting : one[s].ok
      /\ set.engine = [e EXCEPT !.settings = new]
  BY DEF CompileSettings, SettingsOf
<1>2. (\A s \in Setting : one[s].ok) => new = [s \in Setting |-> one[s].value]
  BY AllReached
<1> HIDE DEF one, new, set
<1>3. set.engine.settings = new /\ EngineShape(set.engine)
  <2>1. e = [settings |-> e.settings, code |-> e.code]
    BY DEF EngineShape
  <2>2. [e EXCEPT !.settings = new] = [settings |-> new, code |-> e.code]
    BY <2>1
  <2> QED BY <1>1, <2>2 DEF EngineShape
<1>4. /\ set.ok <=> \A s \in Setting : one[s].ok
      /\ EngineShape(set.engine)
      /\ set.ok => set.engine.settings = [s \in Setting |-> one[s].value]
  BY <1>1, <1>2, <1>3
<1> QED BY <1>4 DEF one, set

(* The blocks of code likewise; the settings stay as they are.             *)
LEMMA CompileCodeIs ==
  ASSUME NEW e, EngineShape(e), NEW p, NEW args
  PROVE  LET coded == CompileCode(e, p, args) IN
         /\ coded.ok <=> \A b \in CodeBlock : CodeOf(p, args)[b].ok
         /\ EngineShape(coded.engine) /\ coded.engine.settings = e.settings
         /\ coded.ok => coded.engine.code = [b \in CodeBlock |-> CodeOf(p, args)[b].code]
         /\ coded = [ok |-> coded.ok, engine |-> coded.engine]
<1> DEFINE one == CodeOf(p, args)
           new == [b \in CodeBlock |-> IF Reached(BlockOrder, one, b) THEN one[b].code
                                       ELSE e.code[b]]
           coded == CompileCode(e, p, args)
<1>0. [b \in CodeBlock |-> GetCommands(p, args, Source(p, b), e.code[b])] = one
  BY OldCodeGone DEF CodeOf
<1>1. coded = [ok |-> \A b \in CodeBlock : one[b].ok, engine |-> [e EXCEPT !.code = new]]
  <2> DEFINE c == [b \in CodeBlock |-> GetCommands(p, args, Source(p, b), e.code[b])]
  <2>1. coded = [ok |-> \A b \in CodeBlock : c[b].ok,
                 engine |-> [e EXCEPT !.code = [b \in CodeBlock |->
                    IF Reached(BlockOrder, c, b) THEN c[b].code ELSE e.code[b]]]]
    BY Zenon DEF CompileCode
  <2> HIDE DEF coded, one
  <2>2. c = one
    BY <1>0
  <2> HIDE DEF c
  <2> QED BY <2>1, <2>2
<1>2. (\A b \in CodeBlock : one[b].ok) => new = [b \in CodeBlock |-> one[b].code]
  BY AllReached
<1> HIDE DEF one, new, coded
<1>3. coded.engine.code = new /\ EngineShape(coded.engine) /\ coded.engine.settings = e.settings
  <2>1. e = [settings |-> e.settings, code |-> e.code]
    BY DEF EngineShape
  <2>2. [e EXCEPT !.code = new] = [settings |-> e.settings, code |-> new]
    BY <2>1
  <2> QED BY <1>1, <2>2 DEF EngineShape
<1>4. /\ coded.ok <=> \A b \in CodeBlock : one[b].ok
      /\ EngineShape(coded.engine) /\ coded.engine.settings = e.settings
      /\ coded.ok => coded.engine.code = [b \in CodeBlock |-> one[b].code]
      /\ coded = [ok |-> coded.ok, engine |-> coded.engine]
  BY <1>1, <1>2, <1>3
<1> QED BY <1>4 DEF one, coded

(* A protocol is compiled or refused, and to what, whatever the engine had *)
(* been compiled to before.                                                *)
THEOREM CompileIs ==
  ASSUME NEW e, EngineShape(e), NEW p, NEW args
  PROVE  /\ Compile(e, p, args).ok <=> Accepted(p, args) /\ CheckUnused(p)
         /\ Compile(e, p, args).ok => Compile(e, p, args).engine = NewEngine(p, args)
         /\ EngineShape(Compile(e, p, args).engine)
<1> DEFINE set == CompileSettings(e, p, args)
           coded == CompileCode(set.engine, p, args)
<1>1. Compile(e, p, args) = IF ~set.ok THEN set ELSE [coded EXCEPT !.ok = coded.ok /\ CheckUnused(p)]
  BY DEF Compile
<1>2. /\ set.ok <=> \A s \in Setting : SettingsOf(p, args)[s].ok
      /\ EngineShape(set.engine)
      /\ set.ok => set.engine.settings = [s \in Setting |-> SettingsOf(p, args)[s].value]
  BY CompileSettingsIs
<1> HIDE DEF set
<1>3. /\ coded.ok <=> \A b \in CodeBlock : CodeOf(p, args)[b].ok
      /\ EngineShape(coded.engine) /\ coded.engine.settings = set.engine.settings
      /\ coded.ok => coded.engine.code = [b \in CodeBlock |-> CodeOf(p, args)[b].code]
      /\ coded = [ok |-> coded.ok, engine |-> coded.engine]
  BY <1>2, CompileCodeIs
<1> HIDE DEF coded
<1>4. CASE ~set.ok
  <2>1. Compile(e, p, args) = set
    BY <1>1, <1>4
  <2> QED BY <1>2, <1>4, <2>1 DEF Accepted
<1>5. CASE set.ok
  <2>1. /\ Compile(e, p, args).ok <=> coded.ok /\ CheckUnused(p)
        /\ Compile(e, p, args).engine = coded.engine
    <3>1. Compile(e, p, args) = [coded EXCEPT !.ok = coded.ok /\ CheckUnused(p)]
      BY <1>1, <1>5
    <3> QED BY <1>3, <3>1
  <2>2. coded.ok => coded.engine = NewEngine(p, args)
    BY <1>2, <1>3, <1>5 DEF NewEngine, EngineShape
  <2> QED BY <1>2, <1>3, <1>5, <2>1, <2>2 DEF Accepted
<1> QED BY <1>4, <1>5
=============================================================================
