-------------------------- MODULE LineReader_proofs -------------------------
(***************************************************************************)
(* The lines that `in` commands see are those of the stream, however it is *)
(* cut into chunks: for every stream, terminator and MaxInput, as long as  *)
(* a protocol does not combine the two.                                    *)
(***************************************************************************)
EXTENDS LineReader, TLAPS, WellFoundedInduction, SequenceTheorems

-----------------------------------------------------------------------------
(* SplitLines is well defined *)

(* A set of naturals has a least element.                                  *)
LEMMA LeastNatural ==
  ASSUME NEW S \in SUBSET Nat, S # {}
  PROVE  \E x \in S : \A y \in S : x <= y
<1> DEFINE R == OpToRel(<, Nat)
<1>1. IsWellFoundedOn(R, Nat)
  BY NatLessThanWellFounded
<1>2. R = {ss \in Nat \X Nat : ss[1] < ss[2]}
  BY DEF OpToRel
<1> HIDE DEF R
<1>3. PICK x \in S : \A y \in S : ~ (<<y, x>> \in R)
  BY <1>1, WFMin
<1>4. ASSUME NEW y \in S PROVE x <= y
  <2>1. x \in Nat /\ y \in Nat
    OBVIOUS
  <2>2. <<y, x>> \in Nat \X Nat
    BY <2>1
  <2>3. ~ (<<y, x>>[1] < <<y, x>>[2])
    BY <1>2, <1>3, <2>2
  <2> QED
    BY <2>1, <2>3
<1> QED
  BY <1>4

(* f gives every element a list: its head, and then the list of the next.  *)
GivesLists(f, S, done, head, next) ==
  f = [s \in S |-> IF s \in done THEN <<>> ELSE <<head[s]>> \o f[next[s]]]

(* A list is defined for every element of S if the rest of it is that of   *)
(* an element with a smaller measure.                                      *)
LEMMA RecursiveLists ==
  ASSUME NEW S, NEW size \in [S -> Nat], NEW done, NEW head, NEW next \in [S -> S],
         \A s \in S : s \notin done => size[next[s]] < size[s]
  PROVE  \E f : GivesLists(f, S, done, head, next)
<1> DEFINE Small(n) == {s \in S : size[s] < n}
           Step(f, s) == IF s \in done THEN <<>> ELSE <<head[s]>> \o f[next[s]]
           Approx(n, f) == f = [s \in Small(n) |-> Step(f, s)]
<1>1. ASSUME NEW m \in Nat, NEW n \in Nat, NEW f, NEW g, Approx(m, f), Approx(n, g),
             NEW s \in S, size[s] < m, size[s] < n
      PROVE  f[s] = g[s]
  <2> DEFINE Bad == {s2 \in S : size[s2] < m /\ size[s2] < n /\ f[s2] # g[s2]}
             Sizes == {size[s2] : s2 \in Bad}
  <2> SUFFICES ASSUME Bad # {} PROVE FALSE
    BY <1>1
  <2>1. Sizes \in SUBSET Nat /\ Sizes # {}
    OBVIOUS
  <2>2. PICK least \in Sizes : \A y \in Sizes : least <= y
    <3> HIDE DEF Sizes
    <3> QED
      BY <2>1, LeastNatural
  <2>3. PICK t \in Bad : least = size[t]
    OBVIOUS
  <2>4. t \in S /\ size[t] \in Nat /\ size[t] < m /\ size[t] < n /\ f[t] # g[t]
    BY <2>3
  <2>5. f[t] = Step(f, t) /\ g[t] = Step(g, t)
    BY <1>1, <2>4
  <2>6. t \notin done
    BY <2>4, <2>5
  <2>7. next[t] \in S /\ size[next[t]] \in Nat /\ size[next[t]] < size[t]
    BY <2>4, <2>6
  <2>8. next[t] \notin Bad
    <3>1. next[t] \in Bad => size[next[t]] \in Sizes
      OBVIOUS
    <3> HIDE DEF Bad, Sizes
    <3> QED
      BY <2>2, <2>3, <2>4, <2>7, <3>1
  <2>9. f[next[t]] = g[next[t]]
    BY <2>4, <2>7, <2>8
  <2> QED
    BY <2>4, <2>5, <2>6, <2>9
<1>2. ASSUME NEW n \in Nat PROVE \E f : Approx(n, f)
  <2> DEFINE Bad == {m \in Nat : ~\E f : Approx(m, f)}
  <2> SUFFICES ASSUME Bad # {} PROVE FALSE
    OBVIOUS
  <2>1. PICK least \in Bad : \A y \in Bad : least <= y
    <3>1. Bad \in SUBSET Nat
      OBVIOUS
    <3> HIDE DEF Bad
    <3> QED
      BY <3>1, LeastNatural
  <2>2. least # 0
    <3> DEFINE none == [s \in Small(0) |-> <<>>]
    <3>1. Small(0) = {}
      OBVIOUS
    <3>2. Approx(0, none)
      BY <3>1
    <3> QED
      BY <3>2, ZenonT(60)
  <2>3. PICK f : Approx(least - 1, f)
    <3>1. least - 1 \in Nat /\ least - 1 \notin Bad
      <4>1. least \in Nat
        OBVIOUS
      <4> HIDE DEF Bad
      <4> QED
        BY <2>1, <2>2, <4>1
    <3> QED
      BY <3>1
  <2> DEFINE g == [s \in Small(least) |-> Step(f, s)]
  <2>4. ASSUME NEW s \in Small(least) PROVE Step(f, s) = Step(g, s)
    <3>1. CASE s \in done
      BY <3>1
    <3>2. CASE s \notin done
      <4>1. next[s] \in S /\ size[next[s]] \in Nat /\ size[s] \in Nat /\ least \in Nat
            /\ size[next[s]] < size[s] /\ size[s] < least
        BY <3>2
      <4>2. next[s] \in Small(least) /\ next[s] \in Small(least - 1)
        BY <4>1
      <4>3. f[next[s]] = Step(f, next[s])
        BY <2>3, <4>2
      <4>4. g[next[s]] = Step(f, next[s])
        BY <4>2
      <4> QED
        BY <3>2, <4>3, <4>4
    <3> QED
      BY <3>1, <3>2
  <2>5. Approx(least, g)
    <3> HIDE DEF Step, Small
    <3> QED
      BY <2>4
  <2> QED
    BY <2>5
<1> DEFINE Of(n) == CHOOSE f : Approx(n, f)
           all == [s \in S |-> Of(size[s] + 1)[s]]
<1>3. ASSUME NEW n \in Nat PROVE Approx(n, Of(n))
  <2> HIDE DEF Approx
  <2> QED
    BY <1>2
<1>4. ASSUME NEW s \in S PROVE all[s] = Step(all, s)
  <2>1. size[s] \in Nat /\ size[s] + 1 \in Nat /\ size[s] < size[s] + 1
    OBVIOUS
  <2> DEFINE g == Of(size[s] + 1)
  <2>2. Approx(size[s] + 1, g)
    BY <1>3, <2>1
  <2>3. all[s] = g[s]
    OBVIOUS
  <2> HIDE DEF g, all
  <2>4. g[s] = Step(g, s)
    BY <2>1, <2>2
  <2>5. CASE s \in done
    BY <2>3, <2>4, <2>5
  <2>6. CASE s \notin done
    <3>1. next[s] \in S /\ size[next[s]] \in Nat /\ size[next[s]] < size[s]
      BY <2>6
    <3>2. all[next[s]] = Of(size[next[s]] + 1)[next[s]]
      BY <3>1 DEF all
    <3>3. Approx(size[next[s]] + 1, Of(size[next[s]] + 1))
      <4>1. size[next[s]] + 1 \in Nat
        BY <3>1
      <4> HIDE DEF Approx, Of
      <4> QED
        BY <1>3, <4>1
    <3>4. Of(size[next[s]] + 1)[next[s]] = g[next[s]]
      <4> HIDE DEF Approx, Of
      <4> QED
        BY <1>1, <2>1, <2>2, <3>1, <3>3
    <3> QED
      BY <2>3, <2>4, <2>6, <3>2, <3>4
  <2> QED
    BY <2>5, <2>6
<1>5. all = [s \in S |-> Step(all, s)]
  <2>1. all = [s \in S |-> all[s]]
    OBVIOUS
  <2> HIDE DEF all, Step
  <2> QED
    BY <1>4, <2>1
<1> HIDE DEF all
<1>6. GivesLists(all, S, done, head, next)
  BY <1>5, Zenon DEF GivesLists
<1> QED
  BY <1>6

-----------------------------------------------------------------------------
(* Where a line ends *)

(* Find's result is the first place of the pattern, or there is none.      *)
LEMMA FindFirst ==
  ASSUME NEW buffer \in Seq(Byte), NEW pattern \in Seq(Byte), NEW start \in Nat
  PROVE  LET Hit(i) == /\ start <= i /\ i + Len(pattern) <= Len(buffer)
                       /\ SubSeq(buffer, i + 1, i + Len(pattern)) = pattern
             at == Find(buffer, pattern, start)
         IN  \/ at = NotFound /\ \A i \in Nat : ~Hit(i)
             \/ at \in Nat /\ Hit(at) /\ \A i \in Nat : Hit(i) => at <= i
<1> DEFINE Hits == { i \in start .. Len(buffer) - Len(pattern) :
                       SubSeq(buffer, i + 1, i + Len(pattern)) = pattern }
           Hit(i) == /\ start <= i /\ i + Len(pattern) <= Len(buffer)
                     /\ SubSeq(buffer, i + 1, i + Len(pattern)) = pattern
           at == Find(buffer, pattern, start)
<1>0. at = IF Hits = {} THEN NotFound ELSE Min(Hits)
  BY Zenon DEF Find
<1>1. \A i \in Nat : Hit(i) <=> i \in Hits
  OBVIOUS
<1>2. CASE Hits = {}
  BY <1>0, <1>1, <1>2
<1>3. CASE Hits # {}
  <2>1. Hits \in SUBSET Nat
    OBVIOUS
  <2>2. PICK least \in Hits : \A i \in Hits : least <= i
    <3> HIDE DEF Hits
    <3> QED
      BY <1>3, <2>1, LeastNatural
  <2>3. Min(Hits) \in Hits /\ \A i \in Hits : Min(Hits) <= i
    <3> HIDE DEF Hits
    <3>1. \E i \in Hits : \A j \in Hits : i <= j
      BY <2>2
    <3> QED
      BY <3>1, Zenon DEF Min
  <2>4. at \in Hits /\ \A i \in Hits : at <= i
    BY <1>0, <1>3, <2>3, Zenon
  <2>5. at \in Nat /\ Hit(at) /\ \A i \in Nat : Hit(i) => at <= i
    <3> HIDE DEF Hits, Hit, at
    <3> QED
      BY <1>1, <2>1, <2>4
  <2> QED
    BY <2>5, Zenon
<1> QED
  BY <1>2, <1>3

(* Where a part of a string lies does not depend on what follows it.       *)
LEMMA SamePart ==
  ASSUME NEW s \in Seq(Byte), NEW rest \in Seq(Byte), NEW i \in Nat, NEW n \in Nat, n <= Len(s)
  PROVE  SubSeq(s \o rest, i + 1, n) = SubSeq(s, i + 1, n)
<1>1. s \o rest \in Seq(Byte) /\ Len(s \o rest) = Len(s) + Len(rest)
  OBVIOUS
<1>2. \A k \in 1 .. Len(s) : (s \o rest)[k] = s[k]
  OBVIOUS
<1> QED
  BY <1>1, <1>2, SubSeqProperties

(* A terminator is found where it was found before more bytes came.        *)
LEMMA FindStays ==
  ASSUME NEW s \in Seq(Byte), NEW rest \in Seq(Byte), NEW pattern \in Seq(Byte),
         Find(s, pattern, 0) # NotFound
  PROVE  Find(s \o rest, pattern, 0) = Find(s, pattern, 0)
<1> DEFINE Hit(b, i) == /\ 0 <= i /\ i + Len(pattern) <= Len(b)
                        /\ SubSeq(b, i + 1, i + Len(pattern)) = pattern
           at == Find(s, pattern, 0)
           found == Find(s \o rest, pattern, 0)
<1>1. s \o rest \in Seq(Byte) /\ Len(s \o rest) = Len(s) + Len(rest) /\ Len(rest) \in Nat
      /\ Len(s) \in Nat /\ Len(pattern) \in Nat
  OBVIOUS
<1>2. at \in Nat /\ Hit(s, at) /\ \A i \in Nat : Hit(s, i) => at <= i
  BY FindFirst
<1>3. \/ found = NotFound /\ \A i \in Nat : ~Hit(s \o rest, i)
      \/ found \in Nat /\ Hit(s \o rest, found) /\ \A i \in Nat : Hit(s \o rest, i) => found <= i
  BY <1>1, FindFirst
<1>4. ASSUME NEW i \in Nat, i + Len(pattern) <= Len(s) PROVE Hit(s \o rest, i) <=> Hit(s, i)
  <2>1. i + Len(pattern) \in Nat
    BY <1>1
  <2>2. SubSeq(s \o rest, i + 1, i + Len(pattern)) = SubSeq(s, i + 1, i + Len(pattern))
    BY <1>4, <2>1, SamePart
  <2> QED
    BY <1>1, <1>4, <2>2
<1>5. Hit(s \o rest, at)
  BY <1>2, <1>4
<1>6. found \in Nat /\ Hit(s \o rest, found) /\ found <= at
  BY <1>2, <1>3, <1>5
<1>7. found + Len(pattern) <= Len(s)
  <2> HIDE DEF at, found
  <2> QED
    BY <1>1, <1>2, <1>6
<1>8. at <= found
  BY <1>2, <1>4, <1>6, <1>7
<1> HIDE DEF at, found
<1>9. found = at
  BY <1>2, <1>6, <1>8
<1> QED
  BY <1>9 DEF at, found

(* The end of a line lies within the string, and something is cut off.     *)
LEMMA EndWithin ==
  ASSUME OneEnd, framing \in Framings,
         NEW s \in Seq(Byte), EndOf(s).end # NotFound
  PROVE  /\ EndOf(s).end \in Nat /\ EndOf(s).termlen \in Nat
         /\ EndOf(s).end + EndOf(s).termlen \in 1 .. Len(s)
<1> DEFINE terminator == framing.terminator
           maxInput == framing.maxInput
<1>1. terminator \in Seq(Byte) /\ maxInput \in Nat /\ (terminator = <<>> <=> maxInput > 0)
  BY LineReaderAssumption DEF OneEnd
<1>2. CASE terminator = <<>>
  <2>1. EndOf(s) = [end |-> IF Len(s) < maxInput THEN NotFound ELSE maxInput, termlen |-> 0]
    BY <1>2 DEF EndOf
  <2> HIDE DEF terminator, maxInput
  <2> QED
    BY <1>1, <1>2, <2>1
<1>3. CASE terminator # <<>>
  <2>1. EndOf(s) = [end |-> Find(s, terminator, 0), termlen |-> Len(terminator)]
    BY <1>3 DEF EndOf
  <2> HIDE DEF terminator
  <2>2. Find(s, terminator, 0) # NotFound
    BY <2>1
  <2>3. Find(s, terminator, 0) \in Nat /\ Find(s, terminator, 0) + Len(terminator) <= Len(s)
    BY <1>1, <2>2, FindFirst
  <2>4. Len(terminator) \in Nat \ {0}
    BY <1>1, <1>3
  <2> QED
    BY <2>1, <2>3, <2>4
<1> QED
  BY <1>2, <1>3

(* The first line ends where it ends, whatever follows.                    *)
LEMMA EndStays ==
  ASSUME OneEnd, framing \in Framings,
         NEW s \in Seq(Byte), NEW rest \in Seq(Byte), EndOf(s).end # NotFound
  PROVE  EndOf(s \o rest) = EndOf(s)
<1> DEFINE terminator == framing.terminator
           maxInput == framing.maxInput
<1>1. terminator \in Seq(Byte) /\ maxInput \in Nat
  BY LineReaderAssumption
<1>2. CASE terminator = <<>>
  <2>1. \A t : EndOf(t) = [end |-> IF Len(t) < maxInput THEN NotFound ELSE maxInput, termlen |-> 0]
    BY <1>2 DEF EndOf
  <2>2. ~(Len(s) < maxInput)
    BY <2>1
  <2>3. Len(s \o rest) \in Nat /\ Len(s) <= Len(s \o rest)
    OBVIOUS
  <2> HIDE DEF maxInput
  <2>4. ~(Len(s \o rest) < maxInput)
    BY <1>1, <2>2, <2>3
  <2> QED
    BY <2>1, <2>2, <2>4, Zenon
<1>3. CASE terminator # <<>>
  <2>1. \A t : EndOf(t) = [end |-> Find(t, terminator, 0), termlen |-> Len(terminator)]
    BY <1>3 DEF EndOf
  <2>2. Find(s, terminator, 0) # NotFound
    BY <2>1
  <2>3. Find(s \o rest, terminator, 0) = Find(s, terminator, 0)
    BY <1>1, <2>2, FindStays
  <2> QED
    BY <2>1, <2>3, Zenon
<1> QED
  BY <1>2, <1>3

(* The rest of a string from a place on.                                   *)
LEMMA RestOfString ==
  ASSUME NEW s \in Seq(Byte), NEW cut \in Nat, cut <= Len(s)
  PROVE  LET rest == SubSeq(s, cut + 1, Len(s))
         IN  /\ rest \in Seq(Byte) /\ Len(rest) = Len(s) - cut
             /\ \A k \in 1 .. Len(rest) : rest[k] = s[cut + k]
<1> DEFINE rest == SubSeq(s, cut + 1, Len(s))
<1>1. cut + 1 \in Int /\ Len(s) \in Int /\ \A i \in cut + 1 .. Len(s) : s[i] \in Byte
  OBVIOUS
<1>2. /\ rest \in Seq(Byte)
      /\ Len(rest) = IF cut + 1 <= Len(s) THEN Len(s) - (cut + 1) + 1 ELSE 0
      /\ \A k \in 1 .. Len(s) - (cut + 1) + 1 : rest[k] = s[cut + 1 + k - 1]
  BY <1>1, SubSeqProperties
<1> HIDE DEF rest
<1>3. Len(rest) = Len(s) - cut
  BY <1>2
<1>4. ASSUME NEW k \in 1 .. Len(rest) PROVE rest[k] = s[cut + k]
  <2>1. k \in 1 .. Len(s) - (cut + 1) + 1 /\ cut + 1 + k - 1 = cut + k
    BY <1>3
  <2> QED
    BY <1>2, <2>1
<1> QED
  BY <1>2, <1>3, <1>4 DEF rest

(* A line cut off a string is cut off a longer one alike.                  *)
LEMMA CutStays ==
  ASSUME NEW s \in Seq(Byte), NEW rest \in Seq(Byte), NEW line,
         line.end \in Nat, line.termlen \in Nat, line.end + line.termlen <= Len(s)
  PROVE  /\ LineText(s, line) \in Seq(Byte)
         /\ AfterLine(s, line) \in Seq(Byte)
         /\ Len(AfterLine(s, line)) = Len(s) - (line.end + line.termlen)
         /\ LineText(s \o rest, line) = LineText(s, line)
         /\ AfterLine(s \o rest, line) = AfterLine(s, line) \o rest
<1> DEFINE cut == line.end + line.termlen
           whole == s \o rest
           after == SubSeq(s, cut + 1, Len(s))
           afterWhole == SubSeq(whole, cut + 1, Len(whole))
<1>1. cut \in Nat /\ cut <= Len(s) /\ line.end <= Len(s)
  OBVIOUS
<1>2. /\ whole \in Seq(Byte) /\ Len(whole) = Len(s) + Len(rest)
      /\ \A k \in 1 .. Len(whole) : whole[k] = IF k <= Len(s) THEN s[k] ELSE rest[k - Len(s)]
  BY ConcatProperties
<1>3. LineText(s, line) \in Seq(Byte) /\ LineText(whole, line) = LineText(s, line)
  <2>1. SubSeq(whole, 0 + 1, line.end) = SubSeq(s, 0 + 1, line.end)
    BY <1>1, SamePart
  <2>2. SubSeq(s, 1, line.end) \in Seq(Byte)
    BY <1>1, SubSeqProperties
  <2> QED
    BY <2>1, <2>2 DEF LineText
<1>4. after \in Seq(Byte) /\ Len(after) = Len(s) - cut
      /\ \A k \in 1 .. Len(after) : after[k] = s[cut + k]
  <2> HIDE DEF cut
  <2> QED
    BY <1>1, RestOfString
<1>5. afterWhole \in Seq(Byte) /\ Len(afterWhole) = Len(whole) - cut
      /\ \A k \in 1 .. Len(afterWhole) : afterWhole[k] = whole[cut + k]
  <2> HIDE DEF cut, whole
  <2>1. cut <= Len(whole)
    BY <1>1, <1>2
  <2> QED
    BY <1>1, <1>2, <2>1, RestOfString
<1>6. afterWhole = after \o rest
  <2>1. /\ after \o rest \in Seq(Byte) /\ Len(after \o rest) = Len(after) + Len(rest)
        /\ \A k \in 1 .. Len(after \o rest) :
             (after \o rest)[k] = IF k <= Len(after) THEN after[k] ELSE rest[k - Len(after)]
    <3> HIDE DEF after
    <3> QED
      BY <1>4, ConcatProperties, SMTT(30)
  <2> HIDE DEF after, afterWhole, whole, cut
  <2>2. Len(afterWhole) = Len(after \o rest)
    BY <1>1, <1>2, <1>4, <1>5, <2>1
  <2>3. ASSUME NEW k \in 1 .. Len(afterWhole) PROVE afterWhole[k] = (after \o rest)[k]
    <3>1. cut + k \in 1 .. Len(whole) /\ afterWhole[k] = whole[cut + k]
      BY <1>1, <1>2, <1>5
    <3>2. CASE k <= Len(after)
      BY <1>1, <1>2, <1>4, <2>1, <2>2, <3>1, <3>2
    <3>3. CASE ~(k <= Len(after))
      <4>1. cut + k - Len(s) = k - Len(after)
        BY <1>1, <1>4, <2>3
      <4> QED
        BY <1>1, <1>2, <1>4, <2>1, <2>2, <3>1, <3>3, <4>1, SMTT(30)
    <3> QED
      BY <3>2, <3>3
  <2> QED
    BY <1>5, <2>1, <2>2, <2>3, SeqEqual
<1> QED
  BY <1>3, <1>4, <1>6 DEF AfterLine

-----------------------------------------------------------------------------
(* The lines of a string *)

(* SplitLines is the recursion it is written as.                           *)
LEMMA SplitStep ==
  ASSUME OneEnd, framing \in Framings
  PROVE  SplitLines = [s \in Seq(Byte) |->
           IF EndOf(s).end = NotFound THEN <<>>
           ELSE <<LineText(s, EndOf(s))>> \o SplitLines[AfterLine(s, EndOf(s))]]
<1> DEFINE size == [s \in Seq(Byte) |-> Len(s)]
           done == {s \in Seq(Byte) : EndOf(s).end = NotFound}
           head == [s \in Seq(Byte) |-> LineText(s, EndOf(s))]
           next == [s \in Seq(Byte) |-> IF s \in done THEN s ELSE AfterLine(s, EndOf(s))]
<1>1. ASSUME NEW s \in Seq(Byte), s \notin done
      PROVE  AfterLine(s, EndOf(s)) \in Seq(Byte) /\ Len(AfterLine(s, EndOf(s))) < Len(s)
  <2>1. /\ EndOf(s).end \in Nat /\ EndOf(s).termlen \in Nat
        /\ EndOf(s).end + EndOf(s).termlen \in 1 .. Len(s)
    BY <1>1, EndWithin
  <2>2. /\ AfterLine(s, EndOf(s)) \in Seq(Byte)
        /\ Len(AfterLine(s, EndOf(s))) = Len(s) - (EndOf(s).end + EndOf(s).termlen)
    BY <2>1, CutStays
  <2> QED
    BY <2>1, <2>2
<1>2. size \in [Seq(Byte) -> Nat] /\ next \in [Seq(Byte) -> Seq(Byte)]
  BY <1>1
<1>3. \A s \in Seq(Byte) : s \notin done => size[next[s]] < size[s]
  BY <1>1
<1>4. PICK f : GivesLists(f, Seq(Byte), done, head, next)
  <2> HIDE DEF size, done, head, next
  <2> QED
    BY <1>2, <1>3, RecursiveLists
<1>5. f = [s \in Seq(Byte) |-> IF s \in done THEN <<>> ELSE <<head[s]>> \o f[next[s]]]
  BY <1>4, Zenon DEF GivesLists
<1>6. f = [s \in Seq(Byte) |->
             IF EndOf(s).end = NotFound THEN <<>>
             ELSE <<LineText(s, EndOf(s))>> \o f[AfterLine(s, EndOf(s))]]
  BY <1>5
<1> QED
  BY <1>6, Zenon DEF SplitLines

(* The lines of a string are strings.                                      *)
LEMMA SplitType ==
  ASSUME OneEnd, framing \in Framings, NEW s \in Seq(Byte)
  PROVE  SplitLines[s] \in Seq(Seq(Byte))
<1> DEFINE Bad == {t \in Seq(Byte) : SplitLines[t] \notin Seq(Seq(Byte))}
           Sizes == {Len(t) : t \in Bad}
<1> SUFFICES ASSUME Bad # {} PROVE FALSE
  OBVIOUS
<1>1. PICK least \in Sizes : \A n \in Sizes : least <= n
  <2>1. \A t \in Bad : Len(t) \in Nat
    OBVIOUS
  <2> HIDE DEF Bad
  <2>2. Sizes \in SUBSET Nat /\ Sizes # {}
    BY <2>1
  <2> HIDE DEF Sizes
  <2> QED
    BY <2>2, LeastNatural
<1>2. PICK t \in Bad : least = Len(t)
  OBVIOUS
<1>3. t \in Seq(Byte) /\ SplitLines[t] \notin Seq(Seq(Byte))
  BY <1>2
<1> DEFINE line == EndOf(t)
<1>4. SplitLines[t] = IF line.end = NotFound THEN <<>>
                      ELSE <<LineText(t, line)>> \o SplitLines[AfterLine(t, line)]
  BY <1>3, SplitStep
<1>5. line.end # NotFound
  <2>1. <<>> \in Seq(Seq(Byte))
    OBVIOUS
  <2> QED
    BY <1>3, <1>4, <2>1
<1>6. /\ line.end \in Nat /\ line.termlen \in Nat
      /\ line.end + line.termlen \in 1 .. Len(t)
  BY <1>3, <1>5, EndWithin
<1>7. /\ LineText(t, line) \in Seq(Byte) /\ AfterLine(t, line) \in Seq(Byte)
      /\ Len(AfterLine(t, line)) = Len(t) - (line.end + line.termlen)
  BY <1>3, <1>6, CutStays
<1> HIDE DEF line
<1>8. AfterLine(t, line) \notin Bad
  <2>1. Len(AfterLine(t, line)) < Len(t)
    BY <1>3, <1>6, <1>7
  <2>2. AfterLine(t, line) \in Bad => Len(AfterLine(t, line)) \in Sizes
    OBVIOUS
  <2> HIDE DEF Bad, Sizes
  <2>3. Len(AfterLine(t, line)) \in Nat /\ Len(t) \in Nat
    BY <1>3, <1>7
  <2> QED
    BY <1>1, <1>2, <2>1, <2>2, <2>3
<1>9. SplitLines[AfterLine(t, line)] \in Seq(Seq(Byte))
  BY <1>7, <1>8
<1> QED
  BY <1>3, <1>4, <1>5, <1>7, <1>9

(* The first line of a string and the lines of the rest.                   *)
LEMMA SplitCut ==
  ASSUME OneEnd, framing \in Framings,
         NEW s \in Seq(Byte), NEW rest \in Seq(Byte), EndOf(s).end # NotFound
  PROVE  /\ LineText(s, EndOf(s)) \in Seq(Byte)
         /\ AfterLine(s, EndOf(s)) \in Seq(Byte)
         /\ SplitLines[s \o rest]
              = <<LineText(s, EndOf(s))>> \o SplitLines[AfterLine(s, EndOf(s)) \o rest]
<1> DEFINE line == EndOf(s)
<1>1. /\ line.end \in Nat /\ line.termlen \in Nat
      /\ line.end + line.termlen \in 1 .. Len(s)
  BY EndWithin
<1>2. EndOf(s \o rest) = line
  BY EndStays
<1>3. /\ LineText(s, line) \in Seq(Byte)
      /\ AfterLine(s, line) \in Seq(Byte)
      /\ LineText(s \o rest, line) = LineText(s, line)
      /\ AfterLine(s \o rest, line) = AfterLine(s, line) \o rest
  BY <1>1, CutStays, SMTT(30)
<1>4. s \o rest \in Seq(Byte)
  OBVIOUS
<1>5. SplitLines[s \o rest] = <<LineText(s, line)>> \o SplitLines[AfterLine(s, line) \o rest]
  <2>1. EndOf(s \o rest).end # NotFound
    BY <1>2
  <2>2. SplitLines[s \o rest] = <<LineText(s \o rest, EndOf(s \o rest))>>
                                  \o SplitLines[AfterLine(s \o rest, EndOf(s \o rest))]
    BY <1>4, <2>1, SplitStep
  <2> QED
    BY <1>2, <1>3, <2>2, Zenon
<1> QED
  BY <1>3, <1>5

(* Strings are joined in any order.                                        *)
Join(s, t) == s \o t
LEMMA JoinAssociative ==
  \A S : \A s, t, u : s \in Seq(S) /\ t \in Seq(S) /\ u \in Seq(S)
                       => Join(Join(s, t), u) = Join(s, Join(t, u))
BY ConcatAssociative DEF Join

-----------------------------------------------------------------------------
(* The lines that readCallback() finds *)

(* The bytes that are not searched again hold no terminator.               *)
LEMMA SearchMissesNothing ==
  ASSUME framing \in Framings, framing.terminator # <<>>,
         NEW old \in Seq(Byte), NEW chunk \in Seq(Byte), NEW unparsed \in BOOLEAN,
         Find(old, framing.terminator, 0) = NotFound
  PROVE  Find(old \o chunk, framing.terminator, SearchStart(old \o chunk, Len(chunk), unparsed))
           = Find(old \o chunk, framing.terminator, 0)
<1> DEFINE pattern == framing.terminator
           buffer == old \o chunk
           start == SearchStart(buffer, Len(chunk), unparsed)
           Hit(b, from, i) == /\ from <= i /\ i + Len(pattern) <= Len(b)
                              /\ SubSeq(b, i + 1, i + Len(pattern)) = pattern
           first == Find(buffer, pattern, 0)
           found == Find(buffer, pattern, start)
<1>1. pattern \in Seq(Byte) /\ Len(pattern) \in Nat
  BY LineReaderAssumption
<1>2. /\ buffer \in Seq(Byte) /\ Len(buffer) = Len(old) + Len(chunk)
      /\ Len(old) \in Nat /\ Len(chunk) \in Nat
  OBVIOUS
<1>3. start \in Nat /\ (start = 0 \/ start = Len(old) - Len(pattern))
  <2>1. start = IF unparsed \/ Len(buffer) < Len(chunk) + Len(pattern) THEN 0
                ELSE Len(buffer) - Len(chunk) - Len(pattern)
    BY DEF SearchStart
  <2> HIDE DEF start, pattern, buffer
  <2> QED
    BY <1>1, <1>2, <2>1
<1>4. \A i \in Nat : ~Hit(old, 0, i)
  <2> DEFINE before == Find(old, pattern, 0)
  <2>1. before = NotFound
    OBVIOUS
  <2>2. \/ before = NotFound /\ \A i \in Nat : ~Hit(old, 0, i)
        \/ before \in Nat
    <3> HIDE DEF pattern
    <3> QED
      BY <1>1, FindFirst
  <2> HIDE DEF before, Hit
  <2> QED
    BY <2>1, <2>2 DEF NotFound
<1>5. ASSUME NEW i \in Nat, i < start PROVE ~Hit(buffer, 0, i)
  <2>1. start = Len(old) - Len(pattern) /\ i + Len(pattern) <= Len(old)
        /\ i + Len(pattern) \in Nat
    <3> HIDE DEF start, pattern
    <3> QED
      BY <1>1, <1>2, <1>3, <1>5
  <2> HIDE DEF pattern, start
  <2>2. SubSeq(buffer, i + 1, i + Len(pattern)) = SubSeq(old, i + 1, i + Len(pattern))
    BY <1>1, <2>1, SamePart
  <2>3. ~(SubSeq(old, i + 1, i + Len(pattern)) = pattern)
    BY <1>4, <2>1
  <2> QED
    BY <2>2, <2>3
<1>6. \A i \in Nat : Hit(buffer, start, i) <=> Hit(buffer, 0, i)
  <2>1. \A i \in Nat : Hit(buffer, 0, i) => start <= i
    <3> HIDE DEF Hit, start
    <3> QED
      BY <1>3, <1>5
  <2> HIDE DEF pattern, start, buffer
  <2> QED
    BY <1>3, <2>1
<1>7. \/ first = NotFound /\ \A i \in Nat : ~Hit(buffer, 0, i)
      \/ first \in Nat /\ Hit(buffer, 0, first) /\ \A i \in Nat : Hit(buffer, 0, i) => first <= i
  <2> HIDE DEF pattern, buffer
  <2> QED
    BY <1>1, <1>2, FindFirst
<1>8. \/ found = NotFound /\ \A i \in Nat : ~Hit(buffer, start, i)
      \/ found \in Nat /\ Hit(buffer, start, found)
         /\ \A i \in Nat : Hit(buffer, start, i) => found <= i
  <2> HIDE DEF pattern, buffer, start
  <2> QED
    BY <1>1, <1>2, <1>3, FindFirst
<1>9. first = found
  <2> HIDE DEF first, found, Hit
  <2>1. CASE first = NotFound /\ \A i \in Nat : ~Hit(buffer, 0, i)
    BY <1>6, <1>8, <2>1
  <2>2. CASE /\ first \in Nat /\ Hit(buffer, 0, first)
             /\ \A i \in Nat : Hit(buffer, 0, i) => first <= i
    <3>1. found \in Nat /\ Hit(buffer, 0, found) /\ found <= first
      BY <1>6, <1>8, <2>2
    <3>2. first <= found
      BY <2>2, <3>1
    <3> QED
      BY <2>2, <3>1, <3>2
  <2> QED
    BY <1>7, <2>1, <2>2
<1> QED
  BY <1>9

(* What is found from SearchStart on is the end of the first line.         *)
LEMMA SameLine ==
  ASSUME OneEnd, framing \in Framings,
         NEW buffer \in Seq(Byte), NEW size \in Nat, NEW unparsed \in BOOLEAN,
         framing.terminator # <<>> =>
           Find(buffer, framing.terminator, SearchStart(buffer, size, unparsed))
             = Find(buffer, framing.terminator, 0)
  PROVE  LET line == LineAt(buffer, size, unparsed, "Success")
         IN  /\ line.end = EndOf(buffer).end
             /\ line.end # NotFound => line = EndOf(buffer)
<1> DEFINE terminator == framing.terminator
           maxInput == framing.maxInput
           term == TerminatorAt(buffer, size, unparsed)
           line == LineAt(buffer, size, unparsed, "Success")
           end == IF term # NotFound THEN term
                  ELSE IF maxInput > 0 /\ maxInput <= Len(buffer) THEN maxInput
                  ELSE NotFound
<1>1. terminator \in Seq(Byte) /\ maxInput \in Nat /\ (terminator = <<>> <=> maxInput > 0)
      /\ Len(buffer) \in Nat
  BY LineReaderAssumption DEF OneEnd
<1>2. line = IF maxInput > 0 /\ end > maxInput
             THEN [end |-> maxInput, termlen |-> 0]
             ELSE [end |-> end, termlen |-> IF term # NotFound THEN Len(terminator) ELSE 0]
  BY DEF LineAt
<1>3. CASE terminator = <<>>
  <2>1. term = NotFound
    BY <1>3 DEF TerminatorAt
  <2>2. EndOf(buffer) = [end |-> IF Len(buffer) < maxInput THEN NotFound ELSE maxInput,
                         termlen |-> 0]
    BY <1>3 DEF EndOf
  <2>3. end = IF Len(buffer) < maxInput THEN NotFound ELSE maxInput
    <3> HIDE DEF terminator, maxInput, term
    <3> QED
      BY <1>1, <1>3, <2>1
  <2>4. line = [end |-> end, termlen |-> 0]
    <3>1. ~(end > maxInput)
      <4> HIDE DEF end, maxInput, terminator
      <4> QED
        BY <1>1, <2>3 DEF NotFound
    <3> HIDE DEF end, maxInput, terminator, line, term
    <3> QED
      BY <1>2, <2>1, <3>1
  <2> HIDE DEF end, line
  <2> QED
    BY <2>2, <2>3, <2>4, Zenon DEF line
<1>4. CASE terminator # <<>>
  <2>1. term = Find(buffer, terminator, 0)
    BY <1>4 DEF TerminatorAt
  <2>2. EndOf(buffer) = [end |-> term, termlen |-> Len(terminator)]
    BY <1>4, <2>1 DEF EndOf
  <2>3. ~(maxInput > 0)
    BY <1>1, <1>4
  <2>4. line = [end |-> term, termlen |-> IF term # NotFound THEN Len(terminator) ELSE 0]
    <3>1. end = term
      <4> HIDE DEF term, maxInput
      <4> QED
        BY <2>3
    <3> HIDE DEF end, maxInput, terminator, line, term
    <3> QED
      BY <1>2, <2>3, <3>1
  <2> HIDE DEF term, line
  <2>5. line.end = term /\ EndOf(buffer).end = term /\ (term # NotFound => line = EndOf(buffer))
    BY <2>2, <2>4
  <2> QED
    BY <2>5, Zenon DEF line
<1> QED
  BY <1>3, <1>4

(* The protocol, and with it the meaning of SplitLines, stays the same.    *)
LEMMA SplitUnchanged ==
  ASSUME UNCHANGED framing
  PROVE  SplitLines' = SplitLines /\ \A s : EndOf(s)' = EndOf(s)
BY Zenon DEF SplitLines, EndOf

(* The line that readCallback() cuts off is the next line of the stream.   *)
LEMMA ParseKeeps ==
  ASSUME OneEnd, LineTypes, LinesIndependentOfChunks,
         NEW buffer \in Seq(Byte), NEW size \in Nat, NEW unparsed \in BOOLEAN,
         Parse(buffer, size, unparsed), UNCHANGED <<framing, sent>>,
         stream' \in Seq(Byte), buffer \o stream' = inputBuffer \o stream,
         framing.terminator # <<>> =>
           Find(buffer, framing.terminator, SearchStart(buffer, size, unparsed))
             = Find(buffer, framing.terminator, 0)
  PROVE  LineInv'
<1> DEFINE line == LineAt(buffer, size, unparsed, "Success")
<1>1. framing \in Framings /\ lines \in Seq(Seq(Byte)) /\ sent \in Seq(Byte)
  BY DEF LineTypes
<1>2. line.end = EndOf(buffer).end /\ (line.end # NotFound => line = EndOf(buffer))
  BY <1>1, SameLine
<1>3. SplitLines' = SplitLines /\ \A s : EndOf(s)' = EndOf(s)
  BY SplitUnchanged
<1>4. CASE line.end = NotFound
  <2>1. /\ inputBuffer' = buffer /\ unparsedInput' = unparsed /\ reading' = TRUE
        /\ lines' = lines
    BY <1>4 DEF Parse
  <2>2. LineTypes'
    BY <1>1, <2>1 DEF LineTypes
  <2>3. NoLineOverlooked'
    <3>1. EndOf(buffer)'.end = NotFound
      BY <1>2, <1>3, <1>4
    <3> QED
      BY <2>1, <3>1, <1>3, <1>2, <1>4 DEF NoLineOverlooked, EndOf
  <2>4. LinesIndependentOfChunks'
    BY <1>3, <2>1 DEF LinesIndependentOfChunks
  <2> QED
    BY <2>1, <2>2, <2>3, <2>4 DEF LineInv, LeftoverKnown
<1>5. CASE line.end # NotFound
  <2> DEFINE text == LineText(buffer, line)
             after == AfterLine(buffer, line)
  <2>1. line = EndOf(buffer) /\ EndOf(buffer).end # NotFound
    BY <1>2, <1>5
  <2>2. /\ lines' = Append(lines, text) /\ inputBuffer' = after
        /\ unparsedInput' = (after # <<>>) /\ reading' = FALSE
    BY <1>5 DEF Parse
  <2>3. /\ text \in Seq(Byte) /\ after \in Seq(Byte)
        /\ SplitLines[buffer \o stream'] = <<text>> \o SplitLines[after \o stream']
    <3>1. \A rest \in Seq(Byte) :
            /\ LineText(buffer, EndOf(buffer)) \in Seq(Byte)
            /\ AfterLine(buffer, EndOf(buffer)) \in Seq(Byte)
            /\ SplitLines[buffer \o rest] = <<LineText(buffer, EndOf(buffer))>>
                                 \o SplitLines[AfterLine(buffer, EndOf(buffer)) \o rest]
      BY <1>1, <2>1, SplitCut
    <3> HIDE DEF line
    <3> QED
      BY <2>1, <3>1, Zenon
  <2> HIDE DEF text, after, line
  <2>4. LineTypes'
    <3>1. Append(lines, text) \in Seq(Seq(Byte))
      BY <1>1, <2>3, AppendProperties
    <3> QED
      BY <1>1, <2>2, <2>3, <3>1, Zenon DEF LineTypes
  <2>5. LeftoverKnown' /\ NoLineOverlooked'
    BY <2>2 DEF LeftoverKnown, NoLineOverlooked
  <2>6. LinesIndependentOfChunks'
    <3> DEFINE others == SplitLines[after \o stream']
    <3>1. others \in Seq(Seq(Byte))
      <4>1. after \o stream' \in Seq(Byte)
        BY <2>3
      <4> QED
        BY <1>1, <4>1, SplitType
    <3>2. lines \o (<<text>> \o others) = SplitLines[sent]
      BY <2>3 DEF LinesIndependentOfChunks
    <3> HIDE DEF others
    <3>3. Append(lines, text) \o others = lines \o (<<text>> \o others)
      <4> DEFINE one == <<text>>
      <4>1. one \in Seq(Seq(Byte))
        BY <2>3
      <4>2. Join(Join(lines, one), others) = Join(lines, Join(one, others))
        <5> HIDE DEF one
        <5> QED
          BY <1>1, <3>1, <4>1, JoinAssociative
      <4>3. Append(lines, text) = lines \o <<text>>
        BY <1>1, <2>3, AppendIsConcat
      <4> QED
        BY <4>2, <4>3, Zenon DEF Join
    <3>4. lines' \o others = SplitLines[sent]
      BY <2>2, <3>2, <3>3
    <3> QED
      BY <1>3, <2>2, <3>4 DEF LinesIndependentOfChunks, others
  <2> QED
    BY <2>4, <2>5, <2>6 DEF LineInv
<1> QED
  BY <1>4, <1>5

(* Every step keeps the invariant.                                         *)
LEMMA LineStep ==
  ASSUME OneEnd, LineInv, [Next]_vars
  PROVE  LineInv'
<1>1. LineTypes /\ LinesIndependentOfChunks /\ framing \in Framings
  BY DEF LineInv, LineTypes
<1>2. CASE UNCHANGED vars
  <2>1. SplitLines' = SplitLines /\ \A s : EndOf(s)' = EndOf(s)
    BY <1>2, SplitUnchanged DEF vars
  <2>2. LineTypes' /\ LeftoverKnown'
    BY <1>2 DEF LineInv, LineTypes, LeftoverKnown, vars
  <2>3. NoLineOverlooked'
    BY <1>2 DEF LineInv, NoLineOverlooked, EndOf, vars
  <2>4. LinesIndependentOfChunks'
    BY <1>2, <2>1 DEF LineInv, LinesIndependentOfChunks, vars
  <2> QED
    BY <2>2, <2>3, <2>4 DEF LineInv
<1>3. ASSUME NEW n \in 1 .. Len(stream), ReadCallback(n) PROVE LineInv'
  <2> DEFINE chunk == SubSeq(stream, 1, n)
             rest == SubSeq(stream, n + 1, Len(stream))
  <2>1. inputBuffer \in Seq(Byte) /\ stream \in Seq(Byte) /\ n \in Nat
        /\ unparsedInput \in BOOLEAN /\ reading \in BOOLEAN
    BY DEF LineInv, LineTypes
  <2>2. chunk \in Seq(Byte) /\ Len(chunk) = n /\ rest \in Seq(Byte)
    BY <2>1, SubSeqProperties
  <2>3. chunk \o rest = stream
    BY <2>1, <2>2
  <2>4. stream' = rest /\ UNCHANGED <<framing, sent>>
    BY <1>3 DEF ReadCallback
  <2> HIDE DEF chunk, rest
  <2>5. (inputBuffer \o chunk) \o rest = inputBuffer \o stream
    <3>1. Join(chunk, rest) = stream
      BY <2>3, Zenon DEF Join
    <3>2. Join(Join(inputBuffer, chunk), rest) = Join(inputBuffer, stream)
      BY <2>1, <2>2, <3>1, JoinAssociative
    <3> QED
      BY <3>2, Zenon DEF Join
  <2>6. inputBuffer \o chunk \in Seq(Byte)
    BY <2>1, <2>2
  <2>7. CASE reading
    <3>1. Parse(inputBuffer \o chunk, n, unparsedInput)
      BY <1>3, <2>7 DEF ReadCallback, chunk
    <3>2. framing.terminator # <<>> =>
            Find(inputBuffer \o chunk, framing.terminator,
                 SearchStart(inputBuffer \o chunk, n, unparsedInput))
              = Find(inputBuffer \o chunk, framing.terminator, 0)
      <4> SUFFICES ASSUME framing.terminator # <<>>
                   PROVE  Find(inputBuffer \o chunk, framing.terminator,
                               SearchStart(inputBuffer \o chunk, Len(chunk), unparsedInput))
                            = Find(inputBuffer \o chunk, framing.terminator, 0)
        BY <2>2
      <4>1. Find(inputBuffer, framing.terminator, 0) = NotFound
        BY <2>7 DEF LineInv, NoLineOverlooked, EndOf
      <4> QED
        BY <1>1, <2>1, <2>2, <4>1, SearchMissesNothing
    <3> QED
      BY <1>1, <2>1, <2>2, <2>4, <2>5, <2>6, <3>1, <3>2, ParseKeeps
  <2>8. CASE ~reading
    <3>1. /\ inputBuffer' = inputBuffer \o chunk /\ unparsedInput' = TRUE
          /\ reading' = reading /\ lines' = lines
      BY <1>3, <2>8 DEF ReadCallback, chunk
    <3>2. LineTypes'
      BY <1>1, <2>2, <2>4, <2>6, <3>1 DEF LineTypes
    <3>3. LeftoverKnown' /\ NoLineOverlooked'
      BY <2>8, <3>1 DEF LeftoverKnown, NoLineOverlooked
    <3>4. LinesIndependentOfChunks'
      BY <1>1, <2>4, <2>5, <3>1, SplitUnchanged DEF LinesIndependentOfChunks
    <3> QED
      BY <3>2, <3>3, <3>4 DEF LineInv
  <2> QED
    BY <2>7, <2>8
<1>4. CASE EvalIn
  <2>1. inputBuffer \in Seq(Byte) /\ stream \in Seq(Byte)
        /\ unparsedInput \in BOOLEAN /\ reading \in BOOLEAN
    BY DEF LineInv, LineTypes
  <2>2. ~reading /\ UNCHANGED <<framing, sent, stream>>
    BY <1>4 DEF EvalIn
  <2>3. CASE unparsedInput
    <3>1. Parse(inputBuffer, 0, TRUE)
      BY <1>4, <2>3 DEF EvalIn
    <3>2. SearchStart(inputBuffer, 0, TRUE) = 0
      BY DEF SearchStart
    <3> QED
      BY <1>1, <2>1, <2>2, <3>1, <3>2, ParseKeeps
  <2>4. CASE ~unparsedInput
    <3>1. reading' = TRUE /\ UNCHANGED <<inputBuffer, unparsedInput, lines>>
      BY <1>4, <2>4 DEF EvalIn
    <3>2. LineTypes' /\ LeftoverKnown'
      BY <1>1, <2>2, <3>1 DEF LineTypes, LeftoverKnown
    <3>3. LinesIndependentOfChunks'
      BY <1>1, <2>2, <3>1, SplitUnchanged DEF LinesIndependentOfChunks
    <3>4. NoLineOverlooked'
      <4>1. inputBuffer = <<>>
        BY <2>2, <2>4 DEF LineInv, LeftoverKnown
      <4>2. EndOf(<<>>).end = NotFound
        <5>1. <<>> \in Seq(Byte) /\ 1 .. Len(<<>>) = {}
          OBVIOUS
        <5>2. EndOf(<<>>).end # NotFound
                => EndOf(<<>>).end + EndOf(<<>>).termlen \in 1 .. Len(<<>>)
          BY <1>1, <5>1, EndWithin
        <5> QED
          BY <5>1, <5>2, Zenon
      <4> QED
        BY <2>2, <3>1, <4>1, <4>2 DEF NoLineOverlooked, EndOf
    <3> QED
      BY <3>2, <3>3, <3>4 DEF LineInv
  <2> QED
    BY <2>3, <2>4
<1> QED
  BY <1>2, <1>3, <1>4 DEF Next

(* The invariant holds in every reachable state.                           *)
LEMMA LineInvariant ==
  OneEnd /\ Init /\ [][Next]_vars => []LineInv
<1> SUFFICES ASSUME OneEnd PROVE Init /\ [][Next]_vars => []LineInv
  OBVIOUS
<1>1. Init => LineInv
  <2> SUFFICES ASSUME Init PROVE LineInv
    OBVIOUS
  <2>1. <<>> \in Seq(Byte) /\ <<>> \in Seq(Seq(Byte)) /\ sent \in Seq(Byte)
    BY LineReaderAssumption DEF Init
  <2>2. LineTypes /\ LeftoverKnown /\ NoLineOverlooked
    BY <2>1 DEF Init, LineTypes, LeftoverKnown, NoLineOverlooked
  <2>3. LinesIndependentOfChunks
    <3>1. <<>> \o sent = sent
      BY <2>1
    <3>2. framing \in Framings
      BY DEF Init
    <3>3. <<>> \o SplitLines[sent] = SplitLines[sent]
      BY <2>1, <3>2, SplitType
    <3> QED
      BY <3>1, <3>3 DEF Init, LinesIndependentOfChunks
  <2> QED
    BY <2>2, <2>3 DEF LineInv
<1>2. LineInv /\ [Next]_vars => LineInv'
  BY LineStep
<1> QED
  BY <1>1, <1>2, PTL

(* The `in` commands see the lines of the stream, however it is cut.       *)
THEOREM ChunksDoNotMatter == OneEnd /\ Spec => []LinesIndependentOfChunks
<1>1. LineInv => LinesIndependentOfChunks
  BY DEF LineInv
<1> QED
  BY <1>1, LineInvariant, PTL DEF Spec

(* No `in` waits for input with a complete line in the buffer.             *)
THEOREM WaitingHasNoLine == OneEnd /\ Spec => []NoLineOverlooked
<1>1. LineInv => NoLineOverlooked
  BY DEF LineInv
<1> QED
  BY <1>1, LineInvariant, PTL DEF Spec
=============================================================================
