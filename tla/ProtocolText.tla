---------------------------- MODULE ProtocolText ----------------------------
(***************************************************************************)
(* What a protocol file means, read off its text without a parser: which   *)
(* files are legal, and what each protocol in them contains, by the rules  *)
(* of docs/protocol.html. The reference for ProtocolParser and Compiler.   *)
(*                                                                         *)
(* In one point the code has another rule than the document, and this      *)
(* module has the rule of the code: a reference in an assignment is always *)
(* to the global variable (parseValue() asks globalSettings only), though  *)
(* the protocol may have set a variable of that name itself, which the     *)
(* document has referenced later in the protocol. ReferencesAsDocumented   *)
(* of ProtocolLoading has the rule of the document.                        *)
(*                                                                         *)
(* f is a file, i, j, k, m are positions in it.                            *)
(***************************************************************************)
EXTENDS ProtocolCompiler

Opening(f) == {i \in DOMAIN f : f[i].is \in {"protocol", "handler"}}
Closing(f) == {i \in DOMAIN f : f[i].is = "close"}

(* How many more { than } there are up to n.                               *)
Depth(f, n) ==
  Cardinality({k \in Opening(f) : k <= n}) - Cardinality({k \in Closing(f) : k <= n})

(* The block opened at i is not closed up to j.                            *)
Encloses(f, i, j) == i < j /\ \A k \in i + 1 .. j : Depth(f, i) <= Depth(f, k)

(* The innermost block that j lies in: 0 is the global context.            *)
BlockOf(f, j) == Max({i \in Opening(f) : Encloses(f, i, j)} \cup {0})
IsHandler(f, i) == i # 0 /\ f[i].is = "handler"
Within(f, i, kind) == {j \in DOMAIN f : f[j].is = kind /\ BlockOf(f, j) = i}

NamesIn(f, S) == {f[j].name : j \in S}
Before(S, i) == {j \in S : j < i}
References(value) == {value[n].of : n \in {m \in DOMAIN value : value[m].is = "var"}}

(* Blocks are nested as protocol.html has it and names are unique; and, as *)
(* the code has it, an assignment refers only to what is set globally      *)
(* before it.                                                              *)
LegalAt(f, i) ==
  /\ f[i].is # "junk"
  /\ f[i].is \in {"assign", "word"} => \A n \in DOMAIN f[i].value : f[i].value[n].is # "junk"
  /\ Depth(f, i) >= 0
  /\ f[i].is = "protocol" =>
       /\ BlockOf(f, i) = 0
       /\ f[i].name \notin NamesIn(f, Before(Within(f, 0, "protocol"), i))
  /\ f[i].is \in {"handler", "assign"} => ~IsHandler(f, BlockOf(f, i))
  /\ f[i].is = "word" => BlockOf(f, i) # 0
  /\ f[i].is = "assign" =>
       References(f[i].value) \subseteq NamesIn(f, Before(Within(f, 0, "assign"), i))

LegalFile(f) == (\A i \in DOMAIN f : LegalAt(f, i)) /\ Depth(f, Len(f)) = 0

-----------------------------------------------------------------------------
(* At every position lie parts: something of its own, or a reference to an *)
(* earlier position, which stands for what lies there.                     *)
Expanded(parts) ==
  LET e[j \in DOMAIN parts] ==
        FlattenSeq([n \in DOMAIN parts[j] |->
          IF parts[j][n].at = 0 THEN parts[j][n].own ELSE e[parts[j][n].at]])
  IN  e

LastNamed(f, S, name) == Max({j \in S : f[j].name = name} \cup {0})

(* The value given at j, with the global values of that place, as in the   *)
(* code: what the protocol of j has set before j does not count.           *)
ValueParts(f) ==
  [j \in DOMAIN f |-> [n \in DOMAIN f[j].value |->
    [at |-> IF f[j].value[n].is = "var"
            THEN LastNamed(f, Before(Within(f, 0, "assign"), j), f[j].value[n].of) ELSE 0,
     own |-> <<f[j].value[n]>>]]]

(* The words of the block opened at i. A word without arguments stands for *)
(* the commands of a protocol of that name that ends before it.            *)
Meant(f, j) ==
  {m \in Within(f, 0, "protocol") :
     m < j /\ ~Encloses(f, m, j) /\ f[m].name = f[j].name /\ f[j].value = <<>>}
CommandParts(f) ==
  [i \in DOMAIN f |-> [j \in DOMAIN f |->
    IF f[j].is = "word" /\ BlockOf(f, j) = i
    THEN [at |-> Max(Meant(f, j) \cup {0}), own |-> <<[op |-> f[j].name, args |-> f[j].value]>>]
    ELSE [at |-> 0, own |-> <<>>]]]

Values(f) == Expanded(ValueParts(f))
CommandsIn(f) == Expanded(CommandParts(f))

-----------------------------------------------------------------------------
(* Of several with the same name, the last one counts.                     *)
Entries(f, S, what) == [x \in NamesIn(f, S) |-> what[LastNamed(f, S, x)]]

(* A protocol inherits what is global before it, and what its own body     *)
(* says comes after that.                                                  *)
Inherited(f, i, kind) == Before(Within(f, 0, kind), i) \cup Within(f, i, kind)

ProtocolAt(f, i) ==
  [name |-> f[i].name,
   vars |-> Entries(f, Inherited(f, i, "assign"), Values(f)),
   handlers |-> Entries(f, Inherited(f, i, "handler"), CommandsIn(f)),
   commands |-> CommandsIn(f)[i]]

(* The protocols that a legal file defines.                                *)
ProtocolsIn(f) == NamesIn(f, Within(f, 0, "protocol"))
ProtocolIn(f, name) ==
  ProtocolAt(f, CHOOSE i \in Within(f, 0, "protocol") : f[i].name = name)
=============================================================================
