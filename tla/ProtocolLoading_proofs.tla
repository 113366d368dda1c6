----------------------- MODULE ProtocolLoading_proofs -----------------------
(***************************************************************************)
(* What records load. OneVersion holds for any parser and any history of   *)
(* the file: of ParseProtocol and Compile nothing is used but their names. *)
(* OnlyLegalFilesLoad and LoadedAsWritten are about what these two do; by  *)
(* ProtocolText_proofs they do what the text of the file says, and here it *)
(* is followed through loads, edits of the file and repeated reloads.      *)
(***************************************************************************)
EXTENDS ProtocolLoading, ProtocolText_proofs

(* The parser that streamReload finds or makes is made from a content that *)
(* the file has had since the load began, and goes away with the load.     *)
SeenInv ==
  /\ loading => file \in seen
  /\ ~loading => parser = {}
  /\ \A p \in parser : p.file \in seen

OneParser == \A p, q \in parser : p = q

Loads ==
  /\ DOMAIN result = Record
  /\ source = [r \in Record |-> source[r]]
  /\ result = [r \in Record |-> result[r]]

VersionInv == SeenInv /\ OneParser /\ Loads
-----------------------------------------------------------------------------
(* getProtocol() uses the parser that is there, or makes one from the file *)
(* as it is now, or has none.                                              *)
LEMMA UsedParser ==
  ASSUME VersionInv, loading
  PROVE  /\ \A p \in ParserUsed : p.file \in seen
         /\ \A p, q \in ParserUsed : p = q
         /\ \A p \in parser : p \in ParserUsed
<1>1. CASE parser # {}
  BY <1>1 DEF VersionInv, SeenInv, OneParser, ParserUsed
<1>2. CASE parser = {} /\ file = NoFile
  BY <1>2 DEF ParserUsed
<1>3. CASE parser = {} /\ file # NoFile
  <2>1. ParserUsed = {[file |-> file, parsed |-> ParseProtocol(file)]}
    BY <1>3 DEF ParserUsed
  <2> QED BY <1>3, <2>1 DEF VersionInv, SeenInv
<1> QED BY <1>1, <1>2, <1>3

(* Without a parser there is no protocol.                                  *)
LEMMA NoParserNoProtocol ==
  ASSUME NEW r PROVE ~Parse(r, {}).ok
BY DEF Parse, Found

(* Init establishes the invariant, and every step keeps it.                *)
LEMMA InitVersion == Init => VersionInv
BY DEF Init, VersionInv, SeenInv, OneParser, Loads

LEMMA NextVersion == VersionInv /\ [Next]_vars => VersionInv'
<1> SUFFICES ASSUME VersionInv, [Next]_vars PROVE VersionInv'
  OBVIOUS
<1> USE DEF VersionInv, SeenInv, OneParser, Loads
<1>1. CASE StopRecord
  BY <1>1 DEF StopRecord
<1>2. CASE LoadRecord
  <2>1. loading /\ parser' = ParserUsed /\ UNCHANGED <<file, seen, loading>>
    BY <1>2 DEF LoadRecord
  <2>2. SeenInv' /\ OneParser'
    BY <2>1, UsedParser
  <2>3. Loads'
    BY <1>2 DEF LoadRecord
  <2> QED BY <2>2, <2>3
<1>3. CASE Free
  BY <1>3 DEF Free
<1>4. CASE StreamReload
  BY <1>4 DEF StreamReload
<1>5. CASE EditFile
  BY <1>5 DEF EditFile
<1>6. ASSUME NEW r \in Record, Process(r) \/ ProtocolEnds(r) PROVE VersionInv'
  BY <1>6 DEF Process, ProtocolEnds
<1>7. CASE UNCHANGED vars
  BY <1>7 DEF vars
<1> QED BY <1>1, <1>2, <1>3, <1>4, <1>5, <1>6, <1>7 DEF Next

(* A record that is loaded gets the protocol of a content that the file    *)
(* has had since the load began, and of the one that the records before it *)
(* have got theirs from.                                                   *)
LEMMA LoadVersion ==
  ASSUME VersionInv, NEW r \in Record, LoadRecord, r = Head(todo), result'[r] = "loaded"
  PROVE  source'[r] \in seen /\ \A p \in parser : source'[r] = p.file
<1>1. loading
  BY DEF LoadRecord
<1>2. Parse(r, ParserUsed).ok
  BY DEF LoadRecord, VersionInv, Loads
<1>3. ParserUsed # {}
  BY <1>2, NoParserNoProtocol
<1>4. source'[r] = (CHOOSE p \in ParserUsed : TRUE).file
  BY <1>3 DEF LoadRecord, VersionInv, Loads
<1>5. (CHOOSE p \in ParserUsed : TRUE) \in ParserUsed
  BY <1>3
<1> QED BY <1>1, <1>4, <1>5, UsedParser

-----------------------------------------------------------------------------
(* All protocols that one streamReload, or iocInit, loads are of one and   *)
(* the same content of the file, and none is of a content that was gone    *)
(* before: the parsers of getProtocol() are kept until all records are     *)
(* done, and freed before anything else is loaded.                         *)
THEOREM OneVersionLoaded == Spec => OneVersion
<1>1. VersionInv /\ [Next]_vars =>
        [\A r \in Record : LoadRecord /\ r = Head(todo) /\ result'[r] = "loaded" =>
           /\ source'[r] \in seen
           /\ \A p \in parser : source'[r] = p.file]_vars
  BY LoadVersion
<1> QED BY <1>1, InitVersion, NextVersion, PTL DEF Spec, OneVersion

-----------------------------------------------------------------------------
(* What a load makes of the engine                                         *)

IsContent(c) == c \in Content \ {NoFile}

(* What the file holds, if it can be read, is a file to the parser.        *)
LEMMA ContentIs ==
  ASSUME NEW c, IsContent(c)
  PROVE  IsFile(c) /\ c # NoFile
BY LoadingAssumption DEF IsContent, IsFile

(* A parser is made from a content of the file and nothing else.           *)
MadeFrom(c) == [file |-> c, parsed |-> ParseProtocol(c)]
ParserOf(p) == p = MadeFrom(p.file) /\ IsContent(p.file)

(* An engine into which nothing has been compiled has its two parts.       *)
LEMMA NothingShaped == EngineShape(NothingCompiled)
BY DEF EngineShape, NothingCompiled

(* A record gets what the text says, or is refused.                        *)
LEMMA ParseRight ==
  ASSUME NEW c, IsContent(c), NEW r, EngineShape(engine[r])
  PROVE  /\ Parse(r, {MadeFrom(c)}).ok <=> Loadable(c, r)
         /\ Parse(r, {MadeFrom(c)}).ok => Parse(r, {MadeFrom(c)}).engine = Compiled(c, r).engine
         /\ EngineShape(Parse(r, {MadeFrom(c)}).engine)
<1> DEFINE name == Link[r].protocol
           args == Link[r].args
           old == engine[r]
           protocols == ParseProtocol(c).protocols
           named == Named(protocols, name)
           found == Found({MadeFrom(c)}, name)
<1>1. /\ ParseProtocol(c).valid <=> LegalFile(c)
      /\ LegalFile(c) => /\ named # {} <=> name \in ProtocolsIn(c)
                         /\ named # {} => (CHOOSE p \in named : TRUE) = ProtocolIn(c, name)
  BY ContentIs, ParserRight, NamedIs
<1>2. found = {p \in {MadeFrom(c)} : LegalFile(c) /\ named # {}}
  <2>1. MadeFrom(c).parsed = ParseProtocol(c)
    BY DEF MadeFrom
  <2> QED BY <1>1, <2>1 DEF Found
<1>3. Parse(r, {MadeFrom(c)}) =
        IF found = {} THEN [ok |-> FALSE, engine |-> old]
        ELSE Compile(old, CHOOSE p \in Named((CHOOSE q \in found : TRUE).parsed.protocols, name) : TRUE, args)
  BY Zenon DEF Parse
<1> DEFINE meant == ProtocolIn(c, name)
<1>4. Loadable(c, r) <=> /\ LegalFile(c) /\ name \in ProtocolsIn(c)
                         /\ Compile(NothingCompiled, meant, args).ok
  BY ContentIs DEF Loadable, Compiled
<1>5. Compiled(c, r) = Compile(NothingCompiled, meant, args)
  BY DEF Compiled
<1> HIDE DEF found
<1>6. CASE found = {}
  <2>1. ~(LegalFile(c) /\ name \in ProtocolsIn(c))
    <3> HIDE DEF named, name
    <3> QED BY <1>1, <1>2, <1>6
  <2>2. Parse(r, {MadeFrom(c)}) = [ok |-> FALSE, engine |-> old]
    BY <1>3, <1>6
  <2> HIDE DEF meant
  <2> QED BY <1>4, <2>1, <2>2
<1>7. CASE found # {}
  <2>1. found = {MadeFrom(c)} /\ LegalFile(c) /\ named # {}
    <3> HIDE DEF named
    <3> QED BY <1>2, <1>7
  <2>2. (CHOOSE q \in found : TRUE).parsed.protocols = protocols
    <3> DEFINE m0 == MadeFrom(c)
    <3>1. m0.parsed = ParseProtocol(c)
      BY DEF MadeFrom
    <3> HIDE DEF m0
    <3>2. (CHOOSE q \in {m0} : TRUE) = m0
      OBVIOUS
    <3> QED BY <2>1, <3>1, <3>2 DEF m0
  <2>3. Parse(r, {MadeFrom(c)}) = Compile(old, meant, args)
    <3>1. Parse(r, {MadeFrom(c)}) = Compile(old, CHOOSE p \in named : TRUE, args)
      BY <1>3, <1>7, <2>2
    <3>2. (CHOOSE p \in named : TRUE) = meant
      BY <1>1, <2>1
    <3> HIDE DEF named, meant
    <3> QED BY <3>1, <3>2
  <2>4. name \in ProtocolsIn(c)
    BY <1>1, <2>1
  <2> HIDE DEF meant, args, old
  <2>5. /\ Compile(old, meant, args).ok <=> Compile(NothingCompiled, meant, args).ok
        /\ Compile(old, meant, args).ok =>
             Compile(old, meant, args).engine = Compile(NothingCompiled, meant, args).engine
        /\ EngineShape(Compile(old, meant, args).engine)
    BY CompileIs, NothingShaped DEF old
  <2> QED BY <1>4, <1>5, <2>1, <2>3, <2>4, <2>5
<1> QED BY <1>6, <1>7

(* Without a file nothing is loaded, and nothing is changed.               *)
LEMMA ParseNothing ==
  ASSUME NEW r, EngineShape(engine[r])
  PROVE  ~Parse(r, {}).ok /\ EngineShape(Parse(r, {}).engine) /\ ~Loadable(NoFile, r)
BY DEF Parse, Found, Loadable
-----------------------------------------------------------------------------
(* Between the loads: parsers are made from contents of the file, engines  *)
(* have their two parts, and what was loaded last is what was written.     *)
FilesInv ==
  /\ file \in Content
  /\ \A p \in parser : ParserOf(p)

EnginesInv ==
  /\ engine = [r \in Record |-> engine[r]]
  /\ \A r \in Record : EngineShape(engine[r])

Written(r) ==
  /\ result[r] # "none" => (result[r] = "loaded" <=> Loadable(source[r], r))
  /\ result[r] = "loaded" => engine[r] = Compiled(source[r], r).engine

LoadInv == VersionInv /\ FilesInv /\ EnginesInv /\ \A r \in Record : Written(r)

(* Init establishes it.                                                    *)
LEMMA InitLoad == Init => LoadInv
<1> SUFFICES ASSUME Init PROVE LoadInv
  OBVIOUS
<1>1. FilesInv
  BY DEF Init, FilesInv, Content
<1>2. EnginesInv
  BY NothingShaped DEF Init, EnginesInv
<1>3. \A r \in Record : Written(r)
  BY DEF Init, Written
<1> QED BY <1>1, <1>2, <1>3, InitVersion DEF LoadInv

(* What LoadRecord makes of the record whose turn it is.                   *)
LEMMA LoadedRecord ==
  ASSUME LoadInv, LoadRecord, NEW r \in Record, r = Head(todo)
  PROVE  Written(r)' /\ EngineShape(engine'[r])
<1> DEFINE loaded == Parse(r, ParserUsed)
<1>1. /\ engine'[r] = loaded.engine
      /\ result'[r] = IF loaded.ok THEN "loaded" ELSE "failed"
      /\ source'[r] = IF ParserUsed = {} THEN NoFile ELSE (CHOOSE p \in ParserUsed : TRUE).file
  <2>1. engine' = [engine EXCEPT ![r] = loaded.engine]
        /\ result' = [result EXCEPT ![r] = IF loaded.ok THEN "loaded" ELSE "failed"]
        /\ source' = [source EXCEPT ![r] = IF ParserUsed = {} THEN NoFile
                                           ELSE (CHOOSE p \in ParserUsed : TRUE).file]
    BY DEF LoadRecord
  <2> HIDE DEF loaded
  <2> QED BY <2>1 DEF LoadInv, EnginesInv, VersionInv, Loads
<1>2. EngineShape(engine[r])
  BY DEF LoadInv, EnginesInv
<1>3. CASE ParserUsed = {}
  <2>1. ~loaded.ok /\ EngineShape(loaded.engine) /\ ~Loadable(NoFile, r)
    BY <1>2, <1>3, ParseNothing
  <2> HIDE DEF loaded
  <2>2. EngineShape(engine'[r]) /\ result'[r] = "failed" /\ source'[r] = NoFile
    BY <1>1, <1>3, <2>1
  <2>3. Written(r)' <=>
          /\ result'[r] # "none" => (result'[r] = "loaded" <=> Loadable(source'[r], r))
          /\ result'[r] = "loaded" => engine'[r] = Compiled(source'[r], r).engine
    BY DEF Written, Loadable, Compiled
  <2> QED BY <2>1, <2>2, <2>3
<1>4. CASE ParserUsed # {}
  <2>1. PICK c : IsContent(c) /\ ParserUsed = {MadeFrom(c)}
    <3>1. CASE parser # {}
      <4>1. PICK p : p \in parser
        BY <3>1
      <4>2. parser = {p}
        BY <4>1 DEF LoadInv, VersionInv, OneParser
      <4>3. ParserOf(p)
        BY <4>1 DEF LoadInv, FilesInv
      <4>4. ParserUsed = {p}
        BY <3>1, <4>2 DEF ParserUsed
      <4> QED BY <4>3, <4>4 DEF ParserOf
    <3>2. CASE parser = {}
      <4>1. file # NoFile /\ ParserUsed = {MadeFrom(file)}
        BY <1>4, <3>2 DEF ParserUsed, MadeFrom
      <4>2. IsContent(file)
        BY <4>1 DEF LoadInv, FilesInv, IsContent
      <4> QED BY <4>1, <4>2
    <3> QED BY <3>1, <3>2
  <2>2. /\ loaded.ok <=> Loadable(c, r)
        /\ loaded.ok => loaded.engine = Compiled(c, r).engine
        /\ EngineShape(loaded.engine)
    BY <1>2, <2>1, ParseRight
  <2>3. (CHOOSE p \in ParserUsed : TRUE).file = c
    <3> DEFINE m0 == MadeFrom(c)
    <3>1. m0.file = c
      BY DEF MadeFrom
    <3> HIDE DEF m0
    <3>2. (CHOOSE p \in {m0} : TRUE) = m0
      OBVIOUS
    <3> QED BY <2>1, <3>1, <3>2 DEF m0
  <2> HIDE DEF loaded
  <2>4. /\ engine'[r] = loaded.engine /\ source'[r] = c
        /\ result'[r] = IF loaded.ok THEN "loaded" ELSE "failed"
    BY <1>1, <1>4, <2>3
  <2>5. Written(r)' <=>
          /\ result'[r] # "none" => (result'[r] = "loaded" <=> Loadable(source'[r], r))
          /\ result'[r] = "loaded" => engine'[r] = Compiled(source'[r], r).engine
    BY DEF Written, Loadable, Compiled
  <2> QED BY <2>2, <2>4, <2>5
<1> QED BY <1>3, <1>4

(* Nothing else is written of a record: it stays as it was loaded.         *)
LEMMA NotLoaded ==
  ASSUME LoadInv, NEW r \in Record,
         engine'[r] = engine[r], result'[r] = result[r], source'[r] = source[r]
  PROVE  Written(r)'
<1>1. Written(r)
  BY DEF LoadInv
<1>2. Written(r)' <=>
          /\ result'[r] # "none" => (result'[r] = "loaded" <=> Loadable(source'[r], r))
          /\ result'[r] = "loaded" => engine'[r] = Compiled(source'[r], r).engine
  BY DEF Written, Loadable, Compiled
<1> QED BY <1>1, <1>2 DEF Written

(* A load keeps it for all records.                                        *)
LEMMA LoadLoad ==
  ASSUME LoadInv, LoadRecord
  PROVE  FilesInv' /\ EnginesInv' /\ \A r \in Record : Written(r)'
<1>1. FilesInv'
  <2>1. file' = file /\ parser' = ParserUsed
    BY DEF LoadRecord
  <2>2. ASSUME NEW p \in ParserUsed PROVE ParserOf(p)
    <3>1. CASE parser # {}
      BY <3>1 DEF ParserUsed, LoadInv, FilesInv
    <3>2. CASE parser = {}
      <4>1. file # NoFile /\ p = MadeFrom(file)
        BY <3>2 DEF ParserUsed, MadeFrom
      <4>2. p.file = file
        BY <4>1 DEF MadeFrom
      <4> QED BY <4>1, <4>2 DEF ParserOf, LoadInv, FilesInv, IsContent
    <3> QED BY <3>1, <3>2
  <2>3. file \in Content
    BY DEF LoadInv, FilesInv
  <2>4. \A p \in parser' : ParserOf(p)
    BY <2>1, <2>2
  <2> QED BY <2>1, <2>3, <2>4 DEF FilesInv, ParserOf
<1>2. ASSUME NEW r \in Record
      PROVE  EngineShape(engine'[r]) /\ Written(r)'
  <2>1. CASE r = Head(todo)
    BY <2>1, LoadedRecord
  <2>2. CASE r # Head(todo)
    <3>1. engine'[r] = engine[r] /\ result'[r] = result[r] /\ source'[r] = source[r]
      BY <2>2 DEF LoadRecord, LoadInv, EnginesInv, VersionInv, Loads
    <3>2. EngineShape(engine[r])
      BY DEF LoadInv, EnginesInv
    <3> QED BY <3>1, <3>2, NotLoaded
  <2> QED BY <2>1, <2>2
<1>3. engine' = [r \in Record |-> engine'[r]]
  <2>1. \E n : engine' = [engine EXCEPT ![Head(todo)] = n]
    BY DEF LoadRecord
  <2>2. engine = [r \in Record |-> engine[r]]
    BY DEF LoadInv, EnginesInv
  <2> QED BY <2>1, <2>2
<1>4. EnginesInv'
  BY <1>2, <1>3 DEF EnginesInv, EngineShape
<1> QED BY <1>1, <1>2, <1>4

(* Every step keeps it.                                                    *)
LEMMA NextLoad == LoadInv /\ [Next]_vars => LoadInv'
<1> SUFFICES ASSUME LoadInv, [Next]_vars PROVE LoadInv'
  OBVIOUS
<1>1. VersionInv'
  BY NextVersion DEF LoadInv
<1>2. ASSUME UNCHANGED <<engine, result, source>>
      PROVE  EnginesInv' /\ \A r \in Record : Written(r)'
  <2>1. EnginesInv'
    BY <1>2 DEF LoadInv, EnginesInv, EngineShape
  <2> QED BY <1>2, <2>1, NotLoaded
<1>3. ASSUME parser' = parser \/ parser' = {}, file' \in Content
      PROVE  FilesInv'
  <2>1. \A p \in parser' : ParserOf(p)
    BY <1>3 DEF LoadInv, FilesInv
  <2> QED BY <1>3, <2>1 DEF FilesInv, ParserOf
<1>4. file \in Content
  BY DEF LoadInv, FilesInv
<1>5. CASE LoadRecord
  BY <1>1, <1>5, LoadLoad DEF LoadInv
<1>6. CASE StopRecord
  <2>1. UNCHANGED <<file, parser, engine, result, source>>
    BY <1>6 DEF StopRecord
  <2> QED BY <1>1, <1>2, <1>3, <1>4, <2>1 DEF LoadInv
<1>7. CASE Free
  <2>1. parser' = {} /\ UNCHANGED <<file, engine, result, source>>
    BY <1>7 DEF Free
  <2> QED BY <1>1, <1>2, <1>3, <1>4, <2>1 DEF LoadInv
<1>8. CASE StreamReload
  <2>1. UNCHANGED <<file, parser, engine, result, source>>
    BY <1>8 DEF StreamReload
  <2> QED BY <1>1, <1>2, <1>3, <1>4, <2>1 DEF LoadInv
<1>9. CASE EditFile
  <2>1. file' \in Content /\ UNCHANGED <<parser, engine, result, source>>
    BY <1>9 DEF EditFile, Content
  <2> QED BY <1>1, <1>2, <1>3, <2>1 DEF LoadInv
<1>10. ASSUME NEW r \in Record, Process(r) \/ ProtocolEnds(r) PROVE LoadInv'
  <2>1. UNCHANGED <<file, parser, engine, result, source>>
    BY <1>10 DEF Process, ProtocolEnds
  <2> QED BY <1>1, <1>2, <1>3, <1>4, <2>1 DEF LoadInv
<1>11. CASE UNCHANGED vars
  <2>1. UNCHANGED <<file, parser, engine, result, source>>
    BY <1>11 DEF vars
  <2> QED BY <1>1, <1>2, <1>3, <1>4, <2>1 DEF LoadInv
<1> QED BY <1>5, <1>6, <1>7, <1>8, <1>9, <1>10, <1>11 DEF Next

(* For every protocol file: a record loads its protocol exactly if the     *)
(* file that its load has seen is legal from the first to the last         *)
(* statement, defines that protocol, and all that the protocol says can be *)
(* compiled; one error anywhere in the file refuses all its protocols.     *)
THEOREM OnlyLegalFilesLoaded == Spec => []OnlyLegalFilesLoad
<1>1. LoadInv => OnlyLegalFilesLoad
  BY DEF LoadInv, Written, OnlyLegalFilesLoad
<1> QED BY <1>1, InitLoad, NextLoad, PTL DEF Spec

(* For every protocol file: a record that has loaded its protocol has the  *)
(* settings and the code that the text gives it, whatever was loaded       *)
(* before, also by loads that have failed half-way.                        *)
THEOREM LoadedIsWritten == Spec => []LoadedAsWritten
<1>1. LoadInv => LoadedAsWritten
  BY DEF LoadInv, Written, LoadedAsWritten
<1> QED BY <1>1, InitLoad, NextLoad, PTL DEF Spec
=============================================================================
