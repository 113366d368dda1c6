--------------------------- MODULE ProtocolLoading --------------------------
(***************************************************************************)
(* How records get their protocols: at boot and by streamReload(), from a  *)
(* protocol file that somebody edits meanwhile. streamReload() runs in the *)
(* ioc shell without dbScanLock, so that scan threads process the records  *)
(* between its steps.                                                      *)
(*                                                                         *)
(* All records take their protocols from one file. Whether @init succeeds, *)
(* and what a protocol does when it runs, is in StreamEpics.               *)
(***************************************************************************)
EXTENDS ProtocolText

CONSTANTS
  RecordOrder,  \* the records, in the order of the list of all streams
  Link,         \* [record -> its protocol and arguments]
  Files,        \* contents that the file may have at boot
  Edits,        \* pairs of contents: how somebody may change the file
  NoFile,       \* the content of a file that cannot be read
  Reloads       \* contents of the file with which streamReload is called

Record == {RecordOrder[i] : i \in DOMAIN RecordOrder}

VARIABLES
  file,      \* what is on the disk
  parser,    \* the file that a parser was made from, and what it got; {} or one
  todo,      \* records that the running load has still to do, in order
  stopped,   \* the first of them has been stopped, its load has begun
  loading,   \* iocInit or streamReload is at work
  engine,    \* [Record -> compiled settings and code]
  status,    \* [Record -> Stream::status]: "ERROR" at the beginning
  running,   \* records whose engine runs a protocol
  result,    \* [Record -> how its last load ended]
  source,    \* [Record -> the content that its last load has seen]
  seen       \* contents that the file had since the load began

vars == <<file, parser, todo, stopped, loading, engine, status, running, result, source, seen>>

Content == Files \cup {e[1] : e \in Edits} \cup {e[2] : e \in Edits} \cup {NoFile}

ASSUME LoadingAssumption ==
  /\ RecordOrder \in Seq(Record)
  /\ Content \ {NoFile} \subseteq Seq(Statement) /\ NoFile \notin Seq(Statement)

Init ==
  /\ file \in Files
  /\ parser = {}
  /\ todo = RecordOrder /\ stopped = FALSE /\ loading = TRUE
  /\ engine = [r \in Record |-> NothingCompiled]
  /\ status = [r \in Record |-> "ERROR"]
  /\ running = {}
  /\ result = [r \in Record |-> "none"]
  /\ source = [r \in Record |-> NoFile]
  /\ seen = {file}
-----------------------------------------------------------------------------
(* StreamProtocolParser::getProtocol() and readFile() *)

(* A parser that exists is used, also one whose file is invalid. A file    *)
(* that cannot be read leaves no parser behind.                            *)
ParserUsed ==
  IF parser # {} THEN parser
  ELSE IF file = NoFile THEN {}
  ELSE {[file |-> file, parsed |-> ParseProtocol(file)]}

(* Mutant: an invalid file still gives the protocols that came before the  *)
(* error.                                                                  *)
MutFound(used, name) == {p \in used : Named(p.parsed.protocols, name) # {}}

Found(used, name) == {p \in used : p.parsed.valid /\ Named(p.parsed.protocols, name) # {}}

(* parse(): the protocol of a record is found and compiled.                *)
Parse(r, used) ==
  LET found == Found(used, Link[r].protocol)
  IN  IF found = {} THEN [ok |-> FALSE, engine |-> engine[r]]
      ELSE LET protocols == (CHOOSE p \in found : TRUE).parsed.protocols
               protocol == CHOOSE p \in Named(protocols, Link[r].protocol) : TRUE
           IN  Compile(engine[r], protocol, Link[r].args)
-----------------------------------------------------------------------------
Booted == \A r \in Record : result[r] # "none"

(* streamInitRecord(): the first time a Stream is made; later whatever     *)
(* runs is aborted, which sets the status whether it was ERROR or not ...  *)
StopRecord ==
  /\ loading /\ todo # <<>> /\ ~stopped
  /\ stopped' = TRUE
  /\ IF Booted
     THEN /\ running' = running \ {Head(todo)}
          /\ status' = [status EXCEPT ![Head(todo)] = "UDF_ALARM"]
     ELSE UNCHANGED <<running, status>>
  /\ UNCHANGED <<file, parser, todo, loading, engine, result, source, seen>>

(* ... then initRecord() loads a protocol. A load that fails leaves the    *)
(* status as it was, and in the engine what it has compiled.               *)
LoadRecord ==
  /\ loading /\ stopped
  /\ LET r == Head(todo)
         loaded == Parse(r, ParserUsed)
     IN  /\ parser' = ParserUsed
         /\ engine' = [engine EXCEPT ![r] = loaded.engine]
         /\ status' = IF loaded.ok THEN [status EXCEPT ![r] = "NO_ALARM"] ELSE status
         /\ result' = [result EXCEPT ![r] = IF loaded.ok THEN "loaded" ELSE "failed"]
         /\ source' = [source EXCEPT ![r] = IF ParserUsed = {} THEN NoFile
                                            ELSE (CHOOSE p \in ParserUsed : TRUE).file]
  /\ todo' = Tail(todo) /\ stopped' = FALSE
  /\ UNCHANGED <<file, loading, running, seen>>

(* Mutant: the parsers are kept for the next streamReload.                 *)
MutFree ==
  /\ loading /\ todo = <<>>
  /\ loading' = FALSE /\ seen' = {}
  /\ UNCHANGED <<file, parser, todo, stopped, engine, status, running, result, source>>

(* free(): the parsers are deleted when all records are done.              *)
Free ==
  /\ loading /\ todo = <<>>
  /\ parser' = {} /\ loading' = FALSE /\ seen' = {}
  /\ UNCHANGED <<file, todo, stopped, engine, status, running, result, source>>

(* streamReload() of all records that match a pattern, in their order.     *)
StreamReload ==
  /\ file \in Reloads /\ ~loading
  /\ \E some \in SUBSET Record : todo' = SelectSeq(RecordOrder, LAMBDA r : r \in some)
  /\ loading' = TRUE /\ seen' = {file}
  /\ UNCHANGED <<file, parser, stopped, engine, status, running, result, source>>

EditFile ==
  /\ \E e \in Edits : e[1] = file /\ file' = e[2]
  /\ seen' = IF loading THEN seen \cup {file'} ELSE seen
  /\ UNCHANGED <<parser, todo, stopped, loading, engine, status, running, result, source>>
-----------------------------------------------------------------------------
(* Records that are processed: streamReadWrite() and process() *)

(* Refused are records with the status ERROR and those without commands.   *)
Process(r) ==
  /\ Booted /\ r \notin running
  /\ status[r] # "ERROR" /\ engine[r].code["commands"] # <<>>
  /\ running' = running \cup {r}
  /\ status' = [status EXCEPT ![r] = "NO_ALARM"]
  /\ UNCHANGED <<file, parser, todo, stopped, loading, engine, result, source, seen>>

ProtocolEnds(r) ==
  /\ r \in running
  /\ running' = running \ {r}
  /\ UNCHANGED <<file, parser, todo, stopped, loading, engine, status, result, source, seen>>

Next ==
  \/ StopRecord \/ LoadRecord \/ Free \/ StreamReload \/ EditFile
  \/ \E r \in Record : Process(r) \/ ProtocolEnds(r)

Spec == Init /\ [][Next]_vars
-----------------------------------------------------------------------------
(* Properties *)

(* A load succeeds exactly if the file is legal, has the protocol, and all *)
(* that this protocol says can be compiled: an error anywhere in the file  *)
(* is an error for all its protocols ("Protocol file is invalid",          *)
(* getProtocol()).  Legal is what ProtocolText says: there a variable that *)
(* is set in the protocol only cannot be referenced in an assignment, see  *)
(* ReferencesAsDocumented.                                                 *)
Compiled(f, r) == Compile(NothingCompiled, ProtocolIn(f, Link[r].protocol), Link[r].args)
Loadable(f, r) ==
  /\ f # NoFile /\ LegalFile(f)
  /\ Link[r].protocol \in ProtocolsIn(f)
  /\ Compiled(f, r).ok
OnlyLegalFilesLoad ==
  \A r \in Record : result[r] # "none" => (result[r] = "loaded" <=> Loadable(source[r], r))

(* A record that has loaded its protocol has the settings and the code     *)
(* that the text of the file gives it and nothing of its earlier           *)
(* protocols: local variables and handlers before inherited ones, defaults *)
(* for what is not set, protocol references replaced by commands, and in   *)
(* assignments references to variables by global values.                   *)
LoadedAsWritten ==
  \A r \in Record : result[r] = "loaded" => engine[r] = Compiled(source[r], r).engine

(* One streamReload reads the file once: its records get protocols of one  *)
(* and the same content, and none that was gone before it began.           *)
OneVersion ==
  [][ \A r \in Record : LoadRecord /\ r = Head(todo) /\ result'[r] = "loaded" =>
        /\ source'[r] \in seen
        /\ \A p \in parser : source'[r] = p.file ]_vars

(* "If a record can't reload its protocol file (e.g. because of a syntax   *)
(* error), it stays INVALID/UDF until a valid protocol is loaded."         *)
(* (setup.html)                                                            *)
StaysInvalid ==
  \A r \in running : result[r] = "loaded" \/ (stopped /\ r = Head(todo))

(* "The reference will be replaced by the value of the variable at this    *)
(* point" and "Once set, a user variable can be referenced later in the    *)
(* protocol" (protocol.html): an assignment in a protocol gets what the    *)
(* protocol itself has set before it, and else the global value.  The code *)
(* has the global value always, so that this does not hold: see README.md. *)
DocumentedParts(f) ==
  [j \in DOMAIN f |-> [n \in DOMAIN f[j].value |->
    [at |-> IF f[j].value[n].is = "var"
            THEN LastNamed(f, Before(Inherited(f, BlockOf(f, j), "assign"), j), f[j].value[n].of)
            ELSE 0,
     own |-> <<f[j].value[n]>>]]]
Documented(f, name) ==
  LET i == CHOOSE i \in Within(f, 0, "protocol") : f[i].name = name
  IN  [ProtocolAt(f, i) EXCEPT
         !.vars = Entries(f, Inherited(f, i, "assign"), Expanded(DocumentedParts(f)))]
ReferencesAsDocumented ==
  \A r \in Record : result[r] = "loaded" =>
    LET meant == Documented(source[r], Link[r].protocol)
    IN  engine[r] = Compile(NothingCompiled, meant, Link[r].args).engine
=============================================================================
