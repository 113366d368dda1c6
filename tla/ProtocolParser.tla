--------------------------- MODULE ProtocolParser ---------------------------
(***************************************************************************)
(* Step 1 of StreamProtocol.cc: a protocol file is broken into protocols,  *)
(* handlers, variables and commands (parseProtocol() and what it calls).   *)
(*                                                                         *)
(* A file is a sequence of statements, one for each round of the loop of   *)
(* parseProtocol(): what readToken() delivers up to the ; { or } that      *)
(* decides what the words before it are. Their parts are                   *)
(*   text   a quoted string, a number or a word                            *)
(*   var    $name or ${name}, also \$name in a quoted string               *)
(*   param  $1 to $9, the arguments that a record gives to its protocol    *)
(*   junk   a character that ends the parsing: { or = in a value, an       *)
(*          unterminated string, the end of the file                       *)
(* Words are in lower case here: readToken() makes them so.                *)
(***************************************************************************)
EXTENDS SequencesExt

Part == [is : {"text", "var", "param", "junk"}, of : STRING]

(* name = value;   @name {   name {   }   name args;   and anything else.  *)
(* The name of a handler begins with @.                                    *)
Statement == {st \in [is : {"assign", "handler", "protocol", "close", "word", "junk"},
                      name : STRING, value : Seq(Part)] : st.is = "handler" => st.name # ""}

(* What is left of a Protocol after step 1. The handlers are variables     *)
(* with a @ before their name in the code, and so are the commands.        *)
NoEntries == [n \in {} |-> <<>>]
Empty == [name |-> "", vars |-> NoEntries, handlers |-> NoEntries, commands |-> <<>>]

(* createVariable(): an old value of the same name is replaced.            *)
CreateVariable(f, name, value) ==
  [n \in DOMAIN f \cup {name} |-> IF n = name THEN value ELSE f[n]]

(* The parser begins in global context. No two protocols have one name, so *)
(* that their order in the list does not matter.                           *)
Start == [globals |-> Empty, protocols |-> {}, body |-> Empty,
          inside |-> FALSE, handler |-> "", valid |-> TRUE]

InHandler(s) == s.handler # ""
IsGlobal(s) == ~s.inside /\ ~InHandler(s)

Context(s) == IF s.inside THEN s.body ELSE s.globals
Change(s, p) == IF s.inside THEN [s EXCEPT !.body = p] ELSE [s EXCEPT !.globals = p]
Invalid(s) == [s EXCEPT !.valid = FALSE]

Named(protocols, name) == {p \in protocols : p.name = name}
-----------------------------------------------------------------------------
(* parseValue() of an assignment: references are replaced by the values    *)
(* that the global settings have now, parameters later.                    *)
Parsable(value) == \A i \in DOMAIN value : value[i].is # "junk"
Replaced(globals, part) ==
  IF part.is = "var" THEN globals.vars[part.of] ELSE <<part>>
Assignment(s, st) ==
  IF \/ InHandler(s) \/ ~Parsable(st.value)
     \/ \E i \in DOMAIN st.value :
          st.value[i].is = "var" /\ st.value[i].of \notin DOMAIN s.globals.vars
  THEN Invalid(s)
  ELSE LET value == FlattenSeq([i \in DOMAIN st.value |->
                                  Replaced(s.globals, st.value[i])])
       IN  Change(s, [Context(s) EXCEPT !.vars = CreateVariable(@, st.name, value)])

(* @name { overrides an existing handler.                                  *)
HandlerDefinition(s, st) ==
  IF InHandler(s) THEN Invalid(s)
  ELSE [Change(s, [Context(s) EXCEPT !.handlers = CreateVariable(@, st.name, <<>>)])
          EXCEPT !.handler = st.name]

(* A new protocol begins with a copy of all global variables and handlers. *)
ProtocolDefinition(s, st) ==
  IF ~IsGlobal(s) \/ Named(s.protocols, st.name) # {} THEN Invalid(s)
  ELSE [s EXCEPT !.inside = TRUE, !.body = [s.globals EXCEPT !.name = st.name]]

(* } ends a handler or a protocol.                                         *)
BlockEnd(s) ==
  IF InHandler(s) THEN [s EXCEPT !.handler = ""]
  ELSE IF s.inside
  THEN [s EXCEPT !.inside = FALSE, !.body = Empty, !.protocols = @ \cup {s.body}]
  ELSE Invalid(s)

(* A word without arguments may refer to a protocol that is complete: its  *)
(* commands, but not its variables and handlers, are copied. All other     *)
(* words are commands; their references are kept ("lazy").                 *)
Commands(s, st) ==
  LET meant == IF st.value = <<>> THEN Named(s.protocols, st.name) ELSE {}
  IN  IF meant # {} THEN (CHOOSE p \in meant : TRUE).commands
      ELSE <<[op |-> st.name, args |-> st.value]>>

CommandOrReference(s, st) ==
  IF IsGlobal(s) \/ ~Parsable(st.value) THEN Invalid(s)
  ELSE Change(s, IF InHandler(s)
                 THEN [Context(s) EXCEPT !.handlers[s.handler] = @ \o Commands(s, st)]
                 ELSE [Context(s) EXCEPT !.commands = @ \o Commands(s, st)])

(* One round of parseProtocol(). After an error nothing more is read.      *)
ParseStatement(s, st) ==
  IF ~s.valid THEN s
  ELSE CASE st.is = "assign"   -> Assignment(s, st)
         [] st.is = "handler"  -> HandlerDefinition(s, st)
         [] st.is = "protocol" -> ProtocolDefinition(s, st)
         [] st.is = "close"    -> BlockEnd(s)
         [] st.is = "word"     -> CommandOrReference(s, st)
         [] OTHER              -> Invalid(s)

(* parseProtocol(globalSettings): the file may only end in global context. *)
ParseProtocol(file) ==
  LET s[n \in 0 .. Len(file)] == IF n = 0 THEN Start ELSE ParseStatement(s[n - 1], file[n])
      end == s[Len(file)]
  IN  [valid |-> end.valid /\ IsGlobal(end), protocols |-> end.protocols]
=============================================================================
