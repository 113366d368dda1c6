-------------------------- MODULE ProtocolCompiler --------------------------
(***************************************************************************)
(* Step 2 of StreamProtocol.cc and StreamCore::compile(): a copy of a      *)
(* parsed protocol, with the arguments of one record, becomes the settings *)
(* and the code that the engine of that record runs.                       *)
(*                                                                         *)
(* A compiled string or number is the sequence of the texts it is made of. *)
(* Bytes, escapes and converters are left out, except that some texts      *)
(* cannot be compiled. The masks of `event` are left out.                  *)
(***************************************************************************)
EXTENDS ProtocolParser

CONSTANTS
  Numerals,     \* the texts that are numbers; no other begins with a digit
  BadFormats,   \* the texts that no command can compile
  Digit,        \* what $1, $2, ... stand for: [Digit -> position]
  EventBus      \* whether the bus supports events

Missing == "missing"

ASSUME CompilerAssumption ==
  /\ Numerals \subseteq STRING /\ BadFormats \subseteq STRING
  /\ Missing \notin Numerals
  /\ EventBus \in BOOLEAN

-----------------------------------------------------------------------------
(* Variables and parameters. p is the protocol, args are the arguments.    *)

Argument(args, digit) ==
  IF Digit[digit] \in DOMAIN args THEN args[Digit[digit]] ELSE Missing

(* compileString(): references are replaced in turn, in their values too.  *)
Plain(part, args) == IF part.is = "param" THEN Argument(args, part.of) ELSE part.of
Inserted(p, args, part) ==
  IF part.is # "var" THEN <<Plain(part, args)>>
  ELSE IF part.of \notin DOMAIN p.vars THEN <<Missing>>
  ELSE [i \in DOMAIN p.vars[part.of] |-> Plain(p.vars[part.of][i], args)]
Inserts(p, args, value) ==
  FlattenSeq([i \in DOMAIN value |-> Inserted(p, args, value[i])])

(* What is compiled up to the first text that is missing or refused.       *)
Cut(texts, k) == [ok |-> k = 0, value |-> IF k = 0 THEN texts ELSE SubSeq(texts, 1, k - 1)]
UpTo(texts, Refused(_)) == Cut(texts, SelectInSeq(texts, Refused))

CompileString(p, args, value, refused) ==
  UpTo(Inserts(p, args, value), LAMBDA t : t = Missing \/ t \in refused)

(* compileNumber(): unlike a string, the value of a variable is taken as   *)
(* it is: a parameter in it is no number, and a value of several tokens    *)
(* ends the number with its first token. A text that is no number stands   *)
(* behind it: the number is stored before the caller refuses this garbage. *)
Numeric(p, args, part) ==
  IF part.is # "var" THEN Plain(part, args)
  ELSE IF part.of \notin DOMAIN p.vars \/ p.vars[part.of] = <<>> THEN Missing
  ELSE IF Head(p.vars[part.of]).is = "param" THEN Missing
  ELSE Head(p.vars[part.of]).of
EndsNumber(p, part) ==
  part.is = "var" /\ part.of \in DOMAIN p.vars /\ Len(p.vars[part.of]) > 1
Visible(p, value) ==
  {i \in DOMAIN value : \A m \in 1 .. i - 1 : ~EndsNumber(p, value[m])}
Stored(p, args, value) ==
  {i \in Visible(p, value) : \A m \in 1 .. i : Numeric(p, args, value[m]) \in Numerals}
Garbage(p, args, value) ==
  {i \in Visible(p, value) \ Stored(p, args, value) :
     i - 1 \in Stored(p, args, value) /\ value[i].is = "text"}
CompileNumber(p, args, value) ==
  LET ok == value # <<>> /\ Visible(p, value) = Stored(p, args, value)
  IN  [ok |-> ok,
       value |-> IF ok \/ Garbage(p, args, value) # {}
                 THEN [i \in Stored(p, args, value) |-> Numeric(p, args, value[i])] ELSE <<>>]
-----------------------------------------------------------------------------
(* StreamCore::compile(), the settings                                     *)

Defaults == [extraInput |-> <<"error">>, lockTimeout |-> <<"5000">>, readTimeout |-> <<"100">>,
  replyTimeout |-> <<"1000">>, writeTimeout |-> <<"100">>, maxInput |-> <<"0">>,
  pollPeriod |-> <<"1000">>,
  inTerminatorDefined |-> <<"false">>, outTerminatorDefined |-> <<"false">>]
Flags == {"inTerminatorDefined", "outTerminatorDefined"}
Strings == {"inTerminator", "outTerminator", "separator"}
Setting == DOMAIN Defaults \cup Strings

(* The variables that decide a setting, the first that is defined.         *)
Variables == [extraInput |-> <<"extrainput">>, lockTimeout |-> <<"locktimeout">>,
  readTimeout |-> <<"readtimeout">>, replyTimeout |-> <<"replytimeout">>,
  writeTimeout |-> <<"writetimeout">>, maxInput |-> <<"maxinput">>,
  pollPeriod |-> <<"pollperiod">>,
  inTerminator |-> <<"interminator", "terminator">>,
  inTerminatorDefined |-> <<"interminator", "terminator">>,
  outTerminator |-> <<"outterminator", "terminator">>,
  outTerminatorDefined |-> <<"outterminator", "terminator">>, separator |-> <<"separator">>]

(* getEnumVariable(), getNumberVariable() and getStringVariable(): a       *)
(* number of which nothing is stored, or a word that is refused, leaves    *)
(* the default.  A string sets its flag whether it is refused or not.      *)
OrDefault(read, default) == [read EXCEPT !.value = IF read.value # <<>> THEN @ ELSE default]
IsEnum(value) == value # <<>> /\ Head(value).of \in {"error", "ignore"}
SetTo(p, args, setting, value, default) ==
  CASE setting = "extraInput" ->
         [ok |-> IsEnum(value), value |-> IF IsEnum(value) THEN <<Head(value).of>> ELSE default]
    [] setting \in Strings -> CompileString(p, args, value, {})
    [] setting \in Flags -> [ok |-> TRUE, value |-> <<"true">>]
    [] OTHER -> OrDefault(CompileNumber(p, args, value), default)
SetBy(p, args, setting, default) ==
  LET k == SelectInSeq(Variables[setting], LAMBDA v : v \in DOMAIN p.vars)
  IN  IF k = 0 THEN [ok |-> TRUE, value |-> default]
      ELSE SetTo(p, args, setting, p.vars[Variables[setting][k]], default)

(* The default of pollPeriod is what replyTimeout has become before it.    *)
CompileSetting(p, args, setting) ==
  SetBy(p, args, setting,
    CASE setting \in Strings -> <<>>
      [] setting = "pollPeriod" ->
           SetBy(p, args, "replyTimeout", Defaults["replyTimeout"]).value
      [] OTHER -> Defaults[setting])

(* A terminator that is refused leaves outTerminator and its flag here as  *)
(* they were, in the code as "outterminator" says; that matters to no load *)
(* that succeeds.                                                          *)
SettingOrder == <<"extraInput", "lockTimeout", "readTimeout", "replyTimeout", "writeTimeout",
  "maxInput", "pollPeriod", "inTerminatorDefined", "inTerminator", "outTerminatorDefined",
  "outTerminator", "separator">>
-----------------------------------------------------------------------------
(* StreamCore::compileCommand(): a command that is refused leaves its code *)
(* and what it has compiled of its arguments.                              *)

Coded(c, read) == [ok |-> read.ok, code |-> <<[op |-> c.op, args |-> read.value]>>]
CompileCommand(p, args, c) ==
  CASE c.op \in {"in", "out", "exec"} -> Coded(c, CompileString(p, args, c.args, BadFormats))
    [] c.op = "event" /\ EventBus /\ c.args = <<>> -> Coded(c, [ok |-> TRUE, value |-> <<"0">>])
    [] \/ c.op \in {"wait", "connect"}
       \/ c.op = "event" /\ EventBus /\ c.args # <<>> -> Coded(c, CompileNumber(p, args, c.args))
    [] c.op = "disconnect" -> Coded(c, [ok |-> c.args = <<>>, value |-> <<>>])
    [] OTHER -> [ok |-> FALSE, code |-> <<>>]

(* Mutant: the new code is appended to the old code.                       *)
MutClear(code) == code
Clear(code) == <<>>

(* What is compiled in an order is reached if nothing is refused before it. *)
Reached(order, compiled, x) ==
  \A n \in DOMAIN order : order[n] = x => \A m \in 1 .. n - 1 : compiled[order[m]].ok

(* getCommands(): the old code goes away whether there is new one or not;  *)
(* compileCommands() stops at the first command that is refused.           *)
CompileCommands(one, old) ==
  [ok |-> \A i \in DOMAIN one : one[i].ok,
   code |-> Clear(old) \o FlattenSeq([i \in DOMAIN one |->
     IF \A m \in 1 .. i - 1 : one[m].ok THEN one[i].code ELSE <<>>])]
GetCommands(p, args, commands, old) ==
  CompileCommands([i \in DOMAIN commands |-> CompileCommand(p, args, commands[i])], old)

(* The blocks of code, as in StreamCore, and the handlers they come from.  *)
HandlerOf == [onInit |-> "@init", onWriteTimeout |-> "@writetimeout",
  onReplyTimeout |-> "@replytimeout", onReadTimeout |-> "@readtimeout",
  onMismatch |-> "@mismatch"]
BlockOrder == <<"commands", "onInit", "onWriteTimeout", "onReplyTimeout",
                "onReadTimeout", "onMismatch">>
CodeBlock == DOMAIN HandlerOf \cup {"commands"}

Source(p, block) ==
  IF block = "commands" THEN p.commands
  ELSE IF HandlerOf[block] \in DOMAIN p.handlers THEN p.handlers[HandlerOf[block]] ELSE <<>>

-----------------------------------------------------------------------------
(* StreamCore::compile(): first the defaults of the numbers, then one      *)
(* setting and one block of code after the other until one is refused;     *)
(* checkUnused() refuses handlers that are not known.                      *)

NothingCompiled == [settings |-> [s \in Setting |-> <<>>], code |-> [b \in CodeBlock |-> <<>>]]

WithDefaults(engine) ==
  [engine EXCEPT !.settings = [s \in Setting |->
     IF s \in Strings THEN engine.settings[s] ELSE Defaults[s]]]

CompileSettings(engine, p, args) ==
  LET one == [s \in Setting |-> CompileSetting(p, args, s)]
  IN  [ok |-> \A s \in Setting : one[s].ok,
       engine |-> [engine EXCEPT !.settings = [s \in Setting |->
         IF Reached(SettingOrder, one, s) THEN one[s].value
         ELSE WithDefaults(engine).settings[s]]]]

CompileCode(engine, p, args) ==
  LET one == [b \in CodeBlock |-> GetCommands(p, args, Source(p, b), engine.code[b])]
  IN  [ok |-> \A b \in CodeBlock : one[b].ok,
       engine |-> [engine EXCEPT !.code = [b \in CodeBlock |->
         IF Reached(BlockOrder, one, b) THEN one[b].code ELSE engine.code[b]]]]

CheckUnused(p) == DOMAIN p.handlers \subseteq {HandlerOf[b] : b \in DOMAIN HandlerOf}

Compile(engine, p, args) ==
  LET set == CompileSettings(engine, p, args)
      coded == CompileCode(set.engine, p, args)
  IN  IF ~set.ok THEN set ELSE [coded EXCEPT !.ok = @ /\ CheckUnused(p)]
=============================================================================
