----------------------------- MODULE StreamCore -----------------------------
(***************************************************************************)
(* The protocol engine of one record (class StreamCore) and the bus        *)
(* interface it talks to (class StreamBusInterface).                       *)
(*                                                                         *)
(* Every entry into the engine (startProtocol and the bus, timer and exec  *)
(* callbacks) holds the record's mutex until it returns.  While it is held *)
(* `call` is the function of the engine that runs next, with its           *)
(* arguments; the functions of the engine call each other in tail          *)
(* position, so no stack is needed.  call.fn = "idle": nobody is inside.   *)
(* The one exception is finishProtocol(Abort), which its callers call      *)
(* without the mutex: see Abort.                                           *)
(*                                                                         *)
(* The bus keeps a set of `outstanding` activities, each of which answers  *)
(* later with one callback.  The device's data are abstracted to a few     *)
(* bytes; the format of an `in` command is the set of lines it matches.    *)
(***************************************************************************)
EXTENDS InputFraming

CONSTANTS
  Protocols,     \* the compiled protocols to choose from
  Chunks,        \* what one read of the device may return
  MaxBuffer,     \* bound on the length of inputBuffer
  Refusable,     \* requests the bus may refuse (return false)
  Immediate,     \* requests it may answer before they return
  Unlimited,     \* requests that the bus queues without a timeout
  AsyncBus,      \* supportsAsyncRead()
  MaxLocks       \* bound on busLocks when protocols are aborted

Handler == {"onWriteTimeout", "onReplyTimeout", "onReadTimeout", "onMismatch"}
Block == {"commands", "onInit"} \cup Handler
Op == {"in", "out", "wait", "event", "exec", "connect", "disconnect"}

(* One command of a code block: `pattern` is what an `in` matches, `timed` *)
(* tells whether an `event` has a timeout.                                 *)
Command == [op : Op, pattern : SUBSET Seq(Byte), timed : BOOLEAN]

Flag == {"InitRun", "AsyncMode", "BusOwner", "AcceptInput", "AcceptEvent",
         "LockPending", "WritePending", "WaitPending", "Aborted"}
BusPending == {"LockPending", "WritePending", "WaitPending"}

ProtocolResult == {"Success", "LockTimeout", "WriteTimeout", "ReplyTimeout",
  "ReadTimeout", "ScanError", "FormatError", "Abort", "Fault", "Offline"}
IoStatus == {"Success", "Timeout", "NoReply", "End", "Fault"}
StartMode == {"StartNormal", "StartInit", "StartAsync"}

(* What the bus, the timer and the command shell may be busy with.  The    *)
(* requests of QueueKind share the record's one place in the bus's queue,  *)
(* which an "obsolete" one blocks until the bus has skipped it.            *)
QueueKind == {"lock", "write", "read", "asyncRead", "connect", "disconnect"}
Activity == QueueKind \cup {"event", "timer", "exec", "obsolete"}
Callback == {"lockCallback", "writeCallback", "readCallback", "eventCallback",
             "timerCallback", "execCallback", "connectCallback",
             "disconnectCallback"}
CallbackOf ==
  [lock |-> "lockCallback", write |-> "writeCallback", read |-> "readCallback",
   asyncRead |-> "readCallback", event |-> "eventCallback",
   timer |-> "timerCallback", exec |-> "execCallback",
   connect |-> "connectCallback", disconnect |-> "disconnectCallback"]

(* A function of the engine about to run.  `source` tells who delivers the *)
(* input of a readCallback: a read request, the bus unasked ("early"), or  *)
(* evalIn with what is left in inputBuffer ("leftover").                   *)
Function == {"idle", "evalCommand", "end", "readRequest", "parse", "finish",
             "cleanup", "hook"} \cup Op \cup Callback
Source == {"read", "asyncRead", "early", "leftover"}
CallSet == [fn : Function, status : ProtocolResult \cup IoStatus,
            input : Seq(Byte), source : Source]

ASSUME StreamCoreAssumption ==
  /\ Protocols \subseteq [Block -> Seq(Command)]
  /\ Chunks \subseteq Seq(Byte) \ {<<>>}
  /\ MaxBuffer \in Nat
  /\ Refusable \subseteq QueueKind
  /\ Immediate \subseteq {"lock", "write", "read", "event", "connect"}
  /\ Unlimited \subseteq QueueKind
  /\ AsyncBus \in BOOLEAN
  /\ MaxLocks \in Nat

VARIABLES
  protocol,         \* commands, onInit and the error handlers
  flags,            \* StreamCore::flags
  activeCommand,    \* the command being executed, "end" when there is none
  commandIndex,     \* the next command: a block and a position in it
  runningHandler,   \* the first error of the run, "Success" before it
  unparsedInput, inputBuffer, inputLine, lastInputStatus,
  call,             \* the function running under the mutex
  ret,              \* what startProtocol is going to return
  outstanding,      \* what the bus, timer and shell still have to answer
  late,             \* requests the bus was executing when finish() was called
  busLocks          \* how often this record has the bus locked

programVars == <<activeCommand, commandIndex, runningHandler>>
inputVars == <<unparsedInput, inputBuffer, inputLine, lastInputStatus>>
busVars == <<outstanding, late, busLocks>>
vars == <<protocol, flags, programVars, inputVars, call, ret, busVars>>

TypeOK ==
  /\ protocol \in Protocols
  /\ flags \in SUBSET Flag
  /\ activeCommand \in Op \cup {"end"}
  /\ commandIndex \in [block : Block, pos : Nat \ {0}]
  /\ runningHandler \in ProtocolResult
  /\ unparsedInput \in BOOLEAN
  /\ inputBuffer \in Seq(Byte) /\ inputLine \in Seq(Byte)
  /\ lastInputStatus \in IoStatus
  /\ call \in CallSet
  /\ ret \in {"none", "open", "true", "false"}
  /\ outstanding \in SUBSET Activity /\ late \in SUBSET QueueKind
  /\ busLocks \in Int
-----------------------------------------------------------------------------
(* Helpers *)

Calls(fn, status) ==
  [fn |-> fn, status |-> status, input |-> <<>>, source |-> "leftover"]
Receives(status, input, source) ==
  [fn |-> "readCallback", status |-> status, input |-> input, source |-> source]
Idle == Calls("idle", "Success")

Has(f) == f \in flags

OpAt(index) ==
  IF index.pos <= Len(protocol[index.block])
  THEN protocol[index.block][index.pos].op ELSE "end"
NextOp == OpAt(commandIndex)

(* The command being executed; commandIndex is already behind it.          *)
Current == protocol[commandIndex.block][commandIndex.pos - 1]

(* startProtocol returns what the outermost eval function returns, and the *)
(* first of them to decide is the outermost one.                           *)
Return(value) == ret' = IF ret = "open" THEN value ELSE ret

(* The bus takes a request if the record has no other one in the queue.    *)
(* An async read that cannot be queued is tried again later.               *)
CanQueue(kind) ==
  kind \in QueueKind \ {"asyncRead"} =>
     outstanding \cap (QueueKind \cup {"obsolete"}) = {}

(* A request the bus accepts: it answers later, or at once by calling back *)
(* from inside the request (callbacks do nothing once Aborted is set).     *)
(* `locks` is the lock count after what the caller unlocked before.        *)
BusTakes(kind, locks) ==
  \/ /\ CanQueue(kind)
     /\ outstanding' = outstanding \cup {kind}
     /\ busLocks' = locks
     /\ call' = Idle
     /\ UNCHANGED late
  \/ /\ kind \in Immediate
     /\ busLocks' = IF kind = "lock" THEN locks + 1 ELSE locks
     /\ IF Has("Aborted") THEN call' = Idle
        ELSE IF kind = "read"
        THEN \E c \in Chunks : call' = Receives("End", c, "read")
        ELSE call' = Calls(CallbackOf[kind], "Success")
     /\ UNCHANGED <<outstanding, late>>

BusRefuses(kind) ==
  /\ kind \in Refusable \/ ~CanQueue(kind)
  /\ UNCHANGED busVars
-----------------------------------------------------------------------------
(* startProtocol() *)

Init ==
  /\ protocol \in Protocols
  /\ flags = {}
  /\ activeCommand = "end"
  /\ commandIndex = [block |-> "commands", pos |-> 1]
  /\ runningHandler = "Success"
  /\ unparsedInput = FALSE /\ inputBuffer = <<>> /\ inputLine = <<>>
  /\ lastInputStatus = "Success"
  /\ call = Idle /\ ret = "none"
  /\ outstanding = {} /\ late = {} /\ busLocks = 0

ModeFlags == [StartNormal |-> {}, StartInit |-> {"InitRun"},
              StartAsync |-> {"AsyncMode"}]
BlockOf == [StartNormal |-> "commands", StartInit |-> "onInit",
            StartAsync |-> "commands"]

(* A start clears all flags, also BusOwner, whether it succeeds or not.    *)
StartProtocol(mode) ==
  LET supported == mode = "StartAsync" => AsyncBus
      startable == supported /\ protocol[BlockOf[mode]] # <<>>
  IN  /\ flags' = IF startable \/ (supported /\ mode = "StartAsync")
                  THEN ModeFlags[mode] ELSE {}
      /\ IF startable
         THEN /\ commandIndex' = [block |-> BlockOf[mode], pos |-> 1]
              /\ runningHandler' = "Success"
              /\ call' = Calls("evalCommand", "Success")
         ELSE call' = Idle /\ UNCHANGED <<commandIndex, runningHandler>>
      /\ UNCHANGED <<protocol, activeCommand, inputVars, busVars>>
-----------------------------------------------------------------------------
(* evalCommand() and the commands *)

Finish(status) == call' = Calls("finish", status)

(* Mutant: the program runs backwards.                                     *)
MutBackwards ==
  /\ call.fn = "evalCommand"
  /\ activeCommand' = NextOp
  /\ commandIndex' = [commandIndex EXCEPT !.pos = @ - 1]
  /\ call' = Calls(NextOp, "Success")
  /\ UNCHANGED <<protocol, flags, runningHandler, inputVars, ret, busVars>>

EvalCommand ==
  /\ call.fn = "evalCommand"
  /\ IF flags \cap BusPending # {}
     THEN /\ call' = Idle /\ Return("false")
          /\ UNCHANGED <<activeCommand, commandIndex>>
     ELSE /\ activeCommand' = NextOp
          /\ commandIndex' = [commandIndex EXCEPT !.pos = @ + 1]
          /\ call' = Calls(NextOp, "Success")
          /\ UNCHANGED ret
  /\ UNCHANGED <<protocol, flags, runningHandler, inputVars, busVars>>

EvalEnd ==
  /\ call.fn = "end"
  /\ Finish("Success") /\ Return("true")
  /\ UNCHANGED <<protocol, flags, programVars, inputVars, busVars>>

(* An `in` or `event` that follows an `out` may be answered early.         *)
EarlyFlags == (IF NextOp = "in" THEN {"AcceptInput"} ELSE {})
                \cup (IF NextOp = "event" THEN {"AcceptEvent"} ELSE {})

EvalOut ==
  /\ call.fn = "out"
  /\ unparsedInput' = FALSE /\ inputBuffer' = <<>> /\ inputLine' = <<>>
  /\ \/ (* formatOutput() fails *)
        /\ Finish("FormatError") /\ Return("false")
        /\ UNCHANGED <<flags, busVars>>
     \/ /\ ~Has("BusOwner")
        /\ \/ /\ BusTakes("lock", busLocks) /\ Return("true")
              /\ flags' = flags \cup EarlyFlags \cup {"LockPending"}
           \/ /\ BusRefuses("lock")
              /\ Finish("Offline") /\ Return("false")
              /\ flags' = (flags \cup EarlyFlags) \ {"LockPending"}
     \/ /\ Has("BusOwner")
        /\ flags' = flags \cup EarlyFlags \cup {"WritePending"}
        /\ \/ BusTakes("write", busLocks) /\ Return("true")
           \/ BusRefuses("write") /\ call' = Idle /\ Return("false")
  /\ UNCHANGED <<protocol, programVars, lastInputStatus>>

EvalIn ==
  /\ call.fn = "in"
  /\ flags' = flags \cup {"AcceptInput"}
  /\ IF unparsedInput /\ Has("Aborted")
     THEN call' = Idle /\ Return("true")
     ELSE /\ call' = IF unparsedInput
                     THEN Receives(lastInputStatus, <<>>, "leftover")
                     ELSE Calls("readRequest", "Success")
          /\ UNCHANGED ret
  /\ UNCHANGED <<protocol, programVars, inputVars, busVars>>

(* The second half of evalIn(): ask the bus for (more) input.  In async    *)
(* mode the bus is released before.                                        *)
ReadRequest ==
  /\ call.fn = "readRequest"
  /\ LET async == Has("AsyncMode")
         kind  == IF async THEN "asyncRead" ELSE "read"
     IN  /\ flags' = IF async THEN flags \ {"BusOwner"} ELSE flags
         /\ \/ /\ BusTakes(kind, IF async /\ Has("BusOwner")
                                 THEN busLocks - 1 ELSE busLocks)
               /\ Return("true")
            \/ /\ kind \in Refusable \/ ~CanQueue(kind)
               /\ busLocks' = IF async /\ Has("BusOwner")
                              THEN busLocks - 1 ELSE busLocks
               /\ call' = Idle /\ Return("false") /\ UNCHANGED <<outstanding, late>>
  /\ UNCHANGED <<protocol, programVars, inputVars>>

EvalWait ==
  /\ call.fn = "wait"
  /\ flags' = flags \cup {"WaitPending"}
  /\ outstanding' = outstanding \cup {"timer"}
  /\ call' = Idle /\ Return("true")
  /\ UNCHANGED <<protocol, programVars, inputVars, late, busLocks>>

(* Waiting for an event without timeout in async mode releases the bus.    *)
EvalEvent ==
  /\ call.fn = "event"
  /\ LET release == Has("AsyncMode") /\ ~Current.timed /\ Has("BusOwner")
     IN  /\ flags' = (IF release THEN flags \ {"BusOwner"} ELSE flags)
                       \cup {"AcceptEvent"}
         /\ BusTakes("event", IF release THEN busLocks - 1 ELSE busLocks)
  /\ Return("true")
  /\ UNCHANGED <<protocol, programVars, inputVars>>

EvalExec ==
  /\ call.fn = "exec"
  /\ \/ Finish("FormatError") /\ Return("false") /\ UNCHANGED <<flags, busVars>>
     \/ /\ flags' = flags \ {"BusOwner"}
        /\ BusTakes("exec", IF Has("BusOwner") THEN busLocks - 1 ELSE busLocks)
        /\ Return("true")
  /\ UNCHANGED <<protocol, programVars, inputVars>>

EvalConnect ==
  /\ call.fn = "connect"
  /\ \/ BusTakes("connect", busLocks) /\ Return("true")
     \/ BusRefuses("connect") /\ call' = Idle /\ Return("false")
  /\ UNCHANGED <<protocol, flags, programVars, inputVars>>

EvalDisconnect ==
  /\ call.fn = "disconnect"
  /\ \/ BusTakes("disconnect", busLocks) /\ Return("true")
     \/ BusRefuses("disconnect") /\ Finish("Fault") /\ Return("false")
  /\ UNCHANGED <<protocol, flags, programVars, inputVars>>
-----------------------------------------------------------------------------
(* The callbacks of bus, timer and shell, each under the mutex *)

(* "called unexpectedly": an error message and nothing else.               *)
Unexpected == call' = Idle /\ UNCHANGED <<flags, busVars>>

(* Mutants: the write is not expected, or the lock is forgotten.           *)
MutWriteUnexpected ==
  /\ call.fn = "lockCallback"
  /\ flags' = (flags \ {"LockPending"}) \cup {"BusOwner"}
  /\ BusTakes("write", busLocks)
  /\ UNCHANGED <<protocol, programVars, inputVars, ret>>
MutLockForgotten ==
  /\ call.fn = "lockCallback"
  /\ flags' = (flags \ {"LockPending"}) \cup {"WritePending"}
  /\ BusTakes("write", busLocks)
  /\ UNCHANGED <<protocol, programVars, inputVars, ret>>

(* The locked bus is asked to write at once.                               *)
LockCallback ==
  /\ call.fn = "lockCallback"
  /\ \/ ~Has("LockPending") /\ Unexpected
     \/ /\ Has("LockPending") /\ call.status = "Success"
        /\ flags' = (flags \ {"LockPending"}) \cup {"BusOwner", "WritePending"}
        /\ \/ BusTakes("write", busLocks)
           \/ BusRefuses("write") /\ Finish("Fault")
     \/ /\ Has("LockPending") /\ call.status # "Success"
        /\ flags' = flags \ {"LockPending", "BusOwner"}
        /\ Finish("LockTimeout") /\ UNCHANGED busVars
  /\ UNCHANGED <<protocol, programVars, inputVars, ret>>

WriteCallback ==
  /\ call.fn = "writeCallback"
  /\ \/ ~Has("WritePending") /\ Unexpected
     \/ /\ Has("WritePending")
        /\ flags' = flags \ {"WritePending"}
        /\ IF call.status = "Success"
           THEN call' = Calls("evalCommand", "Success")
           ELSE Finish("WriteTimeout")
        /\ UNCHANGED busVars
  /\ UNCHANGED <<protocol, programVars, inputVars, ret>>

EventCallback ==
  /\ call.fn = "eventCallback"
  /\ \/ ~Has("AcceptEvent") /\ Unexpected
     \/ /\ Has("AcceptEvent")
        /\ flags' = flags \ {"AcceptEvent"}
        /\ IF call.status = "Success" THEN call' = Calls("evalCommand", "Success")
           ELSE Finish(IF call.status = "Timeout" THEN "ReplyTimeout" ELSE "Fault")
        /\ UNCHANGED busVars
  /\ UNCHANGED <<protocol, programVars, inputVars, ret>>

TimerCallback ==
  /\ call.fn = "timerCallback"
  /\ \/ ~Has("WaitPending") /\ Unexpected
     \/ /\ Has("WaitPending")
        /\ flags' = flags \ {"WaitPending"}
        /\ call' = Calls("evalCommand", "Success") /\ UNCHANGED busVars
  /\ UNCHANGED <<protocol, programVars, inputVars, ret>>

(* execCallback, connectCallback and disconnectCallback as answers to the  *)
(* command of that name.                                                   *)
CommandAnswer ==
  IF call.status = "Success" THEN call' = Calls("evalCommand", "Success")
                             ELSE Finish("Fault")

ExecCallback ==
  /\ call.fn = "execCallback"
  /\ IF activeCommand = "exec" THEN CommandAnswer ELSE call' = Idle
  /\ UNCHANGED <<protocol, flags, programVars, inputVars, ret, busVars>>

(* A connect that nobody asked for runs the @init handler again.           *)
ConnectCallback ==
  /\ call.fn = "connectCallback"
  /\ \/ /\ activeCommand = "end"
        /\ StartProtocol("StartInit") /\ UNCHANGED ret
     \/ /\ activeCommand # "end"
        /\ IF activeCommand = "connect" THEN CommandAnswer
                                        ELSE call' = Idle
        /\ UNCHANGED <<protocol, flags, programVars, inputVars, ret, busVars>>

(* A disconnect that nobody asked for takes the protocol offline.          *)
DisconnectCallback ==
  /\ call.fn = "disconnectCallback"
  /\ IF activeCommand = "disconnect"
     THEN CommandAnswer /\ UNCHANGED flags
     ELSE flags' = flags \ BusPending /\ Finish("Offline")
  /\ UNCHANGED <<protocol, programVars, inputVars, ret, busVars>>
-----------------------------------------------------------------------------
(* readCallback() *)

(* What becomes of the return value 0: evalIn is done, and so is a bus     *)
(* request.                                                                *)
ReadReturns == IF call.source = "leftover" THEN Return("true") ELSE UNCHANGED ret

(* Status handling and early input, up to the check for an active `in`.    *)
ReadCallback ==
  /\ call.fn = "readCallback"
  /\ lastInputStatus' = call.status
  /\ \/ /\ ~Has("AcceptInput")
        /\ call' = Idle /\ ReadReturns
        /\ UNCHANGED <<unparsedInput, inputBuffer>>
     \/ /\ Has("AcceptInput") /\ call.status = "NoReply"
        /\ IF Has("AsyncMode")
           THEN call' = Calls("in", "Success") /\ UNCHANGED inputBuffer
           ELSE Finish("ReplyTimeout") /\ inputBuffer' = <<>>
        /\ ReadReturns /\ UNCHANGED unparsedInput
     \/ /\ Has("AcceptInput") /\ call.status = "Fault"
        /\ Finish("Fault") /\ ReadReturns
        /\ UNCHANGED <<unparsedInput, inputBuffer>>
     \/ /\ Has("AcceptInput") /\ call.status \notin {"NoReply", "Fault"}
        /\ inputBuffer' = inputBuffer \o call.input
        /\ IF activeCommand = "in"
           THEN /\ call' = [call EXCEPT !.fn = "parse",
                              !.status = EffectiveStatus(call.status)]
                /\ UNCHANGED <<ret, unparsedInput>>
           ELSE /\ unparsedInput' = (unparsedInput \/ inputBuffer' # <<>>)
                /\ call' = Idle /\ ReadReturns
  /\ UNCHANGED <<protocol, flags, programVars, inputLine, busVars>>

(* Mutant: nobody reads on.                                                *)
MutNoMore ==
  /\ call' = Idle
  /\ UNCHANGED <<outstanding, unparsedInput, inputBuffer, inputLine, ret>>

(* No end of line yet: the bus reads on, or evalIn asks it to.             *)
WantMore ==
  /\ IF call.source = "leftover"
     THEN call' = Calls("readRequest", "Success") /\ UNCHANGED outstanding
     ELSE /\ call' = Idle
          /\ outstanding' = IF call.source = "early" THEN outstanding
                            ELSE outstanding \cup {call.source}
  /\ UNCHANGED <<unparsedInput, inputBuffer, inputLine, ret>>

(* Look for a line and match it.                                           *)
Parse ==
  /\ call.fn = "parse"
  /\ LET status == call.status
         found  == LineAt(inputBuffer, Len(call.input), unparsedInput, status)
         line   == IF found.end = NotFound   \* timeout: try what we got
                   THEN [end |-> Len(inputBuffer), termlen |-> 0] ELSE found
         timeout == found.end = NotFound /\ status = "Timeout"
         more    == found.end = NotFound /\ status # "Timeout"
     IN  \/ more /\ WantMore
         \/ /\ timeout /\ Has("AsyncMode")
            /\ unparsedInput' = FALSE /\ inputBuffer' = <<>>
            /\ call' = Calls("in", "Success") /\ ReadReturns
            /\ UNCHANGED <<inputLine, outstanding>>
         \/ /\ ~more /\ ~(timeout /\ Has("AsyncMode"))
            /\ inputLine' = LineText(inputBuffer, line)
            /\ inputBuffer' = AfterLine(inputBuffer, line)
            /\ unparsedInput' = (inputBuffer' # <<>>)
            /\ LET matches == inputLine' \in Current.pattern
               IN  IF timeout THEN Finish("ReadTimeout")
                   ELSE IF matches THEN call' = Calls("evalCommand", "Success")
                   ELSE IF Has("AsyncMode") THEN call' = Calls("in", "Success")
                   ELSE Finish("ScanError")
            /\ ReadReturns /\ UNCHANGED outstanding
  /\ UNCHANGED <<protocol, flags, programVars, lastInputStatus, late, busLocks>>
-----------------------------------------------------------------------------
(* finishProtocol() *)

HandlerFor == [WriteTimeout |-> "onWriteTimeout", ReplyTimeout |-> "onReplyTimeout",
               ReadTimeout |-> "onReadTimeout", ScanError |-> "onMismatch"]

(* A @mismatch handler that begins with `in` tries the old line again.     *)
ReparseMatches ==
  /\ OpAt([block |-> "onMismatch", pos |-> 1]) = "in"
  /\ inputLine \in protocol["onMismatch"][1].pattern
ReparseFails ==
  /\ OpAt([block |-> "onMismatch", pos |-> 1]) = "in"
  /\ inputLine \notin protocol["onMismatch"][1].pattern

(* Mutants: only @init runs without handlers; the success of a handler     *)
(* hides the error that started it.                                        *)
MutHandlersNest == Has("InitRun")
MutHandlerHidesError(status) == status

(* Error handlers and @init runs have no error handlers.                   *)
WithoutHandlers == runningHandler # "Success" \/ Has("InitRun")

(* The successful end of a handler reports the error that started it.      *)
Reported(status) == IF status = "Success" THEN runningHandler ELSE status

(* The first error of a normal run starts its handler.  Any other end goes *)
(* on to the cleanup.                                                      *)
FinishProtocol ==
  /\ call.fn = "finish"
  /\ activeCommand' = "end"
  /\ LET status == IF call.status = "Success" /\ flags \cap BusPending # {}
                   THEN "Fault" ELSE call.status
     IN  IF WithoutHandlers
         THEN /\ call' = Calls("cleanup", Reported(status))
              /\ UNCHANGED <<commandIndex, runningHandler, unparsedInput, inputBuffer>>
         ELSE /\ runningHandler' = status
              /\ IF status \in DOMAIN HandlerFor
                 THEN LET reparsed == status = "ScanError" /\ ReparseMatches
                          rejected == status = "ScanError" /\ ReparseFails
                      IN /\ commandIndex' =
                              [block |-> HandlerFor[status],
                               pos |-> IF reparsed \/ rejected THEN 2 ELSE 1]
                         /\ call' = IF rejected THEN Calls("cleanup", status)
                                    ELSE Calls("evalCommand", "Success")
                         /\ UNCHANGED <<unparsedInput, inputBuffer>>
                 ELSE /\ call' = Calls("cleanup", status)
                      /\ unparsedInput' = (status = "Success" /\ unparsedInput)
                      /\ inputBuffer' = IF status = "Success" THEN inputBuffer ELSE <<>>
                      /\ UNCHANGED commandIndex
  /\ UNCHANGED <<protocol, flags, inputLine, lastInputStatus, ret, busVars>>

(* busFinish() makes the bus forget what it is busy with.  But a request   *)
(* in the queue stays there until the bus skips it, and one that is being  *)
(* executed, by the one port thread, still calls back.  Of an async read   *)
(* it depends on whether a poll is in the queue just now.                  *)
BusFinish ==
  LET requests == outstanding \cap QueueKind
      rest     == outstanding \ (QueueKind \cup {"event"})
  IN  \/ /\ requests \subseteq {"asyncRead"}
         /\ outstanding' = rest /\ UNCHANGED late
      \/ /\ requests # {}
         /\ \/ outstanding' = rest \cup {"obsolete"} /\ UNCHANGED late
            \/ late = {} /\ outstanding' = rest /\ late' = requests

(* Mutants: the bus stays locked, though BusOwner is cleared; both stay.   *)
MutLeaveLocked ==
  /\ call.fn = "cleanup"
  /\ flags' = flags \ {"BusOwner", "AcceptInput", "AcceptEvent"}
  /\ BusFinish
  /\ call' = Calls("hook", call.status)
  /\ UNCHANGED <<protocol, programVars, inputVars, ret, busLocks>>
MutStayOwner ==
  /\ call.fn = "cleanup"
  /\ flags' = flags \ {"AcceptInput", "AcceptEvent"}
  /\ BusFinish
  /\ call' = Calls("hook", call.status)
  /\ UNCHANGED <<protocol, programVars, inputVars, ret, busLocks>>

(* The rest of finishProtocol(): release the bus.                          *)
Cleanup ==
  /\ call.fn = "cleanup"
  /\ busLocks' = IF Has("BusOwner") THEN busLocks - 1 ELSE busLocks
  /\ flags' = flags \ {"BusOwner", "AcceptInput", "AcceptEvent"}
  /\ BusFinish
  /\ call' = Calls("hook", call.status)
  /\ UNCHANGED <<protocol, programVars, inputVars, ret>>

(* protocolFinishHook() is the record's business; of the engine's state it *)
(* may only re-enable early input, for an async protocol.                  *)
FinishHook ==
  /\ call.fn = "hook"
  /\ call' = Idle
  /\ flags' \in {flags, IF Has("AsyncMode") /\ call.status # "Abort"
                        THEN flags \cup {"AcceptInput"} ELSE flags}
  /\ UNCHANGED <<protocol, programVars, inputVars, ret, busVars>>
-----------------------------------------------------------------------------
(* The environment: who enters the engine while nobody is inside *)

NobodyInside == call = Idle /\ ret = "none"

(* The record starts a protocol, but not while one is running.             *)
Start(mode) ==
  /\ NobodyInside
  /\ activeCommand = "end" \/ (outstanding = {} /\ ~Has("BusOwner"))
  /\ StartProtocol(mode)
  /\ ret' = IF call'.fn = "idle" THEN "false" ELSE "open"

(* startProtocol() has returned to its caller.                             *)
StartReturned ==
  /\ call = Idle /\ ret \in {"true", "false"}
  /\ ret' = "none"
  /\ UNCHANGED <<protocol, flags, programVars, inputVars, call, busVars>>

Answers == [lock |-> {"Success", "Timeout", "Fault"},
            write |-> {"Success", "Timeout", "Fault"},
            event |-> {"Success", "Timeout", "Fault"},
            timer |-> {"Success"}, exec |-> {"Success", "Fault"},
            connect |-> {"Success", "Timeout", "Fault"},
            disconnect |-> {"Success", "Fault"}]

Answered(kind) ==
  \/ /\ kind \in outstanding
     /\ outstanding' = outstanding \ {kind} /\ UNCHANGED late
  \/ kind \in late /\ late' = late \ {kind} /\ UNCHANGED outstanding

(* The lock of an @init run is queued without a timeout: "block here".     *)
BlocksHere(kind) == kind = "lock" /\ Has("InitRun")

(* The answer to anything but a read.  A granted lock counts even if the   *)
(* callback ignores it.  An event without timeout may get the timeout of   *)
(* the event before it, whose timer is not cancelled.                      *)
Answer(kind, status) ==
  /\ NobodyInside
  /\ Answered(kind)
  /\ status = "Timeout" => ~BlocksHere(kind)
  /\ busLocks' = IF kind = "lock" /\ status = "Success"
                 THEN busLocks + 1 ELSE busLocks
  /\ call' = IF Has("Aborted") THEN Idle ELSE Calls(CallbackOf[kind], status)
  /\ UNCHANGED <<protocol, flags, programVars, inputVars, ret>>

(* Input for a read request: data with or without an end signal, a timeout *)
(* after none or some data, an error.                                      *)
AnswerRead(kind, status, input) ==
  /\ NobodyInside
  /\ Answered(kind)
  /\ call' = IF Has("Aborted") THEN Idle ELSE Receives(status, input, kind)
  /\ UNCHANGED <<protocol, flags, programVars, inputVars, ret, busLocks>>

(* Input that no read request asked for, perhaps with an end signal.       *)
EarlyInput(status, input) ==
  /\ NobodyInside
  /\ {"read", "asyncRead"} \cap outstanding = {} /\ ~Has("Aborted")
  /\ call' = Receives(status, input, "early")
  /\ UNCHANGED <<protocol, flags, programVars, inputVars, ret, busVars>>

(* The device is found disconnected while it is written or read.           *)
AsyncDisconnect(kind) ==
  /\ NobodyInside
  /\ Answered(kind)
  /\ call' = IF Has("Aborted") THEN Idle ELSE Calls("disconnectCallback", "Success")
  /\ UNCHANGED <<protocol, flags, programVars, inputVars, ret, busLocks>>

(* The device has connected again while the bus is not busy.               *)
AsyncConnect ==
  /\ NobodyInside
  /\ outstanding \cap (QueueKind \cup {"event"}) = {} /\ ~Has("Aborted")
  /\ call' = Calls("connectCallback", "Success")
  /\ UNCHANGED <<protocol, flags, programVars, inputVars, ret, busVars>>

(* The port thread finds a request in the queue that an abort has made     *)
(* obsolete.                                                               *)
SkipObsolete ==
  /\ "obsolete" \in outstanding
  /\ outstanding' = outstanding \ {"obsolete"}
  /\ UNCHANGED <<protocol, flags, programVars, inputVars, call, ret, late, busLocks>>

(* Mutant: the abort unlocks the bus but does not clear BusOwner.          *)
MutAbortKeepsOwner ==
  (flags \ {"AcceptInput", "AcceptEvent"})
     \cup (IF WithoutHandlers THEN {} ELSE {"Aborted"})

(* finishProtocol(Abort): unless an error handler or @init is running,     *)
(* Aborted is set, which silences all callbacks.  AbortFlags are the flags *)
(* it leaves to protocolFinishHook().                                      *)
AbortFlags ==
  (flags \ {"BusOwner", "AcceptInput", "AcceptEvent"})
     \cup (IF WithoutHandlers THEN {} ELSE {"Aborted"})

AbortProtocol ==
  /\ activeCommand' = "end"
  /\ IF ~WithoutHandlers
     THEN runningHandler' = "Abort" /\ unparsedInput' = FALSE /\ inputBuffer' = <<>>
     ELSE UNCHANGED <<runningHandler, unparsedInput, inputBuffer>>
  /\ busLocks' = IF Has("BusOwner") THEN busLocks - 1 ELSE busLocks
  /\ BusFinish
  /\ UNCHANGED <<protocol, commandIndex, inputLine, lastInputStatus, call, ret>>

(* streamInitRecord, streamGetIointInfo and the iocPause hook abort        *)
(* without the mutex, so at any time, between any two steps of a thread    *)
(* that is inside the engine.                                              *)
Abort == AbortProtocol /\ flags' = AbortFlags
-----------------------------------------------------------------------------
(* Specifications *)

Fits(input) == Len(inputBuffer) + Len(input) <= MaxBuffer

ProtocolStep ==
  \/ EvalCommand \/ EvalEnd \/ EvalOut \/ EvalIn \/ ReadRequest \/ EvalWait
  \/ EvalEvent \/ EvalExec \/ EvalConnect \/ EvalDisconnect
  \/ LockCallback \/ WriteCallback \/ EventCallback \/ TimerCallback
  \/ ExecCallback \/ ConnectCallback \/ DisconnectCallback
  \/ ReadCallback \/ Parse
  \/ FinishProtocol \/ Cleanup

EngineStep == ProtocolStep \/ FinishHook

AnswerStep ==
  \/ \E kind \in DOMAIN Answers : \E status \in Answers[kind] : Answer(kind, status)
  \/ \E kind \in {"read", "asyncRead"} :
       \/ \E input \in Chunks :
            Fits(input) /\ \E status \in {"Success", "End", "Timeout"} :
                              AnswerRead(kind, status, input)
       \/ \E status \in {"End", "Timeout", "NoReply", "Fault"} :
            AnswerRead(kind, status, <<>>)

DisconnectStep == \E kind \in {"write", "read", "asyncRead"} : AsyncDisconnect(kind)

StartStep == \E mode \in StartMode : Start(mode)

EarlyInputStep ==
  \E input \in Chunks : Fits(input) /\ \E status \in {"Success", "End"} :
                                         EarlyInput(status, input)

EnvironmentStep ==
  \/ StartStep \/ StartReturned \/ AnswerStep \/ EarlyInputStep
  \/ DisconnectStep \/ AsyncConnect

Next == EngineStep \/ EnvironmentStep

Spec == Init /\ [][Next]_vars

(* What the protocol waits for may never come: a request without timeout   *)
(* (an @init run blocks until it gets the bus), an event for which no      *)
(* timer is started, a shell command, or input in asynchronous mode.       *)
MayNeverCome(kind) ==
  \/ kind \in Unlimited \cup {"exec", "asyncRead"} \/ BlocksHere(kind)
  \/ kind = "event" /\ ~Current.timed
WaitsWithoutLimit == \E kind \in outstanding : MayNeverCome(kind)

(* The mutex is handed on fairly: whoever is inside goes on, and the wait  *)
(* timer and the timeouts of bus requests and events get through.          *)
Fairness ==
  /\ WF_vars(EngineStep) /\ WF_vars(StartReturned)
  /\ SF_vars(AnswerStep /\ ~WaitsWithoutLimit)
FairSpec == Spec /\ Fairness

(* The same with protocols aborted from outside at any time.  MaxLocks     *)
(* bounds the locks that aborts leave behind.                              *)
Bounded == busLocks' \in -MaxLocks .. MaxLocks
AbortNext == Next \/ SkipObsolete \/ Abort
AbortSpec == Init /\ [][AbortNext /\ Bounded]_vars
-----------------------------------------------------------------------------
(* Properties *)

(* The bus is locked by this record exactly while BusOwner is set, or the  *)
(* lock was granted and lockCallback has not run yet: no path through the  *)
(* engine loses a lock, releases one twice or keeps one after the end.     *)
BusLockBalance ==
  busLocks = IF Has("BusOwner")
                \/ (call.fn = "lockCallback" /\ call.status = "Success")
             THEN 1 ELSE 0

(* A protocol that is not running has released the bus and has nothing     *)
(* outstanding that could call back ("The device is unlocked when the      *)
(* protocol terminates", processing.html:44).                              *)
NothingLeftBehind ==
  call = Idle /\ activeCommand = "end" =>
    ~Has("BusOwner") /\ busLocks = 0 /\ outstanding = {} /\ late = {}

(* While nobody is inside the engine, a running protocol waits for exactly *)
(* one answer, the one its active command and its pending flag announce.   *)
(* Nothing else would ever wake it up again.                               *)
AwaitedBy ==
  [out |-> IF Has("LockPending") THEN "lock" ELSE "write",
   in |-> IF Has("AsyncMode") THEN "asyncRead" ELSE "read",
   wait |-> "timer", event |-> "event", exec |-> "exec",
   connect |-> "connect", disconnect |-> "disconnect"]
RunningProtocolWaits ==
  call = Idle /\ activeCommand # "end" => outstanding = {AwaitedBy[activeCommand]}

(* No callback is "called unexpectedly".                                   *)
CallbacksExpected ==
  /\ call.fn = "lockCallback" => Has("LockPending")
  /\ call.fn = "writeCallback" => Has("WritePending")
  /\ call.fn = "timerCallback" => Has("WaitPending")
  /\ call.fn = "eventCallback" => Has("AcceptEvent")
  /\ call.fn = "readCallback" /\ call.source # "early" => Has("AcceptInput")
  /\ call.fn = "evalCommand" => flags \cap BusPending = {}

(* The bus is asked to write only while it is locked.                      *)
WriteOnlyLocked == "write" \in outstanding => Has("BusOwner") /\ busLocks = 1

(* The engine never believes to own a bus that it has not locked and never *)
(* unlocks more often than it locked, also when protocols are aborted.     *)
LockNeverOverdrawn == busLocks >= IF Has("BusOwner") THEN 1 ELSE 0

(* A run that met an error never finishes with Success, not even when its  *)
(* error handler does.                                                     *)
FailureReported ==
  call.fn = "hook" /\ call.status = "Success" => runningHandler = "Success"

(* A run has at most one error handler, and once in it never leaves it.    *)
OneHandlerPerRun ==
  [][ commandIndex.block \in Handler
      => commandIndex'.block = commandIndex.block \/ runningHandler' = "Success" ]_vars

(* Every start of a protocol that is not asynchronous comes to an end, or  *)
(* hangs for good in a wait that has no limit: nothing else stops it.      *)
StartedProtocolFinishes ==
  (call.fn = "evalCommand" /\ ~Has("AsyncMode"))
    ~> (call.fn = "hook" \/ []WaitsWithoutLimit)
-----------------------------------------------------------------------------
(* The inductive invariant behind the properties above *)

(* The status of a call is a bus status or a protocol result, depending on *)
(* the function: with this, TypeOK is inductive.                           *)
StatusMatches ==
  /\ call.fn \in {"readCallback", "parse"} => call.status \in IoStatus
  /\ call.fn \in {"finish", "cleanup", "hook"} => call.status \in ProtocolResult

TypeInv == TypeOK /\ StatusMatches

(* Nobody is inside the engine, or only an unasked callback, which leaves  *)
(* the protocol waiting.                                                   *)
Waiting ==
  \/ call.fn \in {"idle", "connectCallback"}
  \/ call.fn = "readCallback" /\ call.source = "early"

AwaitSet ==
  [out |-> {"lock", "write"}, in |-> {"read", "asyncRead"}, wait |-> {"timer"},
   event |-> {"event"}, exec |-> {"exec"}, connect |-> {"connect"},
   disconnect |-> {"disconnect"}, end |-> {}]

(* A protocol waits for at most one answer, and for none while it runs.    *)
OneAnswer ==
  outstanding # {} =>
    Waiting /\ \E kind \in AwaitSet[activeCommand] : outstanding = {kind}

(* What the call that is running says about the active command.            *)
CallMatches ==
  /\ call.fn \in Op \cup {"end"} => activeCommand = call.fn
  /\ call.fn \in {"readRequest", "parse"} => activeCommand = "in"
  /\ call.fn \in {"lockCallback", "writeCallback"} => activeCommand = "out"
  /\ call.fn = "execCallback" => activeCommand = "exec"
  /\ call.fn \in {"cleanup", "hook"} => activeCommand = "end"
  /\ call.fn = "readCallback" =>
       IF call.source = "early"
       THEN /\ call.status \in {"Success", "End"}
            /\ outstanding \cap {"read", "asyncRead"} = {}
       ELSE activeCommand = "in"
  /\ call.fn = "connectCallback" => "connect" \notin outstanding

(* The pending flags tell what the protocol waits for.                     *)
PendingMatches ==
  /\ Has("LockPending") <=> "lock" \in outstanding \/ call.fn = "lockCallback"
  /\ Has("WaitPending") <=> "timer" \in outstanding \/ call.fn = "timerCallback"
  /\ "write" \in outstanding \/ call.fn = "writeCallback" => Has("WritePending")
  /\ Has("WritePending") =>
       \/ "write" \in outstanding \/ call.fn = "writeCallback"
       \/ Waiting /\ outstanding = {} /\ activeCommand \in {"out", "end"} \* refused
       \/ call.fn \in {"finish", "cleanup", "hook"} /\ call.status = "Fault"
       \/ call.fn = "disconnectCallback" /\ activeCommand # "disconnect"
  /\ "event" \in outstanding \/ call.fn = "eventCallback" => Has("AcceptEvent")
  /\ \/ outstanding \cap {"read", "asyncRead"} # {}
     \/ call.fn \in {"readRequest", "parse"}
     \/ call.fn = "readCallback" /\ call.source # "early"
     => Has("AcceptInput")

(* Who owns the bus when.                                                  *)
OwnerMatches ==
  /\ "lock" \in outstanding \/ call.fn = "lockCallback" => ~Has("BusOwner")
  /\ "write" \in outstanding => Has("BusOwner")
  /\ activeCommand = "end" /\ Waiting => ~Has("BusOwner")
  /\ call.fn = "hook" => ~Has("BusOwner")

NoAbort == ~Has("Aborted") /\ late = {}

BusInv ==
  /\ OneAnswer /\ CallMatches /\ PendingMatches /\ OwnerMatches /\ NoAbort
  /\ BusLockBalance

(* With aborts, there is a lock for the owner of the bus and one for the   *)
(* lockCallback that has not run yet, and perhaps others that nobody       *)
(* remembers.                                                              *)
One(holds) == IF holds THEN 1 ELSE 0
LockGranted == call.fn = "lockCallback" /\ call.status = "Success"
LocksCover == busLocks >= One(Has("BusOwner")) + One(LockGranted)

(* The refused requests are those whose refusal ends the protocol.         *)
RefusalsEnd == Refusable \subseteq {"lock", "disconnect"}

(* On such a bus, a protocol that nobody evaluates waits for the answer to *)
(* its command, whatever comes in between, and reads as it was started.    *)
Awaits == outstanding = {AwaitedBy[activeCommand]}
WaitInv ==
  /\ call.fn = "idle" => activeCommand = "end" \/ Awaits
  /\ call.fn = "connectCallback" => activeCommand \in {"end", "connect"} \/ Awaits
  /\ call.fn = "readCallback" /\ call.source = "early" =>
       activeCommand = "end" \/ (activeCommand # "in" /\ Awaits)
  /\ call.fn = "parse" => call.source # "early"
  /\ call.fn \in {"readCallback", "parse"} =>
       /\ call.source = "read" => ~Has("AsyncMode")
       /\ call.source = "asyncRead" => Has("AsyncMode")

(* The error of a run is remembered until the run has been reported.       *)
ErrorKept ==
  /\ call.fn \in {"cleanup", "hook"} /\ call.status = "Success"
       => runningHandler = "Success"
  /\ commandIndex.block \in Handler => runningHandler # "Success"
=============================================================================
