------------------------- MODULE StreamEpics_proofs -------------------------
(***************************************************************************)
(* A record uses its engine only as the specification of the engine says,  *)
(* and completes each protocol once: for all protocols, inputs and kinds   *)
(* of buses, as long as nobody else starts or aborts protocols.  And an    *)
(* "I/O Intr" record goes on listening whatever others do to it.           *)
(***************************************************************************)
EXTENDS StreamEpics, StreamCore_proofs

(* The flags that say how a protocol was started.                          *)
ModeKept == flags' \cap {"InitRun", "AsyncMode"} = flags \cap {"InitRun", "AsyncMode"}

(* What a step of the engine leaves as it is.                              *)
EngineKeeps == ModeKept /\ Solicited' /\ FailedStart'

(* The bus does not connect or disconnect but for the command.             *)
LEMMA RequestCall ==
  ASSUME NEW kind \in Activity \ {"obsolete"}, NEW locks, BusTakes(kind, locks)
  PROVE  /\ call'.fn = "connectCallback" => kind = "connect"
         /\ call'.fn # "disconnectCallback"
<1>1. \/ call' = Idle
      \/ kind \in Immediate /\ call' = Calls(CallbackOf[kind], "Success")
      \/ \E c : call' = Receives("End", c, "read")
  BY Zenon DEF BusTakes
<1>2. CASE kind \in Immediate /\ call' = Calls(CallbackOf[kind], "Success")
  <2>1. kind \in {"lock", "write", "read", "event", "connect"}
    BY <1>2, StreamCoreAssumption
  <2> QED
    BY <1>2, <2>1 DEF Calls, CallbackOf
<1> QED
  BY <1>1, <1>2 DEF Idle, Calls, Receives

(* While a command is evaluated, the queue of the bus is free and the      *)
(* start of the protocol has not failed.                                   *)
LEMMA Evaluating ==
  ASSUME TypeInv, BusInv, FailedStart,
         call.fn \in {"evalCommand", "end", "readRequest", "parse"} \cup Op \cup
           {"lockCallback", "writeCallback", "eventCallback", "timerCallback",
            "execCallback", "disconnectCallback"}
  PROVE  /\ outstanding = {} /\ ret # "false"
         /\ \A kind \in QueueKind : CanQueue(kind)
         /\ call.fn \in Op => activeCommand = call.fn
BY DEF BusInv, OneAnswer, CallMatches, Waiting, FailedStart, CanQueue, Op

(* The commands.                                                           *)
LEMMA CommandStep ==
  ASSUME TypeInv, BusInv, FailedStart, Undisturbed,
         \/ EvalCommand \/ EvalEnd \/ EvalWait \/ EvalOut \/ EvalIn \/ ReadRequest
         \/ EvalEvent \/ EvalExec \/ EvalConnect \/ EvalDisconnect
  PROVE  EngineKeeps
<1> USE DEF EngineKeeps, ModeKept, Solicited, FailedStart, Return, Finish, Has
<1>1. CASE EvalCommand
  <2>1. flags \cap BusPending = {} /\ ret # "false"
    BY <1>1, Evaluating DEF EvalCommand, BusInv, PendingMatches, OneAnswer, Waiting, BusPending, Has
  <2>2. NextOp \in Op \cup {"end"}
    BY OpAtType DEF NextOp, TypeInv, TypeOK
  <2> QED
    BY <1>1, <2>1, <2>2 DEF EvalCommand, Calls, Op
<1>2. CASE EvalEnd \/ EvalWait \/ EvalIn
  BY <1>2, Evaluating DEF EvalEnd, EvalWait, EvalIn, Calls, Idle, Receives, programVars, Op
<1>3. CASE EvalOut
  <2>1. ret # "false" /\ CanQueue("write")
    BY <1>3, Evaluating DEF EvalOut, Op, QueueKind
  <2>2. EarlyFlags \subseteq {"AcceptInput", "AcceptEvent"}
    BY DEF EarlyFlags
  <2>3. /\ flags \subseteq flags' \cup {"LockPending"}
        /\ flags' \subseteq flags \cup {"AcceptInput", "AcceptEvent", "LockPending", "WritePending"}
    BY <1>3, <2>2 DEF EvalOut
  <2>4. \/ (\E kind \in {"lock", "write"} : BusTakes(kind, busLocks)) /\ Return("true")
        \/ (\E result \in {"FormatError", "Offline"} : Finish(result)) /\ Return("false")
    BY <1>3, <2>1, Zenon DEF EvalOut, BusRefuses, Undisturbed, RefusalsEnd
  <2> QED
    BY <2>1, <2>3, <2>4, RequestCall DEF Activity, QueueKind, Calls
<1>4. CASE ReadRequest
  <2>1. ret # "false" /\ CanQueue("read") /\ CanQueue("asyncRead")
    BY <1>4, Evaluating DEF ReadRequest, QueueKind
  <2>2. (\E kind \in {"read", "asyncRead"} : \E locks : BusTakes(kind, locks)) /\ Return("true")
    BY <1>4, <2>1, Zenon DEF ReadRequest, Undisturbed, RefusalsEnd
  <2> QED
    BY <1>4, <2>1, <2>2, RequestCall DEF ReadRequest, Activity, QueueKind
<1>5. CASE EvalEvent
  <2>1. (\E locks : BusTakes("event", locks)) /\ Return("true") /\ ret # "false"
    BY <1>5, Evaluating, Zenon DEF EvalEvent, Op
  <2> QED
    BY <1>5, <2>1, RequestCall DEF EvalEvent, Activity
<1>6. CASE EvalExec
  <2>1. \/ (\E locks : BusTakes("exec", locks)) /\ Return("true")
        \/ Finish("FormatError") /\ Return("false")
    BY <1>6, Zenon DEF EvalExec
  <2>2. ret # "false"
    BY <1>6, Evaluating DEF EvalExec, Op
  <2> QED
    BY <1>6, <2>1, <2>2, RequestCall DEF EvalExec, Activity, Calls
<1>7. CASE EvalConnect
  <2>1. ret # "false" /\ CanQueue("connect") /\ activeCommand = "connect"
    BY <1>7, Evaluating DEF EvalConnect, Op, QueueKind
  <2>2. BusTakes("connect", busLocks) /\ Return("true")
    BY <1>7, <2>1, Zenon DEF EvalConnect, BusRefuses, Undisturbed, RefusalsEnd
  <2> QED
    BY <1>7, <2>1, <2>2, RequestCall DEF EvalConnect, Activity, QueueKind, programVars
<1>8. CASE EvalDisconnect
  <2>1. ret # "false"
    BY <1>8, Evaluating DEF EvalDisconnect, Op
  <2>2. \/ BusTakes("disconnect", busLocks) /\ Return("true")
        \/ Finish("Fault") /\ Return("false")
    BY <1>8, Zenon DEF EvalDisconnect
  <2> QED
    BY <1>8, <2>1, <2>2, RequestCall DEF EvalDisconnect, Activity, QueueKind, Calls
<1> QED
  BY <1>1, <1>2, <1>3, <1>4, <1>5, <1>6, <1>7, <1>8

(* The callbacks of bus, timer and shell.                                  *)
LEMMA CallbackKeeps ==
  ASSUME TypeInv, BusInv, Solicited, FailedStart, Undisturbed,
         \/ LockCallback \/ WriteCallback \/ EventCallback \/ TimerCallback
         \/ ExecCallback \/ ConnectCallback \/ DisconnectCallback
  PROVE  EngineKeeps
<1> USE DEF EngineKeeps, ModeKept, Solicited, FailedStart, Return, Finish, Has, Calls, Idle
<1>1. CASE LockCallback
  <2>1. ret # "false" /\ CanQueue("write")
    BY <1>1, Evaluating DEF LockCallback, QueueKind
  <2>2. \/ BusTakes("write", busLocks)
        \/ call' = Idle \/ Finish("LockTimeout")
    BY <1>1, <2>1, Zenon DEF LockCallback, BusRefuses, Undisturbed, RefusalsEnd, Unexpected
  <2>3. /\ flags \subseteq flags' \cup {"LockPending", "BusOwner"}
        /\ flags' \subseteq flags \cup {"BusOwner", "WritePending"}
    BY <1>1 DEF LockCallback, Unexpected
  <2>4. call'.fn \notin {"connectCallback", "disconnectCallback"}
    BY <2>2, RequestCall DEF Activity, QueueKind
  <2> QED
    BY <1>1, <2>1, <2>3, <2>4 DEF LockCallback
<1>2. CASE WriteCallback \/ EventCallback \/ TimerCallback
  BY <1>2, Evaluating DEF WriteCallback, EventCallback, TimerCallback, Unexpected
<1>3. CASE ExecCallback
  BY <1>3, Evaluating DEF ExecCallback, CommandAnswer
<1>4. CASE ConnectCallback
  <2>1. activeCommand = "connect" /\ CommandAnswer /\ UNCHANGED <<flags, ret>>
    BY <1>4 DEF ConnectCallback
  <2>2. ret # "false"
    BY <1>4 DEF ConnectCallback
  <2> QED
    BY <2>1, <2>2 DEF CommandAnswer
<1>5. CASE DisconnectCallback
  <2>1. activeCommand = "disconnect" /\ CommandAnswer /\ UNCHANGED <<flags, ret>>
    BY <1>5 DEF DisconnectCallback
  <2> QED
    BY <1>5, <2>1, Evaluating DEF CommandAnswer, DisconnectCallback
<1> QED
  BY <1>1, <1>2, <1>3, <1>4, <1>5

(* Input, and the end of a run.                                            *)
LEMMA InputKeeps ==
  ASSUME TypeInv, BusInv, Solicited, FailedStart,
         ReadCallback \/ Parse \/ FinishProtocol \/ Cleanup
  PROVE  EngineKeeps
<1> USE DEF EngineKeeps, ModeKept, Solicited, FailedStart, Return, Finish, Has, Calls, Idle
<1>1. CASE ReadCallback
  <2>1. ret # "false" /\ flags' = flags /\ ret' \in {ret, "true"}
    BY <1>1 DEF ReadCallback, ReadReturns
  <2>2. \/ call' \in {Idle, Calls("in", "Success")}
        \/ \E result : Finish(result)
        \/ call' = [call EXCEPT !.fn = "parse", !.status = EffectiveStatus(call.status)]
    BY <1>1, Zenon DEF ReadCallback
  <2>3. call'.fn \in {"idle", "in", "finish", "parse"}
    <3>1. CASE call' = [call EXCEPT !.fn = "parse", !.status = EffectiveStatus(call.status)]
      BY <3>1 DEF TypeInv, TypeOK, CallSet
    <3> QED
      BY <2>2, <3>1
  <2> QED
    BY <2>1, <2>3
<1>2. CASE Parse
  <2>1. ret # "false" /\ flags' = flags
    BY <1>2, Evaluating DEF Parse
  <2>2. ret' \in {ret, "true"}
    BY <1>2 DEF Parse, WantMore, ReadReturns
  <2>3. call'.fn \in {"idle", "in", "finish", "evalCommand", "readRequest"}
    BY <1>2 DEF Parse, WantMore
  <2> QED
    BY <2>1, <2>2, <2>3
<1>3. CASE FinishProtocol
  <2>1. UNCHANGED <<flags, ret>> /\ call.fn = "finish"
    BY <1>3 DEF FinishProtocol
  <2>2. call'.fn \in {"cleanup", "evalCommand"}
    BY <1>3 DEF FinishProtocol
  <2>3. CASE ret = "false"
    <3>1. call.status \in {"FormatError", "Offline", "Fault"}
      BY <2>1, <2>3
    <3>2. call'.fn = "cleanup"
      BY <1>3, <3>1 DEF FinishProtocol, HandlerFor
    <3> QED
      BY <2>1, <3>2
  <2> QED
    BY <2>1, <2>2, <2>3
<1>4. CASE Cleanup
  <2>1. /\ flags' = flags \ {"BusOwner", "AcceptInput", "AcceptEvent"} /\ ret' = ret
        /\ call' = Calls("hook", call.status)
    BY <1>4 DEF Cleanup
  <2> QED
    BY <2>1
<1> QED
  BY <1>1, <1>2, <1>3, <1>4

(* A protocol only goes on if there was one.                               *)
LEMMA RunningKept ==
  ASSUME TypeInv, BusInv, ProtocolStep, Running'
  PROVE  Running
<1>1. call.fn # "idle"
  BY DEF ProtocolStep, EvalCommand, EvalEnd, EvalOut, EvalIn, ReadRequest, EvalWait,
     EvalEvent, EvalExec, EvalConnect, EvalDisconnect, LockCallback, WriteCallback,
     EventCallback, TimerCallback, ExecCallback, ConnectCallback, DisconnectCallback,
     ReadCallback, Parse, FinishProtocol, Cleanup
<1>2. CASE call.fn = "readCallback" /\ call.source = "early" /\ activeCommand = "end"
  <2>1. ReadCallback
    BY <1>2 DEF ProtocolStep, EvalCommand, EvalEnd, EvalOut, EvalIn, ReadRequest, EvalWait,
     EvalEvent, EvalExec, EvalConnect, EvalDisconnect, LockCallback, WriteCallback,
     EventCallback, TimerCallback, ExecCallback, ConnectCallback, DisconnectCallback,
     Parse, FinishProtocol, Cleanup
  <2>2. call.status \notin {"NoReply", "Fault"}
    BY <1>2 DEF BusInv, CallMatches
  <2>3. call' = Idle /\ activeCommand' = "end"
    BY <1>2, <2>1, <2>2, Zenon DEF ReadCallback, programVars
  <2> QED
    BY <2>3 DEF Running, Idle, Calls
<1> QED
  BY <1>1, <1>2 DEF Running

(* The engine's own steps keep what the record relies on.                  *)
LEMMA EngineKept ==
  ASSUME TypeInv, BusInv, Solicited, FailedStart, Undisturbed, ProtocolStep
  PROVE  EngineKeeps /\ (Running' => Running)
BY CommandStep, CallbackKeeps, InputKeeps, RunningKept, Zenon DEF ProtocolStep

(* An answer or early input finds a protocol, or starts nothing.           *)
LEMMA BusKept ==
  ASSUME TypeInv, BusInv, Solicited, FailedStart, Undisturbed, BusStep
  PROVE  EngineKeeps /\ (Running' => Running) /\ EnvironmentStep
<1> USE DEF EngineKeeps, ModeKept, Solicited, FailedStart, Running, Calls, Idle, Receives
<1>1. AnswerStep \/ EarlyInputStep
  BY DEF BusStep, Undisturbed, SkipObsolete, BusInv, OneAnswer, AwaitSet, TypeInv, TypeOK, Op
<1>2. ASSUME NEW kind, Answered(kind), NobodyInside
      PROVE  kind \in AwaitSet[activeCommand] /\ activeCommand \in Op
  BY <1>2 DEF Answered, NobodyInside, TypeInv, TypeOK, BusInv, NoAbort, OneAnswer, AwaitSet
<1>3. ASSUME NEW kind \in DOMAIN Answers, NEW st, Answer(kind, st)
      PROVE  EngineKeeps /\ Running
  <2>1. kind \in AwaitSet[activeCommand] /\ activeCommand \in Op
    BY <1>2, <1>3 DEF Answer
  <2>2. /\ kind \in {"lock", "write", "event", "timer", "exec", "connect", "disconnect"}
        /\ UNCHANGED <<flags, programVars, ret>> /\ ret = "none"
        /\ call' = Calls(CallbackOf[kind], st)
    BY <1>3 DEF Answer, Answers, NobodyInside, BusInv, NoAbort
  <2> QED
    BY <2>1, <2>2 DEF AwaitSet, CallbackOf, Op, programVars
<1>4. ASSUME NEW kind \in {"read", "asyncRead"}, NEW st, NEW input,
             AnswerRead(kind, st, input)
      PROVE  EngineKeeps /\ Running
  <2>1. activeCommand \in Op
    BY <1>2, <1>4 DEF AnswerRead
  <2> QED
    BY <1>4, <2>1 DEF AnswerRead, NobodyInside, Op
<1>5. CASE AnswerStep
  BY <1>3, <1>4, <1>5 DEF AnswerStep, EnvironmentStep
<1>6. CASE EarlyInputStep
  BY <1>6 DEF EarlyInputStep, EarlyInput, NobodyInside, EnvironmentStep, programVars
<1> QED
  BY <1>1, <1>5, <1>6

(* A step of engine or bus in which the record does nothing.               *)
LEMMA RecordWaits ==
  ASSUME RecordInv, EngineKeeps, Running' => Running, UNCHANGED recordVars
  PROVE  RecordInv'
BY DEF RecordInv, EngineKeeps, ModeKept, RecordTypes, LoadingInv, NotScanned, ScannedInv,
       Loading, Has, recordVars

(* A start by the record is one that the engine allows.                    *)
LEMMA StartsEngine ==
  ASSUME Free, ~Running, NEW mode \in StartMode, NEW by, Starts(mode, by)
  PROVE  /\ StartStep /\ Solicited' /\ FailedStart' /\ caller' = by
         /\ Running' => flags' = ModeFlags[mode]
<1>1. StartProtocol(mode) /\ activeCommand' = activeCommand /\ activeCommand = "end"
  BY DEF Starts, StartProtocol, Free, NobodyInside, Running, Idle, Calls
<1>2. \/ call' = Idle
      \/ call' = Calls("evalCommand", "Success") /\ flags' = ModeFlags[mode]
  BY <1>1 DEF StartProtocol
<1>3. ret' = IF call'.fn = "idle" THEN "false" ELSE "open"
  BY DEF Starts
<1>4. StartStep
  BY <1>1, <1>3 DEF StartStep, Start, Free
<1> QED
  BY <1>1, <1>2, <1>3, <1>4 DEF Starts, Solicited, FailedStart, Running, Idle, Calls

(* startProtocol() returns to the record.                                  *)
LEMMA ReturnsToRecord ==
  ASSUME NEW by, NEW value \in {"true", "false"}, Returned(by, value), FailedStart
  PROVE  /\ StartReturned /\ Solicited' /\ FailedStart' /\ EngineKeeps
         /\ Running' <=> Running
         /\ value = "false" => ~Running
BY DEF Returned, StartReturned, Solicited, FailedStart, Running, EngineKeeps, ModeKept,
       Idle, Calls, programVars

(* The task at hand tells how far the loading has come.                    *)
LEMMA TaskAtHand ==
  ASSUME LoadingInv, load # <<>>
  PROVE  /\ Head(load) = "init" => load = <<"init", "wait", "async">>
         /\ Head(load) = "wait" => load = <<"wait", "async">>
         /\ Head(load) = "async" => load = <<"async">>
         /\ Head(load) # "attach" /\ Head(load) # "resume" /\ Head(load) # "rerun"
<1>1. /\ Head(<<"init", "wait", "async">>) = "init"
      /\ Head(<<"wait", "async">>) = "wait"
      /\ Head(<<"async">>) = "async"
  OBVIOUS
<1> QED
  BY <1>1, Zenon DEF LoadingInv

(* As long as anything is left to do, scanning has not begun.              *)
LEMMA LoadingIsBooting ==
  ASSUME LoadingInv, ~Booting
  PROVE  load = <<>>
<1>1. /\ Last(<<"init", "wait", "async">>) = "async"
      /\ Last(<<"wait", "async">>) = "async"
      /\ Last(<<"async">>) = "async"
  BY DEF Last
<1> QED
  BY <1>1, Zenon DEF LoadingInv, Booting, Loading

(* Processing: a passive record that completes, or starts its protocol.    *)
LEMMA ProcessRecord ==
  ASSUME RecordInv, CallerStep \/ CallbackStep \/ UserStep, Undisturbed
  PROVE  RecordInv' /\ [Next]_vars
<1> USE DEF RecordInv, RecordTypes, LoadingInv, NotScanned, ScannedInv, Caller
<1>1. ASSUME NEW mode \in {"StartNormal", "StartInit"}, Process(mode)
      PROVE  RecordInv' /\ StartStep
  <2>1. load = <<>>
    BY <1>1, LoadingIsBooting, Zenon DEF Process
  <2>2. ~Running /\ callbacks = 0 /\ ~restart /\ ~pact /\ ~ioIntr
    BY <1>1, <2>1 DEF Process, Free, Loading
  <2>3. StartStep /\ Solicited' /\ FailedStart' /\ caller' = "process"
    BY <1>1, <2>2, StartsEngine DEF Process, StartMode
  <2> QED
    BY <1>1, <2>1, <2>2, <2>3 DEF Process, Loading
<1>2. CASE ProcessStarted
  <2>1. /\ StartReturned /\ Solicited' /\ FailedStart' /\ EngineKeeps
        /\ (Running' <=> Running) /\ caller = "process" /\ caller' = "nobody"
    BY <1>2, ReturnsToRecord DEF ProcessStarted, Returned
  <2>2. load = <<>>
    BY <2>1
  <2> QED
    BY <1>2, <2>1, <2>2 DEF ProcessStarted, Loading, Next, EnvironmentStep
<1>3. CASE ProcessFailed
  <2>1. /\ StartReturned /\ Solicited' /\ FailedStart'
        /\ ~Running /\ ~Running' /\ caller = "process" /\ caller' = "nobody"
    BY <1>3, ReturnsToRecord DEF ProcessFailed, Returned
  <2>2. load = <<>>
    BY <2>1
  <2> QED
    BY <1>3, <2>1, <2>2 DEF ProcessFailed, Loading, Next, EnvironmentStep
<1>4. CASE StartIgnored
  <2>1. /\ StartReturned /\ Solicited' /\ FailedStart' /\ EngineKeeps
        /\ (Running' <=> Running) /\ caller \in {"restart", "scan"} /\ caller' = "nobody"
    BY <1>4, ReturnsToRecord DEF StartIgnored, Returned
  <2>2. load = <<>>
    BY <2>1
  <2> QED
    BY <1>4, <2>1, <2>2
    DEF StartIgnored, Loading, Next, EnvironmentStep, EngineKeeps, ModeKept, Has
<1>5. CASE LoadStarted
  <2>1. /\ StartReturned /\ Solicited' /\ FailedStart' /\ EngineKeeps
        /\ (Running' <=> Running) /\ caller = "load" /\ caller' = "nobody"
    BY <1>5, ReturnsToRecord DEF LoadStarted, Returned
  <2>2. load = <<"wait", "async">>
    BY <2>1 DEF Loading
  <2>3. load' = load \/ (load' = <<"async">> /\ ~Running)
    BY <1>5, <2>2, ReturnsToRecord DEF LoadStarted
  <2> QED
    BY <1>5, <2>1, <2>2, <2>3
    DEF LoadStarted, Loading, Next, EnvironmentStep, EngineKeeps, ModeKept, Has
<1>6. CASE ProcessCallback
  <2>1. load = <<>> /\ ~Running /\ callbacks = 1 /\ ~restart /\ (pact \/ ioIntr)
    BY <1>6 DEF ProcessCallback, Loading
  <2>2. /\ UNCHANGED <<vars, caller, ioIntr, initDone, load>>
        /\ callbacks' = 0 /\ pact' = FALSE /\ proc2' = FALSE
        /\ restart' = (ioIntr /\ ~Has("Aborted"))
    BY <1>6, <2>1 DEF ProcessCallback
  <2>3. ~Running' /\ Solicited' /\ FailedStart'
    BY <2>1, <2>2 DEF Running, Solicited, FailedStart, vars, programVars
  <2>4. restart' \in BOOLEAN /\ (restart' => ioIntr)
    BY <2>2, Zenon
  <2>5. caller = "nobody" /\ caller' = "nobody" /\ load' = <<>>
    BY <1>6, <2>1, <2>2 DEF ProcessCallback, Free
  <2> QED
    <3>1. RecordTypes'
      BY <2>2, <2>4, <2>5
    <3>2. LoadingInv' /\ NotScanned' /\ ScannedInv'
      BY <2>2, <2>3, <2>4, <2>5 DEF Loading
    <3> QED
      BY <2>2, <2>3, <3>1, <3>2
<1>7. CASE Restart
  <2>1. load = <<>> /\ ~Running /\ callbacks = 0 /\ ioIntr /\ ~pact
    BY <1>7 DEF Restart, Loading
  <2>2. /\ StartStep /\ Solicited' /\ FailedStart' /\ caller' = "restart"
        /\ Running' => flags' = {"AsyncMode"}
    BY <1>7, <2>1, StartsEngine DEF Restart, StartMode, ModeFlags
  <2> QED
    BY <1>7, <2>1, <2>2 DEF Restart, Loading, Next, EnvironmentStep, Has
<1>8. ~Resume
  BY TaskAtHand DEF Resume, NextTask, Loading
<1> QED
  BY <1>1, <1>2, <1>3, <1>4, <1>5, <1>6, <1>7, <1>8
  DEF CallerStep, CallbackStep, UserStep, Reload, ScanToIoIntr, ScanFromIoIntr, Pause,
      Undisturbed, Next, EnvironmentStep

(* Loading: the @init handler runs before scanning begins.                 *)
LEMMA LoadRecord ==
  ASSUME RecordInv, LoadStep
  PROVE  RecordInv' /\ [Next]_vars
<1> USE DEF RecordInv, RecordTypes, LoadingInv, NotScanned, ScannedInv, Caller, Loading, NextTask
<1>1. CASE LoadAsync
  <2>0. load = <<"async">> /\ caller = "nobody"
    BY <1>1, TaskAtHand, Zenon DEF LoadAsync, Free
  <2>1. load = <<"async">> /\ ~Running /\ load' = <<>> /\ caller = "nobody"
    BY <1>1, <2>0 DEF LoadAsync
  <2>2. CASE Starts("StartAsync", "scan") /\ ioIntr
    <3>1. /\ StartStep /\ Solicited' /\ FailedStart' /\ caller' = "scan"
          /\ Running' => flags' = {"AsyncMode"}
      BY <1>1, <2>1, <2>2, StartsEngine DEF LoadAsync, StartMode, ModeFlags
    <3> QED
      BY <1>1, <2>1, <2>2, <3>1 DEF LoadAsync, Next, EnvironmentStep, Has
  <2>3. CASE UNCHANGED <<vars, caller>> /\ ~ioIntr
    <3>1. ~Running' /\ Solicited' /\ FailedStart'
      BY <2>1, <2>3 DEF Running, Solicited, FailedStart, vars, programVars
    <3> QED
      BY <1>1, <2>1, <2>3, <3>1 DEF LoadAsync
  <2> QED
    BY <1>1, <2>2, <2>3 DEF LoadAsync
<1>2. CASE LoadInit
  <2>1. load = <<"init", "wait", "async">> /\ ~Running /\ ~initDone /\ caller = "nobody"
    BY <1>2, TaskAtHand DEF LoadInit
  <2>2. CASE Starts("StartInit", "load") /\ load' = Tail(load)
    <3>1. /\ StartStep /\ Solicited' /\ FailedStart' /\ caller' = "load"
          /\ Running' => flags' = {"InitRun"}
      BY <1>2, <2>1, <2>2, StartsEngine DEF LoadInit, StartMode, ModeFlags
    <3> QED
      BY <1>2, <2>1, <2>2, <3>1 DEF LoadInit, Next, EnvironmentStep, Has
  <2>3. CASE UNCHANGED <<vars, caller>> /\ load' = Tail(Tail(load))
    <3>1. ~Running' /\ Solicited' /\ FailedStart' /\ load' = <<"async">>
      BY <2>1, <2>3 DEF Running, Solicited, FailedStart, vars, programVars
    <3> QED
      BY <1>2, <2>1, <2>3, <3>1 DEF LoadInit
  <2> QED
    BY <1>2, <2>2, <2>3 DEF LoadInit
<1>3. CASE LoadWait
  <2>1. load = <<"wait", "async">> /\ caller = "nobody" /\ initDone
    BY <1>3, TaskAtHand, Zenon DEF LoadWait, Free
  <2>2. ~Running
    BY <2>1
  <2>3. /\ load' = <<"async">> /\ initDone' = FALSE
        /\ UNCHANGED <<vars, pact, ioIntr, proc2, callbacks, restart, caller>>
    BY <1>3, <2>1 DEF LoadWait
  <2>4. ~Running' /\ Solicited' /\ FailedStart'
    BY <2>2, <2>3 DEF Running, Solicited, FailedStart, vars, programVars
  <2> QED
    BY <2>1, <2>2, <2>3, <2>4
<1>4. ~LoadAttach /\ ~LoadRerun
  BY TaskAtHand DEF LoadAttach, LoadRerun
<1> QED
  BY <1>1, <1>2, <1>3, <1>4 DEF LoadStep

(* The end of a protocol: what the hook does is what FinishHook allows.    *)
LEMMA HookRecord ==
  ASSUME TypeInv, BusInv, RecordInv, ProtocolFinishHook
  PROVE  RecordInv' /\ FinishHook
<1> USE DEF RecordInv, RecordTypes, LoadingInv, NotScanned, ScannedInv, Loading
<1>1. /\ call.fn = "hook" /\ call' = Idle /\ activeCommand = "end" /\ Running
      /\ UNCHANGED <<protocol, programVars, inputVars, ret, busVars, pact, ioIntr,
                     proc2, restart, load, caller>>
  BY DEF ProtocolFinishHook, BusInv, CallMatches, Running
<1>2. ~Running' /\ Solicited' /\ FailedStart'
  BY <1>1 DEF Running, Solicited, FailedStart, Idle, Calls, programVars
<1>3. ~Has("Aborted")
  BY DEF BusInv, NoAbort
<1>4. CASE Has("InitRun") /\ ~proc2
  <2>1. initDone' = TRUE /\ flags' = flags /\ UNCHANGED callbacks
    BY <1>3, <1>4 DEF ProtocolFinishHook, HookEffect, Has
  <2> QED
    BY <1>1, <1>2, <2>1 DEF FinishHook
<1>5. CASE ~(Has("InitRun") /\ ~proc2)
  <2>1. load = <<>> /\ callbacks = 0 /\ ~restart
    BY <1>1, <1>5
  <2>2. /\ flags' = IF call.status # "Abort" /\ ioIntr THEN flags \cup {"AcceptInput"} ELSE flags
        /\ callbacks' \in {0, 1} /\ (callbacks' = 1 => pact \/ ioIntr)
        /\ UNCHANGED initDone
    BY <1>3, <1>5, <2>1 DEF ProtocolFinishHook, HookEffect, Has, CallbackDue
  <2>3. FinishHook
    BY <1>1, <2>1, <2>2 DEF FinishHook, Has
  <2> QED
    BY <1>1, <1>2, <2>1, <2>2, <2>3
<1> QED
  BY <1>4, <1>5

(* Every step keeps the invariant and is a step of the engine's            *)
(* specification, or one that the engine does not notice.                  *)
LEMMA RecordStep ==
  ASSUME TypeInv, BusInv, RecordInv, Undisturbed, [RecordNext]_allVars
  PROVE  RecordInv' /\ [Next]_vars
<1>1. CASE UNCHANGED allVars
  <2>1. UNCHANGED vars /\ UNCHANGED recordVars
    BY <1>1 DEF allVars
  <2>2. EngineKeeps /\ (Running' <=> Running)
    BY <2>1 DEF EngineKeeps, ModeKept, Running, Solicited, FailedStart, RecordInv, vars,
       programVars
  <2> QED
    BY <2>1, <2>2, RecordWaits
<1>2. CASE EngineRuns
  <2>1. RecordInv'
    BY <1>2, EngineKept, RecordWaits DEF EngineRuns, RecordInv
  <2> QED
    BY <1>2, <2>1 DEF EngineRuns, Next, EngineStep
<1>3. CASE BusStep
  <2>1. UNCHANGED recordVars /\ EngineKeeps /\ (Running' => Running) /\ EnvironmentStep
    BY <1>3, BusKept DEF BusStep, RecordInv
  <2> QED
    BY <2>1, RecordWaits DEF Next
<1>4. CASE ProtocolFinishHook
  BY <1>4, HookRecord DEF Next, EngineStep
<1> QED
  BY <1>1, <1>2, <1>3, <1>4, ProcessRecord, LoadRecord DEF RecordNext

(* The invariants of engine and record together.                           *)
RInv == TypeInv /\ BusInv /\ RecordInv

(* They hold in every reachable state, and every step is one of the engine.*)
LEMMA RecordInvariant ==
  Undisturbed /\ RecordSpec => []RInv /\ [][Next]_vars
<1> SUFFICES ASSUME Undisturbed PROVE RecordSpec => []RInv /\ [][Next]_vars
  OBVIOUS
<1>1. RecordInit => RInv
  <2> SUFFICES ASSUME RecordInit PROVE RInv
    OBVIOUS
  <2>1. Init
    BY DEF RecordInit
  <2>2. TypeInv /\ BusInv
    BY <2>1, InitType, InitBus
  <2>3. ~Running /\ Solicited /\ FailedStart
    BY <2>1 DEF Init, Running, Solicited, FailedStart, Idle, Calls
  <2>4. RecordTypes
    BY StreamEpicsAssumption DEF RecordInit, RecordTypes, Caller
  <2> QED
    BY <2>2, <2>3, <2>4
    DEF RInv, RecordInv, RecordInit, LoadingInv, NotScanned, ScannedInv, Loading
<1>2. RInv /\ [RecordNext]_allVars => RInv' /\ [Next]_vars
  <2> SUFFICES ASSUME RInv, [RecordNext]_allVars PROVE RInv' /\ [Next]_vars
    OBVIOUS
  <2>1. RecordInv' /\ [Next]_vars
    BY RecordStep DEF RInv
  <2>2. TypeInv' /\ BusInv'
    BY <2>1, StepType, StepBus DEF RInv
  <2> QED
    BY <2>1, <2>2 DEF RInv
<1> QED
  BY <1>1, <1>2, PTL DEF RecordSpec

(* The record uses its engine only as the specification of the engine      *)
(* says: no start while a protocol runs, no callback that the engine       *)
(* does not expect.                                                        *)
THEOREM RecordImplementsUse ==
  Undisturbed /\ RecordSpec => EngineUsedAsSpecified
<1>1. RecordInit => Init
  BY DEF RecordInit
<1> QED
  BY <1>1, RecordInvariant, PTL DEF RecordSpec, EngineUsedAsSpecified, Spec

(* So what is proved of the engine holds in a record: the lock of the bus  *)
(* is neither lost nor kept, nothing is left behind for the next run, and  *)
(* a protocol always waits for the answer that wakes it up.                *)
THEOREM EngineWorksInRecord ==
  Undisturbed /\ RecordSpec =>
    [](BusLockBalance /\ NothingLeftBehind /\ RunningProtocolWaits)
<1>1. Undisturbed => RefusalsEnd
  BY DEF Undisturbed
<1> QED
  BY <1>1, RecordImplementsUse, BusLockBalanced, NothingIsLeftBehind, RunningIsAwaited, PTL
  DEF EngineUsedAsSpecified

(* No end of a protocol is delivered twice to the record.                  *)
THEOREM CompletedOnce ==
  Undisturbed /\ RecordSpec => []OneCompletion
<1>1. RInv => OneCompletion
  BY DEF RInv, RecordInv, RecordTypes, NotScanned, ScannedInv, OneCompletion
<1> QED
  BY <1>1, RecordInvariant, PTL

(* initRecord() does not return while the @init handler is running.        *)
THEOREM InitIsAwaited ==
  Undisturbed /\ RecordSpec => InitBeforeReturn
<1> DEFINE Awaited == LoadWait => ~(Has("InitRun") /\ activeCommand # "end")
<1>1. RInv => Awaited
  BY DEF RInv, RecordInv, LoadingInv, Loading, LoadWait, NextTask, Running
<1> QED
  BY <1>1, RecordInvariant, PTL DEF InitBeforeReturn, RecordSpec

(* The alarm of a finished protocol is not overwritten before the process  *)
(* callback reports it.                                                    *)
THEOREM AlarmIsKept ==
  Undisturbed /\ RecordSpec => AlarmKept
<1> SUFFICES ASSUME Undisturbed PROVE RecordSpec => AlarmKept
  OBVIOUS
<1> DEFINE Kept == pact /\ callbacks > 0 /\ callbacks' >= callbacks => status' = status
<1>1. RInv /\ [RecordNext]_allVars => [Kept]_allVars
  <2> SUFFICES ASSUME RInv, RecordNext, pact, callbacks > 0, callbacks' >= callbacks
               PROVE  status' = status
    BY DEF Kept
  <2>1. ~Loading /\ ~Running /\ callbacks = 1 /\ ~restart
    BY DEF RInv, RecordInv, RecordTypes, NotScanned, ScannedInv
  <2>2. CASE EngineRuns \/ BusStep
    BY <2>2 DEF EngineRuns, BusStep, recordVars
  <2>3. ~ProtocolFinishHook
    BY <2>1 DEF ProtocolFinishHook, RInv, BusInv, CallMatches, Running
  <2>4. CASE CallerStep
    BY <2>4 DEF CallerStep, ProcessStarted, ProcessFailed, StartIgnored, LoadStarted
  <2>5. ~LoadStep
    BY <2>1, Zenon DEF LoadStep, LoadAsync, LoadInit, LoadWait, LoadAttach, LoadRerun, NextTask
  <2>6. ~CallbackStep
    <3>1. ~Restart
      BY <2>1 DEF Restart
    <3>2. ProcessCallback => callbacks' = callbacks - 1
      BY Zenon DEF ProcessCallback
    <3> QED
      BY <2>1, <3>1, <3>2 DEF CallbackStep
  <2>7. ~UserStep
    BY <2>1 DEF UserStep, Process, Undisturbed, Reload, ScanToIoIntr, ScanFromIoIntr,
            Pause, Resume, NextTask
  <2> QED
    BY <2>2, <2>3, <2>4, <2>5, <2>6, <2>7 DEF RecordNext
<1> QED
  BY <1>1, RecordInvariant, PTL DEF RecordSpec, AlarmKept
-----------------------------------------------------------------------------
(* A record that is disturbed in every way: the types *)

(* What the hook makes of the flags.                                       *)
LEMMA HookFlags ==
  ASSUME NEW result, NEW fl, HookEffect(result, fl)
  PROVE  flags' \in {fl, fl \cup {"AcceptInput"}}
BY DEF HookEffect

(* An abort of the record, whose hook may let early input in again.        *)
LEMMA RecordAbortType ==
  ASSUME TypeInv, AbortProtocol, HookEffect("Abort", AbortFlags)
  PROVE  TypeInv'
<1>1. AbortFlags \in SUBSET Flag
  BY DEF AbortFlags, TypeInv, TypeOK, Flag
<1>2. flags' \in {AbortFlags, AbortFlags \cup {"AcceptInput"}}
  BY HookFlags
<1>3. flags' \in SUBSET Flag
  BY <1>1, <1>2, Zenon DEF Flag
<1> QED
  BY <1>3, AbortedEngineType

(* A start by the record.                                                  *)
LEMMA StartsType ==
  ASSUME TypeInv, NEW mode \in StartMode, NEW by, Starts(mode, by)
  PROVE  TypeInv'
<1>1. ret' \in {"none", "open", "true", "false"}
  BY DEF Starts
<1> QED
  BY <1>1, StartProtocolType DEF Starts

(* A step that leaves the engine alone.                                    *)
LEMMA UnchangedType ==
  ASSUME TypeInv, UNCHANGED vars
  PROVE  TypeInv'
BY StepType

(* The return of startProtocol().                                          *)
LEMMA ReturnedType ==
  ASSUME TypeInv, NEW by, NEW value, Returned(by, value)
  PROVE  TypeInv'
<1>1. /\ ret' = "none"
      /\ UNCHANGED <<protocol, flags, programVars, inputVars, call, busVars>>
  BY DEF Returned
<1> QED
  BY <1>1 DEF TypeInv, TypeOK, StatusMatches, programVars, inputVars, busVars

(* Whatever happens to the record, the engine in it keeps its types.       *)
LEMMA RecordStepType ==
  ASSUME TypeInv, [RecordNext]_allVars
  PROVE  TypeInv'
<1>1. CASE UNCHANGED allVars
  BY <1>1, UnchangedType DEF allVars
<1>2. CASE EngineRuns
  BY <1>2, EngineType DEF EngineRuns, EngineStep
<1>3. CASE ProtocolFinishHook
  <2>0. HookEffect(call.status, flags)
    BY <1>3, Zenon DEF ProtocolFinishHook
  <2>1. flags' \in SUBSET Flag
    <3>1. flags' \in {flags, flags \cup {"AcceptInput"}}
      BY <2>0, HookFlags
    <3> QED
      BY <3>1 DEF TypeInv, TypeOK, Flag
  <2>2. call' \in CallSet /\ StatusMatches'
    BY <1>3, NextCallType DEF ProtocolFinishHook
  <2>3. UNCHANGED <<protocol, programVars, inputVars, ret, busVars>>
    BY <1>3, Zenon DEF ProtocolFinishHook
  <2> QED
    BY <2>1, <2>2, <2>3 DEF TypeInv, TypeOK, programVars, inputVars, busVars
<1>4. CASE CallerStep
  BY <1>4, ReturnedType DEF CallerStep, ProcessStarted, ProcessFailed, StartIgnored, LoadStarted
<1>5. CASE LoadStep
  <2>1. CASE LoadAsync \/ LoadInit \/ LoadWait \/ LoadRerun
    <3>1. \/ UNCHANGED vars
          \/ \E mode \in StartMode, by \in Caller : Starts(mode, by)
      BY <2>1 DEF LoadAsync, LoadInit, LoadWait, LoadRerun, StartMode, Caller
    <3> QED
      BY <3>1, StartsType, UnchangedType
  <2>2. CASE LoadAttach
    <3>1. outstanding' \in SUBSET Activity /\ late' = {} /\ busLocks' \in Int
      BY <2>2 DEF LoadAttach, TypeInv, TypeOK
    <3>2. UNCHANGED <<protocol, flags, programVars, inputVars, call, ret>>
      BY <2>2, Zenon DEF LoadAttach
    <3> QED
      BY <3>1, <3>2 DEF TypeInv, TypeOK, StatusMatches, programVars, inputVars
  <2> QED
    BY <1>5, <2>1, <2>2 DEF LoadStep
<1>6. CASE CallbackStep
  <2>1. \/ UNCHANGED vars
        \/ \E mode \in StartMode, by \in Caller : Starts(mode, by)
    BY <1>6 DEF CallbackStep, ProcessCallback, Restart, StartMode, Caller
  <2> QED
    BY <2>1, StartsType, UnchangedType
<1>7. CASE BusStep
  BY <1>7, EnvironmentType, AbortType DEF BusStep, EnvironmentStep
<1>8. CASE UserStep
  <2>1. \/ UNCHANGED vars
        \/ \E mode \in StartMode, by \in Caller : Starts(mode, by)
        \/ AbortProtocol /\ HookEffect("Abort", AbortFlags)
    BY <1>8 DEF UserStep, Process, Reload, ScanToIoIntr, ScanFromIoIntr, Pause, Resume,
       StartMode, Caller
  <2> QED
    BY <2>1, StartsType, UnchangedType, RecordAbortType
<1> QED
  BY <1>1, <1>2, <1>3, <1>4, <1>5, <1>6, <1>7, <1>8 DEF RecordNext
-----------------------------------------------------------------------------
(* Devices that nothing connects *)

(* A request to the bus concerns only what is requested.                   *)
LEMMA RequestUnconnected ==
  ASSUME Unconnected, NEW kind \in Activity \ {"obsolete", "connect"}, NEW locks,
         BusTakes(kind, locks)
  PROVE  Unconnected'
<1>1. call'.fn # "connectCallback"
  BY RequestCall
<1>2. call'.fn # "connect"
  <2>1. CallbackOf[kind] \in Callback
    BY DEF CallbackOf, Callback, Activity, QueueKind
  <2>2. call' = Idle \/ call' = Calls(CallbackOf[kind], "Success")
        \/ \E c : call' = Receives("End", c, "read")
    BY Zenon DEF BusTakes
  <2> QED
    BY <2>1, <2>2 DEF Idle, Calls, Receives, Callback
<1>3. outstanding' \in {outstanding, outstanding \cup {kind}} /\ late' = late
  BY Zenon DEF BusTakes
<1> QED
  BY <1>1, <1>2, <1>3 DEF Unconnected

(* The engine runs a connect only if the protocol has that command.        *)
LEMMA EvalUnconnected ==
  ASSUME TypeInv, Unconnected, NeverConnects, EvalCommand
  PROVE  Unconnected'
<1>1. UNCHANGED <<outstanding, late>> /\ (call' = Idle \/ call' = Calls(NextOp, "Success"))
  BY DEF EvalCommand, busVars
<1>2. NextOp \notin {"connect", "connectCallback"}
  <2>1. protocol \in Protocols /\ commandIndex \in [block : Block, pos : Nat \ {0}]
    BY DEF TypeInv, TypeOK
  <2>2. protocol[commandIndex.block] \in Seq(Command)
    BY <2>1, StreamCoreAssumption
  <2>3. CASE commandIndex.pos <= Len(protocol[commandIndex.block])
    <3>1. commandIndex.pos \in DOMAIN protocol[commandIndex.block]
      BY <2>1, <2>2, <2>3
    <3>2. protocol[commandIndex.block][commandIndex.pos].op # "connect"
      BY <2>1, <3>1 DEF NeverConnects
    <3>3. NextOp \in Op \cup {"end"}
      BY OpAtType DEF NextOp, TypeInv, TypeOK
    <3> QED
      BY <2>3, <3>2, <3>3 DEF NextOp, OpAt, Op
  <2> QED
    BY <2>3 DEF NextOp, OpAt
<1> QED
  BY <1>1, <1>2 DEF Unconnected, Idle, Calls

(* No step of the engine asks for a connect.                               *)
LEMMA ProtocolUnconnected ==
  ASSUME TypeInv, Unconnected, NeverConnects, ProtocolStep
  PROVE  Unconnected'
<1>1. CASE EvalEnd \/ EvalIn \/ EvalWait
  BY <1>1 DEF EvalEnd, EvalIn, EvalWait, Unconnected, Finish, Calls, Idle, Receives, busVars
<1>2. CASE EvalOut \/ LockCallback
  <2>1. \/ \E kind \in {"lock", "write"} : BusTakes(kind, busLocks)
        \/ UNCHANGED busVars /\ (call' = Idle \/ \E result : Finish(result))
    BY <1>2, Zenon DEF EvalOut, LockCallback, BusRefuses, Unexpected
  <2> QED
    BY <2>1, RequestUnconnected
    DEF Activity, QueueKind, Unconnected, Finish, Calls, Idle, busVars
<1>3. CASE ReadRequest
  <2>1. \/ \E kind \in {"read", "asyncRead"} : \E locks : BusTakes(kind, locks)
        \/ UNCHANGED <<outstanding, late>> /\ call' = Idle
    BY <1>3, Zenon DEF ReadRequest
  <2> QED
    BY <2>1, RequestUnconnected DEF Activity, QueueKind, Unconnected, Calls, Idle
<1>4. CASE EvalEvent \/ EvalExec
  <2>1. \/ \E kind \in {"event", "exec"} : \E locks : BusTakes(kind, locks)
        \/ UNCHANGED busVars /\ Finish("FormatError")
    BY <1>4, Zenon DEF EvalEvent, EvalExec
  <2> QED
    BY <2>1, RequestUnconnected DEF Activity, Unconnected, Finish, Calls, busVars
<1>5. CASE EvalDisconnect
  <2>1. \/ BusTakes("disconnect", busLocks)
        \/ UNCHANGED busVars /\ (call' = Idle \/ Finish("Fault"))
    BY <1>5, Zenon DEF EvalDisconnect, BusRefuses
  <2> QED
    BY <2>1, RequestUnconnected
    DEF Activity, QueueKind, Unconnected, Finish, Calls, Idle, busVars
<1>6. CASE WriteCallback \/ EventCallback \/ TimerCallback \/ ExecCallback
           \/ DisconnectCallback
  <2>1. \/ call' = Idle \/ call' = Calls("evalCommand", "Success")
        \/ \E result : Finish(result)
    BY <1>6, Zenon DEF WriteCallback, EventCallback, TimerCallback, ExecCallback,
       DisconnectCallback, CommandAnswer, Unexpected
  <2>2. UNCHANGED <<outstanding, late>>
    BY <1>6 DEF WriteCallback, EventCallback, TimerCallback, ExecCallback,
       DisconnectCallback, Unexpected, busVars
  <2> QED
    BY <2>1, <2>2 DEF Unconnected, Idle, Calls, Finish
<1>7. CASE ReadCallback
  <2>1. \/ call' = Idle \/ call' = Calls("in", "Success")
        \/ \E result : Finish(result)
        \/ call' = [call EXCEPT !.fn = "parse", !.status = EffectiveStatus(call.status)]
    BY <1>7, Zenon DEF ReadCallback
  <2>2. UNCHANGED <<outstanding, late>>
    BY <1>7, Zenon DEF ReadCallback, busVars
  <2>3. CASE call' = [call EXCEPT !.fn = "parse", !.status = EffectiveStatus(call.status)]
    BY <2>2, <2>3 DEF Unconnected, TypeInv, TypeOK, CallSet
  <2> QED
    BY <2>1, <2>2, <2>3 DEF Unconnected, Idle, Calls, Finish
<1>8. CASE Parse
  <2>1. \/ call' = Idle \/ \E result : Finish(result)
        \/ \E fn \in {"evalCommand", "in", "readRequest"} : call' = Calls(fn, "Success")
    BY <1>8, Zenon DEF Parse, WantMore
  <2>2. outstanding' \in {outstanding, outstanding \cup {call.source}} /\ late' = late
    BY <1>8, Zenon DEF Parse, WantMore
  <2>3. call.source # "connect"
    BY DEF TypeInv, TypeOK, CallSet, Source
  <2> QED
    BY <2>1, <2>2, <2>3 DEF Unconnected, Idle, Calls, Finish
<1>9. CASE FinishProtocol
  <2>1. (\E result : call' = Calls("cleanup", result)) \/ call' = Calls("evalCommand", "Success")
    BY <1>9, Zenon DEF FinishProtocol
  <2>2. UNCHANGED <<outstanding, late>>
    BY <1>9, Zenon DEF FinishProtocol, busVars
  <2> QED
    BY <2>1, <2>2 DEF Unconnected, Calls
<1>10. CASE Cleanup
  BY <1>10 DEF Cleanup, BusFinish, Unconnected, Calls
<1>11. ~EvalConnect /\ ~ConnectCallback
  BY DEF Unconnected, EvalConnect, ConnectCallback
<1> QED
  BY <1>1, <1>2, <1>3, <1>4, <1>5, <1>6, <1>7, <1>8, <1>9, <1>10, <1>11,
     EvalUnconnected, Zenon DEF ProtocolStep

(* Without connects by the device, no step of a record leads to one.       *)
LEMMA StepUnconnected ==
  ASSUME TypeInv, Unconnected, NeverConnects, [RecordNext]_allVars
  PROVE  Unconnected'
<1>1. ASSUME UNCHANGED vars PROVE Unconnected'
  BY <1>1 DEF vars, busVars, Unconnected
<1>2. ASSUME NEW mode, NEW by, Starts(mode, by) PROVE Unconnected'
  BY <1>2 DEF Starts, StartProtocol, Unconnected, Idle, Calls, busVars
<1>3. ASSUME AbortProtocol PROVE Unconnected'
  BY <1>3 DEF AbortProtocol, BusFinish, Unconnected
<1>4. ASSUME NEW by, NEW value, Returned(by, value) PROVE Unconnected'
  BY <1>4 DEF Returned, Unconnected, busVars
<1>5. CASE EngineRuns
  BY <1>5, ProtocolUnconnected DEF EngineRuns
<1>6. CASE ProtocolFinishHook
  BY <1>6 DEF ProtocolFinishHook, Unconnected, Idle, Calls, busVars
<1>7. CASE CallerStep
  BY <1>4, <1>7 DEF CallerStep, ProcessStarted, ProcessFailed, StartIgnored, LoadStarted
<1>8. CASE LoadStep
  <2>1. CASE LoadAttach
    BY <2>1 DEF LoadAttach, Unconnected
  <2> QED
    BY <1>1, <1>2, <1>8, <2>1 DEF LoadStep, LoadAsync, LoadInit, LoadWait, LoadRerun
<1>9. CASE CallbackStep \/ UserStep
  BY <1>1, <1>2, <1>3, <1>9
  DEF CallbackStep, ProcessCallback, Restart, UserStep, Process, Reload, ScanToIoIntr,
      ScanFromIoIntr, Pause, Resume
<1>10. CASE BusStep
  <2>1. ASSUME NEW kind, Answered(kind)
        PROVE  /\ "connect" \notin outstanding' \cup late'
               /\ kind # "connect"
    BY <2>1 DEF Answered, Unconnected
  <2>2. ASSUME NEW kind \in DOMAIN Answers, NEW st, Answer(kind, st)
        PROVE  Unconnected'
    <3>1. kind # "connect" /\ "connect" \notin outstanding' \cup late'
      BY <2>1, <2>2 DEF Answer
    <3>2. CallbackOf[kind] \notin {"connect", "connectCallback"}
      BY <3>1 DEF CallbackOf, Answers
    <3> QED
      BY <2>2, <3>1, <3>2 DEF Answer, Unconnected, Idle, Calls
  <2>3. ASSUME NEW kind, NEW st, NEW input, AnswerRead(kind, st, input)
        PROVE  Unconnected'
    BY <2>1, <2>3 DEF AnswerRead, Unconnected, Idle, Calls, Receives
  <2>4. CASE AnswerStep
    BY <2>2, <2>3, <2>4 DEF AnswerStep
  <2>5. CASE SkipObsolete \/ EarlyInputStep
    BY <2>5 DEF SkipObsolete, EarlyInputStep, EarlyInput, Unconnected, Receives, busVars
  <2> QED
    BY <1>10, <2>4, <2>5 DEF BusStep, NeverConnects
<1>11. CASE UNCHANGED allVars
  BY <1>1, <1>11 DEF allVars
<1> QED
  BY <1>5, <1>6, <1>7, <1>8, <1>9, <1>10, <1>11 DEF RecordNext
-----------------------------------------------------------------------------
(* The tasks of the loading thread, and the protocol that goes on *)

(* The tasks of the loading thread are done one after the other.           *)
LEMMA NextTasks ==
  ASSUME TasksInv, load # <<>>
  PROVE  /\ Head(load) = "async" =>
              \/ load = <<"async">> /\ Tail(load) = <<>>
              \/ load = <<"async", "init", "wait">> /\ Tail(load) = <<"init", "wait">>
         /\ Head(load) = "init" =>
              \/ /\ load = <<"init", "wait", "async">>
                 /\ Tail(load) = <<"wait", "async">> /\ Tail(Tail(load)) = <<"async">>
              \/ /\ load = <<"init", "wait">>
                 /\ Tail(load) = <<"wait">> /\ Tail(Tail(load)) = <<>>
         /\ Head(load) = "wait" =>
              \/ load = <<"wait", "async">> /\ Tail(load) = <<"async">>
              \/ load = <<"wait">> /\ Tail(load) = <<>>
         /\ Head(load) = "attach" =>
              load = <<"attach", "async", "init", "wait">>
              /\ Tail(load) = <<"async", "init", "wait">>
         /\ Head(load) = "resume" =>
              load = <<"resume", "rerun", "wait", "async">>
              /\ Tail(load) = <<"rerun", "wait", "async">>
         /\ Head(load) = "rerun" =>
              load = <<"rerun", "wait", "async">>
              /\ Tail(load) = <<"wait", "async">> /\ Tail(Tail(load)) = <<"async">>
<1>1. CASE load = <<"async">>
  <2>1. Head(load) = "async" /\ Tail(load) = <<>>
    BY <1>1
  <2> QED
    BY <1>1, <2>1, Zenon
<1>2. CASE load = <<"wait">>
  <2>1. Head(load) = "wait" /\ Tail(load) = <<>>
    BY <1>2
  <2> QED
    BY <1>2, <2>1, Zenon
<1>3. CASE load = <<"wait", "async">>
  <2>1. Head(load) = "wait" /\ Tail(load) = <<"async">>
    BY <1>3
  <2> QED
    BY <1>3, <2>1, Zenon
<1>4. CASE load = <<"async", "init", "wait">>
  <2>1. Head(load) = "async" /\ Tail(load) = <<"init", "wait">>
    BY <1>4
  <2> QED
    BY <1>4, <2>1, Zenon
<1>5. CASE load = <<"init", "wait">>
  <2>1. Head(load) = "init" /\ Tail(load) = <<"wait">>
    BY <1>5
  <2>2. Tail(<<"wait">>) = <<>>
    OBVIOUS
  <2> QED
    BY <1>5, <2>1, <2>2, Zenon
<1>6. CASE load = <<"init", "wait", "async">>
  <2>1. Head(load) = "init" /\ Tail(load) = <<"wait", "async">>
    BY <1>6
  <2>2. Tail(<<"wait", "async">>) = <<"async">>
    OBVIOUS
  <2> QED
    BY <1>6, <2>1, <2>2, Zenon
<1>7. CASE load = <<"rerun", "wait", "async">>
  <2>1. Head(load) = "rerun" /\ Tail(load) = <<"wait", "async">>
    BY <1>7
  <2>2. Tail(<<"wait", "async">>) = <<"async">>
    OBVIOUS
  <2> QED
    BY <1>7, <2>1, <2>2, Zenon
<1>8. CASE load = <<"resume", "rerun", "wait", "async">>
  <2>1. Head(load) = "resume" /\ Tail(load) = <<"rerun", "wait", "async">>
    BY <1>8
  <2> QED
    BY <1>8, <2>1, Zenon
<1>9. CASE load = <<"attach", "async", "init", "wait">>
  <2>1. Head(load) = "attach" /\ Tail(load) = <<"async", "init", "wait">>
    BY <1>9
  <2> QED
    BY <1>9, <2>1, Zenon
<1> QED
  BY <1>1, <1>2, <1>3, <1>4, <1>5, <1>6, <1>7, <1>8, <1>9, Zenon
  DEF TasksInv, StartTasks, ReloadTasks

(* What each step does to the tasks, and who may be starting what.         *)
LEMMA TasksStep ==
  ASSUME TasksInv, [RecordNext]_allVars
  PROVE  TasksInv'
<1> USE DEF TasksInv
<1>1. CASE UNCHANGED <<load, caller, callbacks>>
  BY <1>1
<1>2. ASSUME NEW result, NEW fl, HookEffect(result, fl) PROVE callbacks' \in Nat
  BY <1>2 DEF HookEffect
<1>3. CASE ProtocolFinishHook
  BY <1>2, <1>3 DEF ProtocolFinishHook
<1>4. CASE CallerStep
  <2>1. callbacks' = callbacks /\ caller' = "nobody"
    BY <1>4 DEF CallerStep, ProcessStarted, ProcessFailed, StartIgnored, LoadStarted, Returned
  <2>2. load' = load \/ (caller = "load" /\ load' = Tail(load))
    BY <1>4 DEF CallerStep, ProcessStarted, ProcessFailed, StartIgnored, LoadStarted, Returned
  <2>3. caller = "load" => Tail(load) \in {<<"async">>, <<>>}
    <3>1. Tail(<<"wait", "async">>) = <<"async">> /\ Tail(<<"wait">>) = <<>>
      OBVIOUS
    <3> QED
      BY <3>1, Zenon
  <2> QED
    BY <2>1, <2>2, <2>3 DEF StartTasks, ReloadTasks
<1>5. CASE LoadStep
  <2>1. callbacks' = callbacks /\ load # <<>> /\ caller = "nobody"
    BY <1>5 DEF LoadStep, LoadAsync, LoadInit, LoadWait, LoadAttach, LoadRerun, NextTask,
       Loading, Free
  <2>2. CASE LoadAsync
    <3>1. load' \in {<<>>, <<"init", "wait">>}
      BY <2>1, <2>2, NextTasks DEF LoadAsync, NextTask
    <3>2. caller' \in {"scan", "nobody"}
      BY <2>1, <2>2 DEF LoadAsync, Starts
    <3> QED
      BY <2>1, <3>1, <3>2 DEF StartTasks, ReloadTasks
  <2>3. CASE LoadInit
    <3>1. \/ load' \in {<<"wait", "async">>, <<"wait">>}
          \/ load' \in {<<"async">>, <<>>} /\ caller' = "nobody"
      BY <2>1, <2>3, NextTasks DEF LoadInit, NextTask
    <3> QED
      BY <2>1, <3>1 DEF StartTasks, ReloadTasks
  <2>4. CASE LoadWait
    <3>1. load' \in {<<"async">>, <<>>} /\ caller' = "nobody"
      BY <2>1, <2>4, NextTasks DEF LoadWait, NextTask
    <3> QED
      BY <2>1, <3>1 DEF StartTasks, ReloadTasks
  <2>5. CASE LoadAttach
    <3>1. load' = <<"async", "init", "wait">> /\ caller' = "nobody"
      BY <2>1, <2>5, NextTasks DEF LoadAttach, NextTask
    <3> QED
      BY <2>1, <3>1 DEF StartTasks, ReloadTasks
  <2>6. CASE LoadRerun
    <3>1. load' \in {<<"wait", "async">>, <<"async">>}
      BY <2>1, <2>6, NextTasks DEF LoadRerun, NextTask
    <3>2. caller' \in {"scan", "nobody"}
      BY <2>1, <2>6 DEF LoadRerun, Starts
    <3> QED
      BY <2>1, <3>1, <3>2 DEF StartTasks, ReloadTasks
  <2> QED
    BY <1>5, <2>2, <2>3, <2>4, <2>5, <2>6 DEF LoadStep
<1>6. CASE CallbackStep
  <2>1. load' = load /\ caller = "nobody" /\ caller' \in {"nobody", "process", "restart"}
    BY <1>6 DEF CallbackStep, ProcessCallback, Restart, Free, Starts
  <2>2. callbacks' = callbacks \/ (callbacks > 0 /\ callbacks' = callbacks - 1)
    BY <1>6 DEF CallbackStep, ProcessCallback, Restart
  <2> QED
    BY <2>1, <2>2
<1>7. CASE UserStep
  <2>1. ASSUME NEW mode, Process(mode) PROVE TasksInv'
    BY <2>1 DEF Process, Starts
  <2>2. CASE Reload
    <3>1. load' = <<"attach", "async", "init", "wait">> /\ caller' = "nobody"
      BY <2>2 DEF Reload, Free
    <3>2. callbacks' \in Nat
      BY <1>2, <2>2 DEF Reload
    <3> QED
      BY <3>1, <3>2 DEF StartTasks, ReloadTasks
  <2>3. CASE Pause
    <3>1. load' = <<"resume", "rerun", "wait", "async">> /\ caller' = "nobody"
      BY <2>3 DEF Pause, Free
    <3>2. callbacks' \in Nat
      BY <1>2, <2>3 DEF Pause
    <3> QED
      BY <3>1, <3>2 DEF StartTasks, ReloadTasks
  <2>4. CASE Resume
    <3>1. load' = <<"rerun", "wait", "async">> /\ UNCHANGED <<caller, callbacks>>
          /\ caller = "nobody"
      BY <2>4, NextTasks DEF Resume, NextTask, Loading, Free
    <3> QED
      BY <3>1 DEF StartTasks, ReloadTasks
  <2>5. CASE ScanToIoIntr
    BY <2>5 DEF ScanToIoIntr, Starts
  <2>6. CASE ScanFromIoIntr
    BY <1>2, <2>6 DEF ScanFromIoIntr
  <2> QED
    BY <1>7, <2>1, <2>2, <2>3, <2>4, <2>5, <2>6 DEF UserStep
<1> QED
  BY <1>1, <1>3, <1>4, <1>5, <1>6, <1>7
  DEF RecordNext, EngineRuns, BusStep, recordVars, allVars

(* A run goes on until its hook, unless a connect starts another protocol. *)
LEMMA RunGoesOn ==
  ASSUME GoesOn, ProtocolStep, UNCHANGED recordVars,
         ConnectCallback => activeCommand # "end"
  PROVE  GoesOn'
<1>1. CASE callbacks > 0 \/ restart
  BY <1>1 DEF GoesOn, Listens, recordVars
<1>2. CASE ~(callbacks > 0 \/ restart)
  <2>1. \/ activeCommand # "end" \/ flags \cap BusPending # {}
        \/ call.fn \in {"evalCommand", "end", "finish", "cleanup", "hook"}
    BY <1>2 DEF GoesOn, Listens
  <2> DEFINE On == \/ activeCommand # "end" \/ flags \cap BusPending # {}
                   \/ call.fn \in {"evalCommand", "end", "finish", "cleanup", "hook"}
  <2> SUFFICES On'
    BY DEF GoesOn, Listens
  <2>2. CASE EvalCommand
    <3>1. CASE flags \cap BusPending # {}
      BY <2>2, <3>1 DEF EvalCommand
    <3>2. CASE flags \cap BusPending = {}
      BY <2>2, <3>2 DEF EvalCommand, Calls
    <3> QED
      BY <3>1, <3>2
  <2>3. CASE EvalEnd
    BY <2>3 DEF EvalEnd, Finish, Calls
  <2>4. CASE EvalOut
    <3>1. UNCHANGED activeCommand /\ call.fn = "out"
      BY <2>4 DEF EvalOut, programVars
    <3>2. flags \subseteq flags' \/ call'.fn = "finish"
      BY <2>4 DEF EvalOut, Finish, Calls
    <3> QED
      BY <2>1, <3>1, <3>2
  <2>5. CASE EvalIn \/ ReadRequest \/ EvalWait \/ EvalEvent
    <3>1. UNCHANGED activeCommand /\ call.fn \in {"in", "readRequest", "wait", "event"}
      BY <2>5 DEF EvalIn, ReadRequest, EvalWait, EvalEvent, programVars
    <3>2. flags \subseteq flags' \cup {"BusOwner"}
      BY <2>5 DEF EvalIn, ReadRequest, EvalWait, EvalEvent
    <3> QED
      BY <2>1, <3>1, <3>2 DEF BusPending
  <2>6. CASE EvalExec \/ EvalConnect \/ EvalDisconnect
    <3>1. UNCHANGED activeCommand /\ call.fn \in {"exec", "connect", "disconnect"}
      BY <2>6 DEF EvalExec, EvalConnect, EvalDisconnect, programVars
    <3>2. flags \subseteq flags' \cup {"BusOwner"}
      BY <2>6 DEF EvalExec, EvalConnect, EvalDisconnect
    <3> QED
      BY <2>1, <3>1, <3>2 DEF BusPending
  <2>7. CASE LockCallback
    <3>1. UNCHANGED activeCommand /\ call.fn = "lockCallback"
      BY <2>7 DEF LockCallback, programVars
    <3>2. flags' = flags \/ "WritePending" \in flags' \/ call'.fn = "finish"
      BY <2>7 DEF LockCallback, Unexpected, Finish, Calls
    <3> QED
      BY <2>1, <3>1, <3>2 DEF BusPending
  <2>8. CASE WriteCallback \/ EventCallback \/ TimerCallback
    <3>1. /\ UNCHANGED activeCommand
          /\ call.fn \in {"writeCallback", "eventCallback", "timerCallback"}
      BY <2>8 DEF WriteCallback, EventCallback, TimerCallback, programVars
    <3>2. flags' = flags \/ call'.fn \in {"finish", "evalCommand"}
      BY <2>8 DEF WriteCallback, EventCallback, TimerCallback, Unexpected, Finish, Calls
    <3> QED
      BY <2>1, <3>1, <3>2
  <2>9. CASE ExecCallback \/ ConnectCallback
    <3>1. /\ UNCHANGED <<activeCommand, flags>>
          /\ call.fn \in {"execCallback", "connectCallback"}
      BY <2>9 DEF ExecCallback, ConnectCallback, programVars
    <3> QED
      BY <2>1, <3>1
  <2>10. CASE DisconnectCallback
    <3>1. UNCHANGED activeCommand /\ call.fn = "disconnectCallback"
      BY <2>10 DEF DisconnectCallback, programVars
    <3>2. flags' = flags \/ call'.fn = "finish"
      BY <2>10 DEF DisconnectCallback, Finish, Calls
    <3> QED
      BY <2>1, <3>1, <3>2
  <2>11. CASE ReadCallback \/ Parse
    <3>1. UNCHANGED <<activeCommand, flags>> /\ call.fn \in {"readCallback", "parse"}
      BY <2>11 DEF ReadCallback, Parse, programVars
    <3> QED
      BY <2>1, <3>1
  <2>12. CASE FinishProtocol
    <3>1. (\E result : call' = Calls("cleanup", result)) \/ call' = Calls("evalCommand", "Success")
      BY <2>12, Zenon DEF FinishProtocol
    <3> QED
      BY <3>1 DEF Calls
  <2>13. CASE Cleanup
    BY <2>13 DEF Cleanup, Calls
  <2> QED
    BY <2>2, <2>3, <2>4, <2>5, <2>6, <2>7, <2>8, <2>9, <2>10, <2>11, <2>12, <2>13, Zenon
    DEF ProtocolStep
<1> QED
  BY <1>1, <1>2

(* How a protocol was started, and whether it was aborted, is known until  *)
(* the next start.                                                         *)
LEMMA StartRemembered ==
  ASSUME ProtocolStep, ConnectCallback => activeCommand # "end"
  PROVE  flags' \cap {"InitRun", "Aborted"} = flags \cap {"InitRun", "Aborted"}
<1>1. CASE EvalCommand \/ EvalEnd \/ EvalIn \/ EvalWait \/ EvalConnect \/ EvalDisconnect
  BY <1>1 DEF EvalCommand, EvalEnd, EvalIn, EvalWait, EvalConnect, EvalDisconnect
<1>2. CASE EvalOut
  BY <1>2 DEF EvalOut, EarlyFlags
<1>3. CASE ReadRequest \/ EvalEvent \/ EvalExec
  BY <1>3 DEF ReadRequest, EvalEvent, EvalExec
<1>4. CASE LockCallback \/ WriteCallback \/ EventCallback \/ TimerCallback
  BY <1>4 DEF LockCallback, WriteCallback, EventCallback, TimerCallback, Unexpected
<1>5. CASE ExecCallback \/ ConnectCallback \/ DisconnectCallback
  BY <1>5 DEF ExecCallback, ConnectCallback, DisconnectCallback, BusPending
<1>6. CASE ReadCallback \/ Parse \/ FinishProtocol \/ Cleanup
  BY <1>6 DEF ReadCallback, Parse, FinishProtocol, Cleanup
<1> QED
  BY <1>1, <1>2, <1>3, <1>4, <1>5, <1>6 DEF ProtocolStep

(* A protocol that can be started goes on, and is not aborted.             *)
LEMMA StartedGoesOn ==
  ASSUME NEW mode \in StartMode, StartProtocol(mode),
         mode = "StartAsync" => AsyncBus, protocol[BlockOf[mode]] # <<>>
  PROVE  ListenInv'
<1>1. flags' = ModeFlags[mode] /\ call' = Calls("evalCommand", "Success")
  BY DEF StartProtocol
<1> QED
  BY <1>1 DEF ListenInv, GoesOn, Calls, Has, ModeFlags, StartMode

(* Steps that do not concern the protocol.                                 *)
LEMMA ListenUnchanged ==
  ASSUME ListenInv, Subscribed' => Subscribed,
         UNCHANGED <<flags, activeCommand, callbacks, restart>>,
         call' = call \/ call = Idle
  PROVE  ListenInv'
BY DEF ListenInv, GoesOn, Listens, Has, Idle, Calls

(* While the "I/O Intr" protocol has still to be started.                  *)
LEMMA NotSubscribed ==
  ASSUME load' \in {<<"async">>, <<"wait", "async">>, <<"async", "init", "wait">>,
                    <<"rerun", "wait", "async">>, <<"attach", "async", "init", "wait">>,
                    <<"resume", "rerun", "wait", "async">>}
  PROVE  ~Subscribed' /\ ListenInv'
BY DEF Subscribed, ListenInv

(* A step of the engine.                                                   *)
LEMMA EngineListens ==
  ASSUME TypeInv, ListenInv, HasInit \/ (NeverConnects /\ Unconnected), EngineRuns
  PROVE  ListenInv'
<1>1. CASE ConnectCallback /\ activeCommand = "end"
  <2>1. HasInit /\ protocol \in Protocols
    BY <1>1 DEF ConnectCallback, Unconnected, TypeInv, TypeOK
  <2>2. StartProtocol("StartInit") /\ protocol[BlockOf["StartInit"]] # <<>>
    BY <1>1, <2>1 DEF ConnectCallback, HasInit, BlockOf
  <2> QED
    BY <2>2, StartedGoesOn DEF StartMode
<1>2. CASE ~(ConnectCallback /\ activeCommand = "end")
  <2>1. ProtocolStep /\ UNCHANGED recordVars
    BY DEF EngineRuns
  <2>2. flags' \cap {"InitRun", "Aborted"} = flags \cap {"InitRun", "Aborted"}
    BY <1>2, <2>1, StartRemembered
  <2>3. GoesOn => GoesOn'
    BY <1>2, <2>1, RunGoesOn
  <2>4. Subscribed' = Subscribed
    BY <2>1 DEF Subscribed, recordVars
  <2> QED
    BY <2>2, <2>3, <2>4 DEF ListenInv, Has
<1> QED
  BY <1>1, <1>2

(* The end of an "I/O Intr" run queues its process callback.               *)
LEMMA HookListens ==
  ASSUME CanListen, TasksInv, ListenInv, ProtocolFinishHook
  PROVE  ListenInv'
<1>1. HookEffect(call.status, flags) /\ UNCHANGED <<ioIntr, load>>
  BY DEF ProtocolFinishHook
<1>2. flags' \in {flags, flags \cup {"AcceptInput"}}
  BY <1>1, HookFlags
<1>3. Subscribed' = Subscribed
  BY <1>1 DEF Subscribed
<1>4. ASSUME Subscribed, ~Has("InitRun") PROVE callbacks' > 0
  <2>1. callbacks \in Nat /\ MaxCallbacks \in Nat /\ MaxCallbacks > 0
    BY StreamEpicsAssumption DEF TasksInv, CanListen
  <2>2. callbacks' = IF CallbackDue /\ callbacks < MaxCallbacks
                     THEN callbacks + 1 ELSE callbacks
    BY <1>1, <1>4 DEF HookEffect, Has
  <2> QED
    BY <1>4, <2>1, <2>2 DEF CallbackDue, Subscribed
<1> QED
  BY <1>2, <1>3, <1>4 DEF ListenInv, GoesOn, Listens, Has

(* The record's own steps: callers, process callback and restart.          *)
LEMMA RecordListens ==
  ASSUME TypeInv, CanListen, TasksInv, ListenInv, CallerStep \/ CallbackStep
  PROVE  ListenInv'
<1>1. AsyncBus /\ protocol[BlockOf["StartAsync"]] # <<>>
  BY DEF CanListen, TypeInv, TypeOK, BlockOf
<1>2. CASE CallerStep
  <2>1. /\ UNCHANGED <<flags, activeCommand, callbacks, restart, call, ioIntr>>
        /\ load' = load \/ (caller = "load" /\ load' = Tail(load))
    BY <1>2 DEF CallerStep, ProcessStarted, ProcessFailed, StartIgnored, LoadStarted,
       Returned, programVars
  <2>2. CASE load' = load
    BY <2>1, <2>2, ListenUnchanged DEF Subscribed
  <2>3. CASE caller = "load" /\ load = <<"wait", "async">> /\ load' = Tail(load)
    <3>1. Tail(<<"wait", "async">>) = <<"async">>
      OBVIOUS
    <3> QED
      BY <2>3, <3>1, NotSubscribed
  <2>4. CASE load = <<"wait">>
    BY <2>1, <2>4, ListenUnchanged DEF Subscribed
  <2> QED
    BY <2>1, <2>2, <2>3, <2>4 DEF TasksInv
<1>3. CASE ProcessCallback
  <2>1. CASE ~ioIntr
    BY <1>3, <2>1 DEF ProcessCallback, ListenInv, Subscribed
  <2>2. CASE ioIntr
    <3>1. /\ UNCHANGED <<flags, ioIntr, load>>
          /\ restart' = (ioIntr /\ ~Has("Aborted"))
      BY <1>3, <2>2 DEF ProcessCallback, vars
    <3>2. Subscribed' = Subscribed
      BY <3>1 DEF Subscribed
    <3>3. Subscribed => restart'
      BY <2>2, <3>1, Zenon DEF ListenInv
    <3> QED
      BY <3>1, <3>2, <3>3 DEF ListenInv, GoesOn, Listens, Has
  <2> QED
    BY <2>1, <2>2
<1>4. CASE Restart
  BY <1>1, <1>4, StartedGoesOn DEF Restart, Starts, StartMode
<1> QED
  BY <1>2, <1>3, <1>4 DEF CallbackStep

(* The loading thread starts the "I/O Intr" protocol before or after @init.*)
LEMMA LoadListens ==
  ASSUME TypeInv, CanListen, TasksInv, ListenInv, LoadStep
  PROVE  ListenInv'
<1>1. load # <<>> /\ call = Idle
  BY DEF LoadStep, LoadAsync, LoadInit, LoadWait, LoadAttach, LoadRerun, NextTask, Loading,
     Free, NobodyInside
<1>2. CASE LoadAsync
  <2>1. CASE ioIntr
    <3>1. AsyncBus /\ protocol[BlockOf["StartAsync"]] # <<>>
      BY DEF CanListen, TypeInv, TypeOK, BlockOf
    <3> QED
      BY <1>2, <2>1, <3>1, StartedGoesOn DEF LoadAsync, Starts, StartMode
  <2>2. CASE ~ioIntr
    BY <1>2, <2>2 DEF LoadAsync, ListenInv, Subscribed
  <2> QED
    BY <2>1, <2>2
<1>3. CASE LoadInit
  <2>1. CASE protocol["onInit"] # <<>>
    BY <1>3, <2>1, StartedGoesOn DEF LoadInit, Starts, StartMode, BlockOf
  <2>2. CASE protocol["onInit"] = <<>>
    <3>1. \/ load' = <<"async">>
          \/ load = <<"init", "wait">>
      BY <1>1, <1>3, <2>2, NextTasks, Zenon DEF LoadInit, NextTask
    <3>2. UNCHANGED <<flags, activeCommand, callbacks, restart, call, ioIntr>>
      BY <1>3, <2>2 DEF LoadInit, vars, programVars
    <3>3. CASE load = <<"init", "wait">>
      BY <3>2, <3>3, ListenUnchanged DEF Subscribed
    <3> QED
      BY <3>1, <3>3, NotSubscribed
  <2> QED
    BY <2>1, <2>2
<1>4. CASE LoadWait
  <2>1. load' = <<"async">> \/ load = <<"wait">>
    BY <1>1, <1>4, NextTasks, Zenon DEF LoadWait, NextTask
  <2>2. UNCHANGED <<flags, activeCommand, callbacks, restart, call, ioIntr>>
    BY <1>4 DEF LoadWait, vars, programVars
  <2>3. CASE load = <<"wait">>
    BY <2>2, <2>3, ListenUnchanged DEF Subscribed
  <2> QED
    BY <2>1, <2>3, NotSubscribed
<1>5. CASE LoadAttach
  <2>1. load' = <<"async", "init", "wait">>
    BY <1>1, <1>5, NextTasks, Zenon DEF LoadAttach, NextTask
  <2> QED
    BY <2>1, NotSubscribed
<1>6. CASE LoadRerun
  <2>1. load' \in {<<"wait", "async">>, <<"async">>}
    BY <1>1, <1>6, NextTasks DEF LoadRerun, NextTask
  <2> QED
    BY <2>1, NotSubscribed
<1> QED
  BY <1>2, <1>3, <1>4, <1>5, <1>6 DEF LoadStep

(* What users do to the record.                                            *)
LEMMA UserListens ==
  ASSUME TypeInv, CanListen, TasksInv, ListenInv, UserStep
  PROVE  ListenInv'
<1>1. ASSUME NEW mode, Process(mode) PROVE ListenInv'
  BY <1>1 DEF Process, ListenInv, Subscribed
<1>2. CASE Reload \/ Pause
  BY <1>2, NotSubscribed DEF Reload, Pause
<1>3. CASE Resume
  <2>1. load' = <<"rerun", "wait", "async">>
    BY <1>3, NextTasks, Zenon DEF Resume, NextTask, Loading
  <2> QED
    BY <2>1, NotSubscribed
<1>4. CASE ScanToIoIntr
  <2>1. AsyncBus /\ protocol[BlockOf["StartAsync"]] # <<>>
    BY DEF CanListen, TypeInv, TypeOK, BlockOf
  <2> QED
    BY <1>4, <2>1, StartedGoesOn DEF ScanToIoIntr, Starts, StartMode
<1>5. CASE ScanFromIoIntr
  BY <1>5 DEF ScanFromIoIntr, ListenInv, Subscribed
<1> QED
  BY <1>1, <1>2, <1>3, <1>4, <1>5 DEF UserStep

(* Answers and unasked input reach a protocol that goes on.                *)
LEMMA BusListens ==
  ASSUME ListenInv, BusStep
  PROVE  ListenInv'
<1>1. UNCHANGED recordVars
  BY DEF BusStep
<1>2. CASE SkipObsolete
  BY <1>1, <1>2, ListenUnchanged DEF SkipObsolete, Subscribed, recordVars, programVars
<1>3. CASE AnswerStep \/ EarlyInputStep \/ DisconnectStep \/ AsyncConnect
  <2>1. call = Idle /\ UNCHANGED <<flags, programVars>>
    BY <1>3 DEF AnswerStep, Answer, AnswerRead, EarlyInputStep, EarlyInput,
       DisconnectStep, AsyncDisconnect, AsyncConnect, NobodyInside
  <2> QED
    BY <1>1, <2>1, ListenUnchanged DEF Subscribed, recordVars, programVars
<1> QED
  BY <1>2, <1>3 DEF BusStep

(* Every step keeps an "I/O Intr" record listening.                        *)
LEMMA StepListens ==
  ASSUME TypeInv, CanListen, HasInit \/ (NeverConnects /\ Unconnected),
         TasksInv, ListenInv, [RecordNext]_allVars
  PROVE  ListenInv'
<1>1. CASE UNCHANGED allVars
  BY <1>1, ListenUnchanged DEF Subscribed, allVars, vars, recordVars, programVars
<1> QED
  BY <1>1, EngineListens, HookListens, RecordListens, LoadListens, UserListens, BusListens
  DEF RecordNext

(* The types and the tasks are right in every reachable state.             *)
LEMMA DisturbedTypes == RecordSpec => [](TypeInv /\ TasksInv)
<1>1. RecordInit => TypeInv /\ TasksInv
  <2>1. RecordInit => TasksInv
    BY DEF RecordInit, TasksInv, StartTasks
  <2> QED
    BY <2>1, InitType DEF RecordInit
<1>2. TypeInv /\ TasksInv /\ [RecordNext]_allVars => TypeInv' /\ TasksInv'
  BY RecordStepType, TasksStep
<1> QED
  BY <1>1, <1>2, PTL DEF RecordSpec

(* Nothing ever connects a device that does not do so by itself.           *)
LEMMA NothingConnects == NeverConnects /\ RecordSpec => []Unconnected
<1> SUFFICES ASSUME NeverConnects PROVE RecordSpec => []Unconnected
  OBVIOUS
<1>1. RecordInit => Unconnected
  BY DEF RecordInit, Init, Unconnected, Idle, Calls
<1>2. TypeInv /\ Unconnected /\ [RecordNext]_allVars => Unconnected'
  BY StepUnconnected
<1> QED
  BY <1>1, <1>2, DisturbedTypes, PTL DEF RecordSpec

(* A record that has been set to "I/O Intr" stays subscribed.              *)
LEMMA StaysSubscribed ==
  CanListen /\ (HasInit \/ NeverConnects) /\ RecordSpec => []ListenInv
<1> SUFFICES ASSUME CanListen, HasInit \/ NeverConnects PROVE RecordSpec => []ListenInv
  OBVIOUS
<1>1. RecordInit => ListenInv
  <2>1. <<"init", "wait", "async">> \notin {<<>>, <<"wait">>, <<"init", "wait">>}
    OBVIOUS
  <2> QED
    BY <2>1, Zenon DEF RecordInit, ListenInv, Subscribed
<1>2. CASE HasInit
  <2>1. TypeInv /\ TasksInv /\ ListenInv /\ [RecordNext]_allVars => ListenInv'
    BY <1>2, StepListens
  <2> QED
    BY <1>1, <2>1, DisturbedTypes, PTL DEF RecordSpec
<1>3. CASE NeverConnects
  <2>1. TypeInv /\ TasksInv /\ Unconnected /\ ListenInv /\ [RecordNext]_allVars => ListenInv'
    BY <1>3, StepListens
  <2>2. RecordSpec => []Unconnected
    BY <1>3, NothingConnects
  <2> QED
    BY <1>1, <2>1, <2>2, DisturbedTypes, PTL DEF RecordSpec
<1> QED
  BY <1>2, <1>3

(* However SCAN changes, protocols are reloaded and the IOC is paused, an  *)
(* "I/O Intr" record goes on listening unless an @init run came last.      *)
THEOREM DisturbedRecordListens ==
  CanListen /\ (HasInit \/ NeverConnects) /\ RecordSpec => []ListensAfterRun
<1>1. ListenInv => ListensAfterRun
  <2> SUFFICES ASSUME ListenInv, Free, ioIntr, ~Loading, ~Has("InitRun") PROVE Listens
    BY DEF ListensAfterRun
  <2>1. Subscribed /\ call = Idle
    BY DEF Subscribed, Loading, Free, NobodyInside
  <2> QED
    BY <2>1 DEF ListenInv, GoesOn, Idle, Calls
<1> QED
  BY <1>1, StaysSubscribed, PTL

(* What boot leaves to the loading thread ends with the start of the       *)
(* "I/O Intr" protocol.                                                    *)
LEMMA BootEndsAsync ==
  ASSUME NEW tasks \in StartTasks, tasks # <<>>
  PROVE  tasks[Len(tasks)] = "async"
<1>1. CASE tasks = <<"async">>
  BY <1>1
<1>2. CASE tasks = <<"wait", "async">>
  BY <1>2
<1>3. CASE tasks = <<"init", "wait", "async">>
  BY <1>3
<1>4. CASE tasks = <<"rerun", "wait", "async">>
  BY <1>4
<1>5. CASE tasks = <<"resume", "rerun", "wait", "async">>
  BY <1>5
<1> QED
  BY <1>1, <1>2, <1>3, <1>4, <1>5, Zenon DEF StartTasks

(* What streamReload leaves to it ends with @init.                         *)
LEMMA ReloadEndsWaiting ==
  ASSUME NEW tasks \in ReloadTasks, tasks # <<>>
  PROVE  tasks[Len(tasks)] = "wait"
<1>1. CASE tasks = <<"wait">>
  BY <1>1
<1>2. CASE tasks = <<"init", "wait">>
  BY <1>2
<1>3. CASE tasks = <<"async", "init", "wait">>
  BY <1>3
<1>4. CASE tasks = <<"attach", "async", "init", "wait">>
  BY <1>4
<1> QED
  BY <1>1, <1>2, <1>3, <1>4, Zenon DEF ReloadTasks

(* Only boot, iocRun and a connect run @init; the first two start the      *)
(* "I/O Intr" protocol once more before the record is loaded again.        *)
LEMMA StepNoInit ==
  ASSUME TasksInv, Unconnected, ~Reconnects, ~Reloads, ~ScanChanges,
         NoInitWhileListening, [RecordNext]_allVars
  PROVE  NoInitWhileListening'
<1> DEFINE Kept == load' \in StartTasks /\ (ioIntr' /\ load' = <<>> => "InitRun" \notin flags')
<1> SUFFICES Kept
  BY DEF NoInitWhileListening, Loading, Has
<1>1. load \in StartTasks /\ (ioIntr /\ load = <<>> => "InitRun" \notin flags)
  BY DEF NoInitWhileListening, Loading, Has
<1>2. ASSUME UNCHANGED <<flags, ioIntr, load>> PROVE Kept
  BY <1>1, <1>2
<1>3. ASSUME load' \in {<<"async">>, <<"wait", "async">>, <<"rerun", "wait", "async">>,
                        <<"resume", "rerun", "wait", "async">>}
      PROVE  Kept
  BY <1>3 DEF StartTasks
<1>4. CASE UNCHANGED allVars
  BY <1>2, <1>4 DEF allVars, vars, recordVars
<1>5. CASE EngineRuns
  <2>1. ~ConnectCallback
    BY DEF Unconnected, ConnectCallback
  <2>2. flags' \cap {"InitRun", "Aborted"} = flags \cap {"InitRun", "Aborted"}
    BY <1>5, <2>1, StartRemembered DEF EngineRuns
  <2>3. UNCHANGED <<ioIntr, load>>
    BY <1>5 DEF EngineRuns, recordVars
  <2> QED
    BY <1>1, <2>2, <2>3
<1>6. CASE ProtocolFinishHook
  <2>1. flags' \in {flags, flags \cup {"AcceptInput"}}
    BY <1>6, HookFlags, Zenon DEF ProtocolFinishHook
  <2>2. UNCHANGED <<ioIntr, load>>
    BY <1>6 DEF ProtocolFinishHook
  <2> QED
    BY <1>1, <2>1, <2>2
<1>7. CASE CallerStep
  <2>1. /\ UNCHANGED <<flags, ioIntr>>
        /\ load' = load \/ (caller = "load" /\ load' = Tail(load))
    BY <1>7 DEF CallerStep, ProcessStarted, ProcessFailed, StartIgnored, LoadStarted, Returned
  <2>2. CASE caller = "load" /\ load' = Tail(load)
    <3>1. load = <<"wait", "async">>
      BY <1>1, <2>2 DEF TasksInv, StartTasks
    <3>2. load' = <<"async">>
      BY <2>2, <3>1
    <3> QED
      BY <1>3, <3>2
  <2> QED
    BY <1>2, <2>1, <2>2
<1>8. CASE LoadStep
  <2>1. load # <<>> /\ load \notin ReloadTasks
    <3>1. load # <<>>
      BY <1>8 DEF LoadStep, LoadAsync, LoadInit, LoadWait, LoadAttach, LoadRerun,
         NextTask, Loading
    <3>2. load[Len(load)] = "async"
      BY <1>1, <3>1, BootEndsAsync
    <3> QED
      BY <3>1, <3>2, ReloadEndsWaiting
  <2>2. CASE LoadAsync
    <3>1. load' = <<>>
      BY <2>1, <2>2, NextTasks, Zenon DEF LoadAsync, NextTask, ReloadTasks
    <3>2. UNCHANGED ioIntr /\ (ioIntr => flags' = ModeFlags["StartAsync"] \/ flags' = {})
      BY <2>2 DEF LoadAsync, Starts, StartProtocol
    <3> QED
      BY <3>1, <3>2 DEF ModeFlags, StartTasks
  <2>3. CASE LoadInit
    <3>1. load' = <<"wait", "async">> \/ load' = <<"async">>
      BY <2>1, <2>3, NextTasks, Zenon DEF LoadInit, NextTask, ReloadTasks
    <3> QED
      BY <1>3, <3>1
  <2>4. CASE LoadWait
    <3>1. load' = <<"async">>
      BY <2>1, <2>4, NextTasks, Zenon DEF LoadWait, NextTask, ReloadTasks
    <3> QED
      BY <1>3, <3>1
  <2>5. CASE LoadAttach
    BY <2>1, <2>5, NextTasks, Zenon DEF LoadAttach, NextTask, ReloadTasks
  <2>6. CASE LoadRerun
    <3>1. load' = <<"wait", "async">> \/ load' = <<"async">>
      BY <2>1, <2>6, NextTasks, Zenon DEF LoadRerun, NextTask, ReloadTasks
    <3> QED
      BY <1>3, <3>1
  <2> QED
    BY <1>8, <2>2, <2>3, <2>4, <2>5, <2>6 DEF LoadStep
<1>9. CASE CallbackStep
  <2>1. CASE ProcessCallback
    <3>1. UNCHANGED <<load, ioIntr>> /\ (ioIntr => UNCHANGED flags)
      BY <2>1 DEF ProcessCallback, vars
    <3> QED
      BY <1>1, <3>1
  <2>2. CASE Restart
    <3>1. UNCHANGED load /\ (flags' = ModeFlags["StartAsync"] \/ flags' = {})
      BY <2>2 DEF Restart, Starts, StartProtocol
    <3> QED
      BY <1>1, <3>1 DEF ModeFlags
  <2> QED
    BY <1>9, <2>1, <2>2 DEF CallbackStep
<1>10. CASE BusStep
  <2>1. UNCHANGED recordVars
    BY <1>10 DEF BusStep
  <2>2. UNCHANGED flags
    BY <1>10 DEF BusStep, AnswerStep, Answer, AnswerRead, SkipObsolete, EarlyInputStep, EarlyInput
  <2> QED
    BY <1>2, <2>1, <2>2 DEF recordVars
<1>11. CASE UserStep
  <2>1. ASSUME NEW mode, Process(mode) PROVE Kept
    <3>1. ~ioIntr /\ UNCHANGED <<load, ioIntr>>
      BY <2>1 DEF Process
    <3> QED
      BY <1>1, <3>1
  <2>2. ~Reload /\ ~ScanToIoIntr /\ ~ScanFromIoIntr
    BY DEF Reload, ScanToIoIntr, ScanFromIoIntr
  <2>3. CASE Pause
    BY <1>3, <2>3 DEF Pause
  <2>4. CASE Resume
    <3>1. load' = <<"rerun", "wait", "async">>
      BY <2>4, NextTasks, Zenon DEF Resume, NextTask, Loading
    <3> QED
      BY <1>3, <3>1
  <2> QED
    BY <1>11, <2>1, <2>2, <2>3, <2>4 DEF UserStep
<1> QED
  BY <1>4, <1>5, <1>6, <1>7, <1>8, <1>9, <1>10, <1>11 DEF RecordNext

(* An "I/O Intr" record that is loaded once never stops listening, however *)
(* often the IOC is paused and resumed.                                    *)
THEOREM PausedRecordListens ==
  CanListen /\ NeverConnects /\ ~Reloads /\ ~ScanChanges /\ RecordSpec => []KeepsListening
<1> SUFFICES ASSUME CanListen, NeverConnects, ~Reloads, ~ScanChanges
             PROVE  RecordSpec => []KeepsListening
  OBVIOUS
<1>1. RecordInit => NoInitWhileListening
  <2>1. <<"init", "wait", "async">> # <<>>
    OBVIOUS
  <2> QED
    BY <2>1 DEF RecordInit, NoInitWhileListening, StartTasks, Loading
<1>2. TasksInv /\ Unconnected /\ NoInitWhileListening /\ [RecordNext]_allVars
        => NoInitWhileListening'
  BY StepNoInit DEF NeverConnects
<1>3. RecordSpec => []Unconnected
  BY NothingConnects
<1>4. RecordSpec => []ListensAfterRun
  BY DisturbedRecordListens
<1>5. ListensAfterRun /\ NoInitWhileListening => KeepsListening
  BY DEF ListensAfterRun, NoInitWhileListening, KeepsListening
<1> QED
  BY <1>1, <1>2, <1>3, <1>4, <1>5, DisturbedTypes, PTL DEF RecordSpec
=============================================================================
