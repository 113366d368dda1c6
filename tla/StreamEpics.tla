---------------------------- MODULE StreamEpics -----------------------------
(***************************************************************************)
(* The EPICS record around the protocol engine (class Stream): record      *)
(* processing with PACT, the process callback that completes it, I/O Intr  *)
(* scanning, and initRecord(), which waits for the @init handler.          *)
(*                                                                         *)
(* Threads: scan threads process the record and the callback thread        *)
(* completes it, both under dbScanLock(record); the ioc shell loads and    *)
(* reloads it; the bus calls back into the engine as in StreamCore.        *)
(***************************************************************************)
EXTENDS StreamCore

CONSTANTS
  Reconnects,    \* the device may disconnect and connect by itself
  Unsolicited,   \* input may arrive that no read request asked for
  Reloads,       \* streamReload may run
  ScanChanges,   \* SCAN may be changed to and from "I/O Intr"
  Pauses,        \* iocPause and iocRun may run
  BootIoIntr,    \* whether SCAN is "I/O Intr" at boot: a set of answers
  MaxCallbacks   \* bound on the number of queued process callbacks

ASSUME StreamEpicsAssumption ==
  /\ {Reconnects, Unsolicited, Reloads, ScanChanges, Pauses} \subseteq BOOLEAN
  /\ BootIoIntr \subseteq BOOLEAN
  /\ MaxCallbacks \in Nat

Alarm == {"none", "TIMEOUT", "WRITE", "READ", "CALC", "COMM", "UDF"}

(* Who called startProtocol() and waits for its return value.              *)
Caller == {"nobody", "process", "restart", "scan", "load"}

(* What initRecord and the hooks around it still have to do; "resume" is   *)
(* left to the user.                                                       *)
Task == {"attach", "async", "init", "wait", "resume", "rerun"}

VARIABLES
  pact,         \* record->pact
  ioIntr,       \* record->scan == SCAN_IO_EVENT
  proc2,        \* record->proc == 2: @init runs as a normal protocol
  status,       \* Stream::status, the alarm of the last protocol
  callbacks,    \* how often processCallback is queued
  restart,      \* recordProcessCallback is about to restart the protocol
  initDone,     \* the event that initRecord waits for
  load,         \* what the loading thread still has to do
  caller

recordVars == <<pact, ioIntr, proc2, status, callbacks, restart, initDone, load, caller>>
allVars == <<vars, recordVars>>

Loading == load # <<>>
Booting == Loading /\ Last(load) = "async"
Free == NobodyInside /\ caller = "nobody"

(* iocInit: @init of every record first, then the I/O Intr protocols.      *)
RecordInit ==
  /\ Init
  /\ pact = FALSE /\ proc2 = FALSE /\ status = "none"
  /\ ioIntr \in BootIoIntr
  /\ callbacks = 0 /\ restart = FALSE /\ initDone = FALSE
  /\ load = <<"init", "wait", "async">> /\ caller = "nobody"

Starts(mode, by) ==
  /\ StartProtocol(mode)
  /\ ret' = IF call'.fn = "idle" THEN "false" ELSE "open"
  /\ caller' = by

(* startProtocol() has returned `value` to `by`, still under the mutex if  *)
(* `by` is process().                                                      *)
Returned(by, value) ==
  /\ call = Idle /\ caller = by /\ ret = value
  /\ ret' = "none" /\ caller' = "nobody"
  /\ UNCHANGED <<protocol, flags, programVars, inputVars, call, busVars>>
-----------------------------------------------------------------------------
(* Record processing: process(), called by streamReadWrite() *)

(* Mutant: an active record is processed again.                            *)
MutProcessActive(mode) ==
  /\ Free /\ ~ioIntr /\ ~Booting
  /\ status' = "none" /\ proc2' = (mode = "StartInit")
  /\ Starts(mode, "process")
  /\ UNCHANGED <<pact, ioIntr, callbacks, restart, initDone, load>>

(* A scan processes the record: PACT = 0 and not "I/O Intr".  Scanning     *)
(* begins after iocInit and goes on while streamReload is at work.         *)
Process(mode) ==
  /\ Free /\ ~pact /\ ~ioIntr /\ ~Booting
  /\ status' = "none" /\ proc2' = (mode = "StartInit")
  /\ Starts(mode, "process")
  /\ UNCHANGED <<pact, ioIntr, callbacks, restart, initDone, load>>

ProcessStarted ==
  /\ Returned("process", "true")
  /\ pact' = TRUE
  /\ UNCHANGED <<ioIntr, proc2, status, callbacks, restart, initDone, load>>

(* The protocol could not be started: the record completes at once.        *)
ProcessFailed ==
  /\ Returned("process", "false")
  /\ proc2' = FALSE
  /\ UNCHANGED <<pact, ioIntr, status, callbacks, restart, initDone, load>>

(* Mutant: the callback stays queued.                                      *)
MutCallbackStays ==
  /\ Free /\ callbacks > 0 /\ ~restart
  /\ \/ /\ pact \/ ioIntr
        /\ pact' = FALSE /\ proc2' = FALSE
        /\ restart' = (ioIntr /\ ~Has("Aborted"))
        /\ UNCHANGED <<status, vars, caller>>
     \/ /\ ~pact /\ ~ioIntr
        /\ status' = "none"
        /\ Starts("StartNormal", "process")
        /\ UNCHANGED <<pact, proc2, restart>>
  /\ UNCHANGED <<ioIntr, callbacks, initDone, load>>

(* recordProcessCallback(): the record is processed again, which completes *)
(* it; an "I/O Intr" protocol is then restarted.                           *)
ProcessCallback ==
  /\ Free /\ callbacks > 0 /\ ~restart
  /\ callbacks' = callbacks - 1
  /\ \/ /\ pact \/ ioIntr
        /\ pact' = FALSE /\ proc2' = FALSE
        /\ restart' = (ioIntr /\ ~Has("Aborted"))
        /\ UNCHANGED <<status, vars, caller>>
     \/ /\ ~pact /\ ~ioIntr
        /\ status' = "none"
        /\ Starts("StartNormal", "process")
        /\ UNCHANGED <<pact, proc2, restart>>
  /\ UNCHANGED <<ioIntr, initDone, load>>

(* Mutant: the restart is forgotten.                                       *)
MutNoRestart ==
  /\ Free /\ restart
  /\ restart' = FALSE
  /\ UNCHANGED <<vars, pact, ioIntr, proc2, status, callbacks, initDone, load, caller>>

Restart ==
  /\ Free /\ restart
  /\ restart' = FALSE
  /\ Starts("StartAsync", "restart")
  /\ UNCHANGED <<pact, ioIntr, proc2, status, callbacks, initDone, load>>

(* Callers that only print an error message if the start fails.            *)
StartIgnored ==
  /\ \E by \in {"restart", "scan"}, value \in {"true", "false"} : Returned(by, value)
  /\ UNCHANGED <<pact, ioIntr, proc2, status, callbacks, restart, initDone, load>>
-----------------------------------------------------------------------------
(* protocolFinishHook() *)

AlarmOf == [Success |-> "none", LockTimeout |-> "TIMEOUT", ReplyTimeout |-> "TIMEOUT",
  WriteTimeout |-> "WRITE", ReadTimeout |-> "READ", ScanError |-> "CALC",
  FormatError |-> "CALC", Offline |-> "COMM", Abort |-> "UDF", Fault |-> "UDF"]

(* Mutant: only "I/O Intr" records are completed.                          *)
MutOnlyIoIntr == ioIntr

(* Whether the end of a protocol completes the record.                     *)
CallbackDue == pact \/ ioIntr

(* Mutant: initRecord hears only of an @init handler that succeeds.        *)
MutInitFails(result, fl) ==
  /\ status' = AlarmOf[result]
  /\ flags' = fl
  /\ initDone' = (initDone \/ (proc2 = FALSE /\ result = "Success"))
  /\ UNCHANGED callbacks

(* The end of an @init run only wakes up initRecord; any other end queues  *)
(* the process callback.  `fl` are the flags the hook finds.               *)
HookEffect(result, fl) ==
  /\ status' = AlarmOf[result]
  /\ IF "InitRun" \in fl /\ "Aborted" \notin fl /\ ~proc2
     THEN initDone' = TRUE /\ flags' = fl /\ UNCHANGED callbacks
     ELSE /\ flags' = IF result # "Abort" /\ ioIntr THEN fl \cup {"AcceptInput"} ELSE fl
          /\ callbacks' = IF CallbackDue /\ callbacks < MaxCallbacks
                          THEN callbacks + 1 ELSE callbacks
          /\ UNCHANGED initDone

ProtocolFinishHook ==
  /\ call.fn = "hook"
  /\ HookEffect(call.status, flags)
  /\ call' = Idle
  /\ UNCHANGED <<protocol, programVars, inputVars, ret, busVars,
                 pact, ioIntr, proc2, restart, load, caller>>
-----------------------------------------------------------------------------
(* Loading: initRecord(), and streamReload() on a running record *)

NextTask(task) == Free /\ Loading /\ Head(load) = task

LoadAsync ==
  /\ NextTask("async")
  /\ load' = Tail(load)
  /\ IF ioIntr THEN Starts("StartAsync", "scan")
               ELSE UNCHANGED <<vars, caller>>
  /\ UNCHANGED <<pact, ioIntr, proc2, status, callbacks, restart, initDone>>

LoadInit ==
  /\ NextTask("init")
  /\ IF protocol["onInit"] = <<>>
     THEN load' = Tail(Tail(load)) /\ UNCHANGED <<vars, caller>>
     ELSE load' = Tail(load) /\ Starts("StartInit", "load")
  /\ UNCHANGED <<pact, ioIntr, proc2, status, callbacks, restart, initDone>>

(* If the @init handler cannot be started, initRecord does not wait.       *)
LoadStarted ==
  /\ \/ Returned("load", "true") /\ UNCHANGED load
     \/ Returned("load", "false") /\ load' = Tail(load)
  /\ UNCHANGED <<pact, ioIntr, proc2, status, callbacks, restart, initDone>>

(* Mutant: initRecord does not wait.                                       *)
MutNoWait ==
  /\ NextTask("wait")
  /\ initDone' = FALSE /\ load' = Tail(load)
  /\ UNCHANGED <<vars, pact, ioIntr, proc2, status, callbacks, restart, caller>>

LoadWait ==
  /\ NextTask("wait") /\ initDone
  /\ initDone' = FALSE /\ load' = Tail(load)
  /\ UNCHANGED <<vars, pact, ioIntr, proc2, status, callbacks, restart, caller>>

(* streamInitRecord() on a record in use: abort the protocol (here while   *)
(* nobody is inside the engine; StreamCore has the race) ...               *)
Reload ==
  /\ Reloads /\ Free /\ ~Loading
  /\ load' = <<"attach", "async", "init", "wait">>
  /\ AbortProtocol /\ HookEffect("Abort", AbortFlags)
  /\ UNCHANGED <<pact, ioIntr, proc2, restart, caller>>

(* ... then attachBus(): the old bus interface is destroyed, and with it   *)
(* all its requests.                                                       *)
LoadAttach ==
  /\ NextTask("attach")
  /\ load' = Tail(load) /\ status' = "none"
  /\ outstanding' = outstanding \cap {"timer", "exec"} /\ late' = {}
  /\ busLocks' = IF Has("BusOwner") THEN busLocks - 1 ELSE busLocks
  /\ UNCHANGED <<protocol, flags, programVars, inputVars, call, ret, pact, ioIntr,
                 proc2, callbacks, restart, initDone, caller>>

(* iocPause: the hook comes before the scan tasks stop, which only passive *)
(* records would notice, and those it leaves alone.                        *)
Pause ==
  /\ Pauses /\ Free /\ ~Loading
  /\ load' = <<"resume", "rerun", "wait", "async">>
  /\ IF ioIntr THEN AbortProtocol /\ HookEffect("Abort", AbortFlags)
               ELSE UNCHANGED <<vars, status, callbacks, initDone>>
  /\ UNCHANGED <<pact, ioIntr, proc2, restart, caller>>

Resume ==
  /\ NextTask("resume")
  /\ load' = Tail(load)
  /\ UNCHANGED <<vars, pact, ioIntr, proc2, status, callbacks, restart, initDone, caller>>

(* iocRun runs @init once more, and waits for it even if its start failed. *)
LoadRerun ==
  /\ NextTask("rerun")
  /\ IF protocol["onInit"] = <<>>
     THEN load' = Tail(Tail(load)) /\ UNCHANGED <<vars, caller>>
     ELSE load' = Tail(load) /\ Starts("StartInit", "scan")
  /\ UNCHANGED <<pact, ioIntr, proc2, status, callbacks, restart, initDone>>

(* Mutant: SCAN changes, but no protocol is started.                       *)
MutNoStart ==
  /\ ScanChanges /\ Free /\ ~Loading /\ ~ioIntr
  /\ ioIntr' = TRUE
  /\ UNCHANGED <<vars, pact, proc2, status, callbacks, restart, initDone, load, caller>>

(* streamGetIointInfo(): SCAN becomes "I/O Intr", or no longer is.  The    *)
(* abort comes before record->scan changes.                                *)
ScanToIoIntr ==
  /\ ScanChanges /\ Free /\ ~Loading /\ ~ioIntr
  /\ ioIntr' = TRUE
  /\ Starts("StartAsync", "scan")
  /\ UNCHANGED <<pact, proc2, status, callbacks, restart, initDone, load>>

ScanFromIoIntr ==
  /\ ScanChanges /\ Free /\ ~Loading /\ ioIntr
  /\ ioIntr' = FALSE
  /\ AbortProtocol /\ HookEffect("Abort", AbortFlags)
  /\ UNCHANGED <<pact, proc2, restart, load, caller>>
-----------------------------------------------------------------------------
(* Specifications *)

EngineRuns == ProtocolStep /\ UNCHANGED recordVars

CallerStep == ProcessStarted \/ ProcessFailed \/ StartIgnored \/ LoadStarted

LoadStep == LoadAsync \/ LoadInit \/ LoadWait \/ LoadAttach \/ LoadRerun

CallbackStep == ProcessCallback \/ Restart

BusStep ==
  /\ \/ AnswerStep \/ SkipObsolete
     \/ Unsolicited /\ EarlyInputStep
     \/ Reconnects /\ (DisconnectStep \/ AsyncConnect)
  /\ UNCHANGED recordVars

UserStep ==
  \/ \E mode \in {"StartNormal", "StartInit"} : Process(mode)
  \/ Reload \/ ScanToIoIntr \/ ScanFromIoIntr \/ Pause \/ Resume

RecordNext ==
  /\ \/ EngineRuns \/ ProtocolFinishHook \/ CallerStep
     \/ LoadStep \/ CallbackStep \/ BusStep \/ UserStep
  /\ Bounded

RecordSpec == RecordInit /\ [][RecordNext]_allVars

(* Threads inside the engine go on, the bus answers what has a timeout,    *)
(* and the callback thread and the loading thread get their turn.          *)
RecordFairness ==
  /\ WF_allVars(EngineRuns \/ ProtocolFinishHook \/ CallerStep)
  /\ SF_allVars(AnswerStep /\ ~WaitsWithoutLimit /\ UNCHANGED recordVars)
  /\ SF_allVars(CallbackStep) /\ SF_allVars(LoadStep)

FairRecordSpec == RecordSpec /\ RecordFairness
-----------------------------------------------------------------------------
(* Properties *)

(* A record that is being processed (PACT = 1) has a protocol running or a *)
(* process callback queued that will complete it ("After the protocol has  *)
(* finished, the record is processed again, leaving PACT=0 this time",     *)
(* processing.html:28).                                                    *)
PactEnds == call = Idle /\ caller = "nobody" /\ pact
              => activeCommand # "end" \/ callbacks > 0

(* A protocol is going on.                                                 *)
Running ==
  \/ activeCommand # "end"
  \/ ~(call.fn = "idle" \/ (call.fn = "readCallback" /\ call.source = "early"))

(* No protocol end is delivered twice, nor before the next protocol is     *)
(* over: at most one process callback is queued, and only while neither a  *)
(* protocol runs nor its restart is due.                                   *)
OneCompletion == callbacks <= 1 /\ (callbacks = 1 => ~restart /\ ~Running)

(* The alarm of a finished protocol is still the one to report when the    *)
(* process callback completes the record.                                  *)
AlarmKept ==
  [][ pact /\ callbacks > 0 /\ callbacks' >= callbacks => status' = status ]_allVars

(* The record uses its engine as StreamCore's Spec says: it starts no      *)
(* protocol while another one runs, takes the value that startProtocol()   *)
(* returned, and the finish hook lets in only the early input of an        *)
(* asynchronous protocol.  Whatever is proved of the engine alone then     *)
(* holds in a record, in particular that its start forgets no lock ("the   *)
(* device is unlocked when the protocol terminates", processing.html:44).  *)
EngineUsedAsSpecified == Spec

(* initRecord() does not return before the @init handler has finished      *)
(* (processing.html:110).                                                  *)
InitBeforeReturn ==
  [][ LoadWait => ~(Has("InitRun") /\ activeCommand # "end") ]_allVars

(* An "I/O Intr" record that is loaded never stops listening: its protocol *)
(* runs, or waits for the bus or the timer before its error handler runs,  *)
(* or the process callback that restarts it is on its way.                 *)
Listens ==
  \/ activeCommand # "end" \/ flags \cap BusPending # {}
  \/ callbacks > 0 \/ restart
KeepsListening == Free /\ ioIntr /\ ~Loading => Listens

(* The same while SCAN changes, protocols are reloaded and the IOC is      *)
(* paused and resumed, unless the record was left by an @init run, which   *)
(* nothing restarts.                                                       *)
ListensAfterRun == Free /\ ioIntr /\ ~Loading /\ ~Has("InitRun") => Listens

(* Every record processing completes, or its protocol hangs for good in a  *)
(* wait without limit, such as the lock of an @init run.                   *)
ProcessingCompletes == pact ~> (~pact \/ []WaitsWithoutLimit)

(* initRecord() returns, or the @init handler that it waits for hangs      *)
(* ("block here"): the end of the handler is never lost.                   *)
LoadingCompletes == Loading ~> (~Loading \/ []WaitsWithoutLimit)
-----------------------------------------------------------------------------
(* The inductive invariant behind EngineUsedAsSpecified and OneCompletion, *)
(* for records that are neither reloaded nor paused nor change their SCAN, *)
(* and devices that do not reconnect                                           *)

(* Nobody but the record starts or aborts protocols, and the bus refuses   *)
(* only requests whose refusal ends the protocol.                          *)
Undisturbed ==
  ~Reconnects /\ ~Reloads /\ ~ScanChanges /\ ~Pauses /\ RefusalsEnd

(* Connects and disconnects answer the command of that name only.          *)
Solicited ==
  /\ call.fn = "connectCallback" => activeCommand = "connect"
  /\ call.fn = "disconnectCallback" => activeCommand = "disconnect"

(* A protocol whose start has failed is ending, without a handler.         *)
FailedStart ==
  ret = "false" =>
    \/ call.fn = "finish" /\ call.status \in {"FormatError", "Offline", "Fault"}
    \/ call.fn \in {"cleanup", "hook"}
    \/ call.fn = "idle" /\ activeCommand = "end"

RecordTypes ==
  /\ pact \in BOOLEAN /\ ioIntr \in BOOLEAN /\ proc2 \in BOOLEAN
  /\ restart \in BOOLEAN /\ initDone \in BOOLEAN
  /\ callbacks \in Nat /\ caller \in Caller

(* Before scanning begins, only the @init handler runs.                    *)
LoadingInv ==
  \/ /\ load = <<"init", "wait", "async">> /\ ~Running /\ ~initDone /\ caller = "nobody"
  \/ /\ load = <<"wait", "async">> /\ caller \in {"nobody", "load"}
     /\ Running => Has("InitRun") /\ ~initDone
  \/ load = <<"async">> /\ ~Running /\ caller = "nobody"
  \/ load = <<>>

NotScanned == Loading => ~pact /\ ~proc2 /\ callbacks = 0 /\ ~restart

(* Afterwards each protocol is that of a record that waits for it, and at  *)
(* most one of its end, the process callback, and the restart is to come.  *)
ScannedInv ==
  ~Loading =>
    /\ caller # "load"
    /\ Running => callbacks = 0 /\ ~restart /\ (ioIntr \/ pact \/ caller = "process")
    /\ callbacks > 0 => callbacks = 1 /\ ~restart /\ (pact \/ ioIntr)
    /\ ioIntr => ~pact /\ caller # "process" /\ (Running => Has("AsyncMode"))
    /\ ~ioIntr => ~restart
    /\ caller = "process" => ~pact /\ callbacks = 0

RecordInv == RecordTypes /\ Solicited /\ FailedStart /\ LoadingInv /\ NotScanned /\ ScannedInv
-----------------------------------------------------------------------------
(* The inductive invariants behind KeepsListening and ListensAfterRun,     *)
(* which hold in a record that is disturbed in every way.                  *)

(* What an "I/O Intr" record needs: a protocol, and a bus that can read    *)
(* asynchronously.                                                         *)
CanListen ==
  AsyncBus /\ MaxCallbacks > 0 /\ \A p \in Protocols : p["commands"] # <<>>

HasInit == \A p \in Protocols : p["onInit"] # <<>>

(* Nothing connects the device, neither itself nor a command.              *)
NeverConnects ==
  /\ ~Reconnects
  /\ \A p \in Protocols, b \in Block : \A i \in DOMAIN p[b] : p[b][i].op # "connect"
Unconnected ==
  /\ "connect" \notin outstanding \cup late
  /\ call.fn \notin {"connect", "connectCallback"}

(* The tasks left to the loading thread, at boot and later.                *)
StartTasks == {<<>>, <<"async">>, <<"wait", "async">>, <<"init", "wait", "async">>,
               <<"rerun", "wait", "async">>, <<"resume", "rerun", "wait", "async">>}
ReloadTasks == {<<"attach", "async", "init", "wait">>, <<"async", "init", "wait">>,
                <<"init", "wait">>, <<"wait">>, <<>>}
TasksInv ==
  /\ load \in StartTasks \cup ReloadTasks
  /\ caller = "load" => load \in {<<"wait", "async">>, <<"wait">>}
  /\ callbacks \in Nat

(* The protocol has been started in "I/O Intr" mode, and unless an @init   *)
(* run came since, it goes on, or its restart is to come.                  *)
Subscribed == ioIntr /\ load \in {<<>>, <<"wait">>, <<"init", "wait">>}
GoesOn ==
  \/ Listens
  \/ call.fn \in {"evalCommand", "end", "finish", "cleanup", "hook"}
ListenInv ==
  Subscribed => ~Has("Aborted") /\ (~Has("InitRun") => GoesOn)

(* Only boot, iocRun and a connect run @init, and the first two start the  *)
(* "I/O Intr" protocol afterwards.                                         *)
NoInitWhileListening == load \in StartTasks /\ (ioIntr /\ ~Loading => ~Has("InitRun"))
=============================================================================
