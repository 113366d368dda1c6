----------------------------- MODULE AsynDriver -----------------------------
(***************************************************************************)
(* The bus driver for asynDriver ports (class AsynDriverInterface): the    *)
(* interfaces of several records on one port.  Four kinds of threads meet  *)
(* in an interface, and its ioAction has no lock:                          *)
(*   - the record's thread and whoever evaluates its protocol make the     *)
(*     requests (lockRequest, writeRequest, ... finish);                   *)
(*   - the one port thread executes queued requests (handleRequest) and,   *)
(*     inside the read of any interface, hands the input to all that       *)
(*     registered for it (asynReadHandler);                                *)
(*   - the timer thread runs timerExpired() and handleTimeout();           *)
(*   - driver threads report events and (dis)connects.                     *)
(* The engine behind an interface (StreamCore) is here only what it waits  *)
(* for and which command it evaluates next; the queue of asynManager is    *)
(* one slot per interface, with the request that was put there.            *)
(***************************************************************************)
EXTENDS Naturals, FiniteSets

CONSTANTS
  Clients,         \* the records on the port
  Listeners,       \* those that registered for asynchronous input
  Commands,        \* commands a synchronous protocol may contain
  ListenCommands,  \* commands an asynchronous one may contain besides `in`
  Event,           \* the event bits
  Polling,         \* TRUE: listeners poll the port (PollPeriod is not 0)
  NoClient

Request == {"lock", "write", "read", "poll", "connect", "disconnect"}
IoAction == {"None", "Lock", "Write", "Read", "AsyncRead", "AsyncReadMore",
             "ReceiveEvent", "Connect", "Disconnect"}
EngineCommand == {"out", "in", "event", "connect", "disconnect"}

(* What the engine waits for.  "idle": no protocol runs; "eval": it is     *)
(* evaluating the next command; "async": for input, whoever reads it.      *)
Waiting == {"idle", "eval", "lock", "write", "read", "async", "event",
            "connect", "disconnect"}

(* Requests that are queued with a timeout, unless it is 0, as for the lock *)
(* of an @init run ("block here"); and those the port thread takes even if *)
(* the port is locked by another record or disconnected.                   *)
TimedRequest == {"lock", "write", "read", "connect"}
ConnectRequests == {"connect", "disconnect"}

(* Mutant: a disconnect is filed as something handleRequest() has no case  *)
(* for.                                                                    *)
MutActionOf == [lock |-> "Lock", write |-> "Write", read |-> "Read",
                connect |-> "Connect", disconnect |-> "Finish"]

ActionOf == [lock |-> "Lock", write |-> "Write", read |-> "Read",
             connect |-> "Connect", disconnect |-> "Disconnect"]

ASSUME AsynAssumption ==
  /\ Listeners \subseteq Clients
  /\ Commands \subseteq EngineCommand /\ ListenCommands \subseteq EngineCommand
  /\ Polling \in BOOLEAN
  /\ NoClient \notin Clients

VARIABLES
  link,          \* the device is connected
  connected,     \* AsynDriverInterface::connected
  ioAction,      \* AsynDriverInterface::ioAction
  slot,          \* the request in the port's queue, "empty" if there is none
  timer,         \* the interface's timer runs
  expiring,      \* timerExpired() has seen AsyncRead but not yet queued a poll
  holder,        \* who has called blockProcessCallback()
  port,          \* what the port thread is executing, and for whom
  wait,          \* what the engine waits for
  refused,       \* ... a request that was refused
  timed,         \* ... with a timeout: the request in the queue, or the event
  lockTimed,     \* ... with a lock whose timeout is not -1, "block here"
  eventMask, receivedEvent

queueVars == <<ioAction, slot>>
timerVars == <<timer, expiring>>
clientVars == <<wait, refused>>
limitVars == <<timed, lockTimed>>
eventVars == <<eventMask, receivedEvent>>
vars ==
  <<link, connected, queueVars, timerVars, holder, port, clientVars, limitVars, eventVars>>

(* The steps of a handler that may take time: old input is discarded, the  *)
(* device is written, or is read for the first byte, or for more; `got`: a *)
(* read has returned data.                                                 *)
PortStep == {"idle", "discard", "write", "read", "more", "got"}

TypeOK ==
  /\ link \in BOOLEAN
  /\ connected \in [Clients -> BOOLEAN]
  /\ ioAction \in [Clients -> IoAction]
  /\ slot \in [Clients -> Request \cup {"empty"}]
  /\ timer \in [Clients -> BOOLEAN] /\ expiring \in [Clients -> BOOLEAN]
  /\ holder \in Clients \cup {NoClient}
  /\ port \in [at : PortStep, who : Clients \cup {NoClient}]
  /\ wait \in [Clients -> Waiting]
  /\ refused \in [Clients -> BOOLEAN]
  /\ timed \in [Clients -> BOOLEAN] /\ lockTimed \in [Clients -> BOOLEAN]
  /\ eventMask \in [Clients -> SUBSET Event]
  /\ receivedEvent \in [Clients -> SUBSET Event]

Init ==
  /\ link = TRUE /\ connected = [i \in Clients |-> TRUE]
  /\ ioAction = [i \in Clients |-> "None"] /\ slot = [i \in Clients |-> "empty"]
  /\ timer = [i \in Clients |-> FALSE] /\ expiring = [i \in Clients |-> FALSE]
  /\ holder = NoClient
  /\ port = [at |-> "idle", who |-> NoClient]
  /\ wait = [i \in Clients |-> "idle"] /\ refused = [i \in Clients |-> FALSE]
  /\ timed = [i \in Clients |-> FALSE] /\ lockTimed = [i \in Clients |-> FALSE]
  /\ eventMask = [i \in Clients |-> {}] /\ receivedEvent = [i \in Clients |-> {}]
-----------------------------------------------------------------------------
(* Helpers *)

Set(f, i, value) == f' = [f EXCEPT ![i] = value]

(* pasynManager->queueRequest() accepts a request if the interface has no  *)
(* other one in the queue and, unless it is about the connection itself,   *)
(* the device is connected.                                                *)
CanQueue(i, request) ==
  slot[i] = "empty" /\ (link \/ request \in ConnectRequests)

(* The client takes what it got and evaluates its next command.  (Nothing  *)
(* else of the client, of its record or of the port happens before.)       *)
Evaluates(i) == Set(wait, i, "eval") /\ Set(timed, i, FALSE)

NobodyEvaluates == \A j \in Clients : wait[j] # "eval"

PortIdle == port' = [at |-> "idle", who |-> NoClient]

Unlock(i) == holder' = IF holder = i THEN NoClient ELSE holder

(* finish(), preceded by unlock() if the client has the lock.              *)
Finish(i) ==
  /\ Unlock(i)
  /\ Set(timer, i, FALSE) /\ Set(ioAction, i, "None")
  /\ Set(wait, i, "idle") /\ Set(refused, i, FALSE)
  /\ Set(timed, i, FALSE) /\ Set(lockTimed, i, FALSE)
-----------------------------------------------------------------------------
(* The requests, made by the engine while it evaluates a command *)

Command(i, op) ==
  /\ wait[i] = "eval"
  /\ op \in IF i \in Listeners THEN ListenCommands \cup {"in"} ELSE Commands

(* A request in the queue; or one that is refused, of which the engine     *)
(* waits for an answer all the same (it ignores the result false).         *)
Queue(i, request, limited) ==
  /\ limited => request \in TimedRequest
  /\ Set(timed, i, limited)
  /\ Set(ioAction, i, ActionOf[request])
  /\ Set(wait, i, request)
  /\ IF CanQueue(i, request) THEN Set(slot, i, request) /\ UNCHANGED refused
                             ELSE Set(refused, i, TRUE) /\ UNCHANGED slot

(* lockRequest() (if refused, the protocol ends offline) or, on a bus that *)
(* is already locked, writeRequest().                                      *)
EvalOut(i, limited) ==
  /\ Command(i, "out")
  /\ IF holder = i
     THEN Queue(i, "write", limited) /\ UNCHANGED <<timer, holder, lockTimed>>
     ELSE IF CanQueue(i, "lock")
     THEN /\ Queue(i, "lock", limited) /\ Set(lockTimed, i, limited)
          /\ UNCHANGED <<timer, holder>>
     ELSE Finish(i) /\ UNCHANGED slot
  /\ UNCHANGED <<link, connected, expiring, port, eventVars>>

(* readRequest(async = false)                                              *)
EvalIn(i, limited) ==
  /\ i \notin Listeners /\ Command(i, "in")
  /\ Queue(i, "read", limited)
  /\ UNCHANGED <<lockTimed, link, connected, timerVars, holder, port, eventVars>>

(* Mutant: a poll that cannot be queued is not tried again.                *)
MutNoRetry(i) ==
  /\ Set(ioAction, i, "AsyncRead") /\ Set(wait, i, "async")
  /\ IF CanQueue(i, "poll") THEN Set(slot, i, "poll") ELSE UNCHANGED slot
  /\ UNCHANGED <<timer, refused>>

(* readRequest(async = true): a poll that cannot be queued is tried again  *)
(* later.                                                                  *)
AsyncReadRequest(i) ==
  /\ Set(ioAction, i, "AsyncRead") /\ Set(wait, i, "async")
  /\ IF CanQueue(i, "poll") THEN Set(slot, i, "poll") /\ UNCHANGED timer
                            ELSE Set(timer, i, TRUE) /\ UNCHANGED slot
  /\ UNCHANGED refused

EvalAsyncIn(i) ==
  /\ i \in Listeners /\ Command(i, "in")
  /\ AsyncReadRequest(i)
  /\ Unlock(i)
  /\ UNCHANGED <<limitVars, link, connected, expiring, port, eventVars>>

(* Mutant: the timeout is that of an event which came already.             *)
MutEvalEvent(i, mask, limited) ==
  /\ Command(i, "event")
  /\ IF receivedEvent[i] # {}
     THEN Set(receivedEvent, i, {}) /\ UNCHANGED timer
     ELSE Set(timer, i, timer[i] \/ limited) /\ UNCHANGED receivedEvent
  /\ Set(eventMask, i, mask) /\ Set(ioAction, i, "ReceiveEvent")
  /\ Set(wait, i, "event") /\ Set(timed, i, limited)
  /\ UNCHANGED <<link, connected, slot, expiring, holder, port, refused, lockTimed>>

(* acceptEvent().  Without a timeout no timer is started; one that still   *)
(* runs for an event before goes on.                                       *)
EvalEvent(i, mask, limited) ==
  /\ Command(i, "event")
  /\ IF receivedEvent[i] \cap mask # {}
     THEN /\ Set(receivedEvent, i, {})
          /\ UNCHANGED <<eventMask, ioAction, timer, wait, timed>>
     ELSE /\ Set(eventMask, i, mask) /\ Set(ioAction, i, "ReceiveEvent")
          /\ Set(timer, i, timer[i] \/ limited)
          /\ Set(wait, i, "event") /\ Set(timed, i, limited)
          /\ UNCHANGED receivedEvent
  /\ UNCHANGED <<link, connected, slot, expiring, holder, port, refused, lockTimed>>

EvalConnect(i, request, limited) ==
  /\ request \in ConnectRequests /\ Command(i, request)
  /\ Queue(i, request, limited)
  /\ UNCHANGED <<lockTimed, link, connected, timerVars, holder, port, eventVars>>

(* The protocol ends, for whatever reason.                                 *)
EvalEnd(i) ==
  /\ wait[i] = "eval"
  /\ Finish(i)
  /\ UNCHANGED <<link, connected, slot, expiring, port, eventVars>>

(* The record starts a protocol.                                           *)
Start(i) ==
  /\ wait[i] = "idle" /\ NobodyEvaluates
  /\ Evaluates(i)
  /\ UNCHANGED <<lockTimed, link, connected, queueVars, timerVars, holder, port,
                 refused, eventVars>>
-----------------------------------------------------------------------------
(* The port thread: handleRequest() and the handlers *)

(* The port thread takes a request of i out of the queue.  While a record  *)
(* has locked the port, only that record's requests are executed.          *)
Dequeues(i) ==
  /\ NobodyEvaluates
  /\ port.at = "idle" /\ slot[i] # "empty"
  /\ slot[i] \in ConnectRequests \/ (link /\ holder \in {i, NoClient})
  /\ Set(timer, i, FALSE)

(* An obsolete poll, see asynReadHandler(); or an event is waited for.     *)
HandleObsolete(i) ==
  /\ Dequeues(i) /\ ioAction[i] \in {"None", "ReceiveEvent"}
  /\ Set(slot, i, "empty")
  /\ UNCHANGED <<limitVars, link, connected, ioAction, expiring, holder, port,
                 clientVars, eventVars>>

(* lockHandler(): the engine writes at once, which is not refused because  *)
(* the queue has just been left.                                           *)
LockHandler(i, limited) ==
  /\ Dequeues(i) /\ ioAction[i] = "Lock" /\ wait[i] = "lock"
  /\ holder' = i
  /\ Set(slot, i, "write") /\ Set(ioAction, i, "Write") /\ Set(wait, i, "write")
  /\ Set(timed, i, limited)
  /\ UNCHANGED <<lockTimed, link, connected, expiring, port, refused, eventVars>>

(* blockProcessCallback() fails.                                           *)
LockFault(i) ==
  /\ NobodyEvaluates /\ port.at = "idle" /\ link /\ holder = NoClient
  /\ slot[i] # "empty" /\ ioAction[i] = "Lock" /\ wait[i] = "lock"
  /\ Set(slot, i, "empty")
  /\ Finish(i)
  /\ UNCHANGED <<link, connected, expiring, port, eventVars>>

(* Mutant: the input is forced upon interfaces that did not ask for it.    *)
MutAsynReadHandler(done) ==
  /\ ioAction' = [j \in Clients |->
       IF wait[j] = "async" /\ j \notin done THEN "AsyncReadMore" ELSE "None"]
  /\ timer' = [j \in Clients |->
       timer[j] \/ (j \in Listeners \ done /\ wait[j] = "async")]
  /\ wait' = [j \in Clients |->
       IF j \in done /\ wait[j] = "async" THEN "eval" ELSE wait[j]]

(* asynReadHandler(), called for the listeners in `done` with the end of a *)
(* message and for the others with a part of it.  Either makes a queued    *)
(* poll obsolete.  Only a client that waits for input evaluates it; others *)
(* keep it for later.                                                      *)
AsynReadHandler(done) ==
  /\ ioAction' = [j \in Clients |->
       IF j \notin Listeners THEN ioAction[j]
       ELSE IF wait[j] = "async" /\ j \notin done THEN "AsyncReadMore" ELSE "None"]
  /\ timer' = [j \in Clients |->
       timer[j] \/ (j \in Listeners \ done /\ wait[j] = "async")]
  /\ wait' = [j \in Clients |->
       IF j \in done /\ wait[j] = "async" THEN "eval" ELSE wait[j]]

(* writeHandler() begins by reading early input away ...                   *)
WriteHandler(i) ==
  /\ Dequeues(i) /\ ioAction[i] = "Write"
  /\ Set(slot, i, "empty")
  /\ port' = [at |-> "discard", who |-> i]
  /\ UNCHANGED <<limitVars, link, connected, ioAction, expiring, holder, clientVars,
                 eventVars>>

(* ... which listeners take notice of ...                                  *)
DiscardInput(i, done) ==
  /\ port = [at |-> "discard", who |-> i] /\ NobodyEvaluates /\ link
  /\ AsynReadHandler(done)
  /\ UNCHANGED <<limitVars, link, connected, slot, expiring, holder, port, refused,
                 eventVars>>

(* ... until there is no more.  Then early events are discarded.           *)
DiscardEnds(i) ==
  /\ port = [at |-> "discard", who |-> i] /\ NobodyEvaluates
  /\ Set(receivedEvent, i, {})
  /\ port' = [at |-> "write", who |-> i]
  /\ UNCHANGED <<limitVars, link, connected, queueVars, timerVars, holder, clientVars,
                 eventMask>>

(* The answer to a request, if the client still waits for it.              *)
Answer(i, request) ==
  /\ IF wait[i] = request THEN Evaluates(i) ELSE UNCHANGED <<wait, timed>>
  /\ IF wait[i] = request THEN Set(refused, i, FALSE) ELSE UNCHANGED refused

(* Mutant: the write is answered although its rest is queued again.        *)
MutWriteEnds(i) ==
  /\ port = [at |-> "write", who |-> i] /\ NobodyEvaluates
  /\ PortIdle
  /\ Answer(i, "write")
  /\ \/ UNCHANGED slot
     \/ CanQueue(i, "write") /\ Set(slot, i, "write")
  /\ UNCHANGED <<lockTimed, link, connected, ioAction, timerVars, holder, eventVars>>

(* writeHandler() ends: the output is written, or failed; or a part of it  *)
(* is written and the rest is queued again, with the timeout of the lock;  *)
(* or the device is gone.                                                  *)
WriteEnds(i) ==
  /\ port = [at |-> "write", who |-> i] /\ NobodyEvaluates
  /\ PortIdle
  /\ \/ Answer(i, "write") /\ UNCHANGED <<queueVars, timer, holder, lockTimed>>
     \/ /\ CanQueue(i, "write") /\ Set(slot, i, "write")
        /\ Set(timed, i, lockTimed[i])
        /\ UNCHANGED <<ioAction, timer, holder, clientVars, lockTimed>>
     \/ ~link /\ Finish(i) /\ UNCHANGED slot
  /\ UNCHANGED <<link, connected, expiring, eventVars>>

(* readHandler() begins, for a read or a poll.                             *)
ReadHandler(i) ==
  /\ Dequeues(i) /\ ioAction[i] \in {"Read", "AsyncRead", "AsyncReadMore"}
  /\ Set(slot, i, "empty")
  /\ port' = [at |-> "read", who |-> i]
  /\ UNCHANGED <<limitVars, link, connected, ioAction, expiring, holder, clientVars,
                 eventVars>>

Reading(i) == port.at \in {"read", "more"} /\ port.who = i /\ NobodyEvaluates

(* The device has sent something: all listeners get it, the reader's own   *)
(* interface among them, before read() returns to the reader.              *)
ReadData(i, done) ==
  /\ Reading(i) /\ link
  /\ AsynReadHandler(done)
  /\ port' = [at |-> "got", who |-> i]
  /\ UNCHANGED <<limitVars, link, connected, slot, expiring, holder, refused, eventVars>>

(* read() has returned data: a sync read delivers them, and reads on if    *)
(* the message is not complete; a poll ignores them and reads on.          *)
ReadReturns(i) ==
  /\ port = [at |-> "got", who |-> i] /\ NobodyEvaluates
  /\ \/ port' = [at |-> "more", who |-> i] /\ UNCHANGED <<clientVars, timed>>
     \/ ioAction[i] = "Read" /\ Answer(i, "read") /\ PortIdle
  /\ UNCHANGED <<lockTimed, link, connected, queueVars, timerVars, holder, eventVars>>

(* What readCallback() with a timeout or without a reply does to a         *)
(* listener that waits for input: it starts over, or it takes what it got. *)
ListenAgain(i) ==
  \/ wait[i] = "async" /\ AsyncReadRequest(i) /\ UNCHANGED timed
  \/ /\ wait[i] = "async" /\ port.at = "more" /\ Evaluates(i)
     /\ UNCHANGED <<queueVars, timer, refused>>
  \/ wait[i] # "async" /\ UNCHANGED <<queueVars, timer, clientVars, timed>>

(* Nothing (more) has come: a sync read answers with what it has or fails; *)
(* the first read of a poll starts the timer for the next poll; a later    *)
(* one lets the engine decide.                                             *)
ReadTimeout(i) ==
  /\ Reading(i) /\ PortIdle
  /\ \/ /\ i \notin Listeners
        /\ Answer(i, "read") /\ UNCHANGED <<queueVars, timer>>
     \/ /\ i \in Listeners /\ port.at = "read" /\ ioAction[i] = "AsyncRead"
        /\ Set(timer, i, timer[i] \/ Polling)
        /\ UNCHANGED <<queueVars, clientVars, timed>>
     \/ /\ i \in Listeners /\ ~(port.at = "read" /\ ioAction[i] = "AsyncRead")
        /\ ListenAgain(i)
  /\ UNCHANGED <<lockTimed, link, connected, expiring, holder, eventVars>>

(* The device is disconnected, or the read fails: the protocol ends.       *)
ReadFails(i) ==
  /\ Reading(i) /\ PortIdle
  /\ IF wait[i] \in {"read", "async"} \/ ~link THEN Finish(i)
     ELSE UNCHANGED <<ioAction, timer, holder, clientVars, limitVars>>
  /\ IF link THEN UNCHANGED connected ELSE Set(connected, i, FALSE)
  /\ UNCHANGED <<link, slot, expiring, eventVars>>

(* exceptionHandler(): every interface learns of the new state `up`, and   *)
(* an idle one tells its engine of a connect, which may run @init.         *)
Exception(up) ==
  /\ link' = up
  /\ connected' = [i \in Clients |-> up]
Inits(i) == link' /\ ioAction[i] = "None" /\ wait[i] = "idle"

(* connectHandler() and disconnectHandler()                                *)
ConnectHandler(i, inits) ==
  /\ Dequeues(i) /\ ioAction[i] \in {"Connect", "Disconnect"}
  /\ Set(slot, i, "empty")
  /\ LET request == IF ioAction[i] = "Connect" THEN "connect" ELSE "disconnect"
     IN  /\ Exception(request = "connect") \/ UNCHANGED <<link, connected>>
         /\ wait' = [j \in Clients |->
              IF (j = i /\ wait[i] = request) \/ (j \in inits /\ link' # link /\ Inits(j))
              THEN "eval" ELSE wait[j]]
  /\ UNCHANGED <<limitVars, ioAction, expiring, holder, port, refused, eventVars>>
-----------------------------------------------------------------------------
(* Timeouts *)

(* Mutant: the engine is not told of a timeout.                            *)
MutHandleTimeout(i) ==
  /\ NobodyEvaluates
  /\ slot[i] \in TimedRequest /\ timed[i]
  /\ Set(slot, i, "empty")
  /\ UNCHANGED <<limitVars, link, connected, ioAction, timerVars, holder, port,
                 clientVars, eventVars>>

(* handleTimeout(): the port thread did not come to the request in time.   *)
(* The lock and the read then end the protocol.                            *)
HandleTimeout(i) ==
  /\ NobodyEvaluates
  /\ slot[i] \in TimedRequest /\ timed[i]
  /\ Set(slot, i, "empty")
  /\ IF ioAction[i] \in {"Lock", "Read"} /\ wait[i] \in {"lock", "read"}
     THEN Finish(i)
     ELSE /\ \/ ioAction[i] = "Write" /\ Answer(i, "write")
             \/ ioAction[i] = "Connect" /\ Answer(i, "connect")
             \/ ioAction[i] \notin {"Write", "Connect"} /\ UNCHANGED <<clientVars, timed>>
          /\ UNCHANGED <<ioAction, timer, holder, lockTimed>>
  /\ UNCHANGED <<link, connected, expiring, port, eventVars>>

(* timerExpired(), by what the interface is doing when the timer runs out  *)
Expires(i, action) ==
  NobodyEvaluates /\ timer[i] /\ ~expiring[i] /\ ioAction[i] = action

(* An event did not come.  Its mask stays.                                 *)
EventTimeout(i) ==
  /\ Expires(i, "ReceiveEvent") /\ Set(timer, i, FALSE)
  /\ Set(ioAction, i, "None")
  /\ Answer(i, "event")
  /\ UNCHANGED <<lockTimed, link, connected, slot, expiring, holder, port, eventVars>>

(* No more has come of a message that began unasked: the engine takes what *)
(* it got, or waits for input again.                                       *)
MessageTaken(i) ==
  /\ Expires(i, "AsyncReadMore") /\ Set(timer, i, FALSE)
  /\ wait' = IF wait[i] = "async" THEN [wait EXCEPT ![i] = "eval"] ELSE wait
  /\ UNCHANGED <<limitVars, link, connected, queueVars, expiring, holder, port,
                 refused, eventVars>>
MessageDropped(i) ==
  /\ Expires(i, "AsyncReadMore") /\ wait[i] = "async"
  /\ Set(ioAction, i, "AsyncRead")
  /\ IF CanQueue(i, "poll") THEN Set(slot, i, "poll") /\ Set(timer, i, FALSE)
                            ELSE UNCHANGED <<slot, timer>>
  /\ UNCHANGED <<limitVars, link, connected, expiring, holder, port, clientVars, eventVars>>

(* The next poll is due: see TimerPoll.                                    *)
PollDue(i) ==
  /\ Expires(i, "AsyncRead") /\ Set(timer, i, FALSE)
  /\ Set(expiring, i, TRUE)
  /\ UNCHANGED <<limitVars, link, connected, queueVars, holder, port, clientVars,
                 eventVars>>

(* Whatever the timer was started for is over.                             *)
TimerIgnored(i) ==
  /\ \E action \in IoAction \ {"ReceiveEvent", "AsyncReadMore", "AsyncRead"} :
        Expires(i, action)
  /\ Set(timer, i, FALSE)
  /\ UNCHANGED <<limitVars, link, connected, queueVars, expiring, holder, port,
                 clientVars, eventVars>>

(* The rest of timerExpired() for a poll, at any later time: meanwhile     *)
(* other threads may have got input or made other requests.                *)
TimerPoll(i) ==
  /\ expiring[i]
  /\ Set(expiring, i, FALSE)
  /\ IF connected[i] /\ CanQueue(i, "poll")
     THEN Set(slot, i, "poll") /\ UNCHANGED timer
     ELSE Set(timer, i, TRUE) /\ UNCHANGED slot
  /\ UNCHANGED <<limitVars, link, connected, ioAction, holder, port, clientVars, eventVars>>
-----------------------------------------------------------------------------
(* Events and connection changes *)

(* intrCallbackInt32(), intrCallbackUInt32(): one event bit is reported.   *)
EventInterrupt(i, e) ==
  /\ NobodyEvaluates
  /\ IF eventMask[i] = {}
     THEN Set(receivedEvent, i, {e}) /\ UNCHANGED <<eventMask, clientVars, timed>>
     ELSE /\ UNCHANGED receivedEvent
          /\ IF e \in eventMask[i] THEN Set(eventMask, i, {}) /\ Answer(i, "event")
                                   ELSE UNCHANGED <<eventMask, clientVars, timed>>
  /\ UNCHANGED <<lockTimed, link, connected, queueVars, timerVars, holder, port>>

(* The device is disconnected or connected again.                          *)
ExceptionHandler(inits) ==
  /\ NobodyEvaluates
  /\ Exception(~link)
  /\ wait' = [i \in Clients |-> IF i \in inits /\ Inits(i) THEN "eval" ELSE wait[i]]
  /\ UNCHANGED <<limitVars, queueVars, timerVars, holder, port, refused, eventVars>>
-----------------------------------------------------------------------------
(* Specification *)

RequestStep(i) ==
  \/ EvalAsyncIn(i) \/ EvalEnd(i)
  \/ \E limited \in BOOLEAN :
       \/ EvalOut(i, limited) \/ EvalIn(i, limited)
       \/ \E mask \in (SUBSET Event) \ {{}} : EvalEvent(i, mask, limited)
       \/ \E request \in ConnectRequests : EvalConnect(i, request, limited)

HandlerStep(i) ==
  \/ HandleObsolete(i) \/ LockFault(i)
  \/ \E limited \in BOOLEAN : LockHandler(i, limited)
  \/ WriteHandler(i) \/ DiscardEnds(i) \/ WriteEnds(i)
  \/ ReadHandler(i) \/ ReadReturns(i) \/ ReadTimeout(i) \/ ReadFails(i)
  \/ \E done \in SUBSET Listeners : DiscardInput(i, done) \/ ReadData(i, done)
  \/ \E inits \in SUBSET Clients : ConnectHandler(i, inits)

TimeoutStep(i) ==
  \/ HandleTimeout(i) \/ EventTimeout(i) \/ MessageTaken(i) \/ MessageDropped(i)
  \/ PollDue(i) \/ TimerPoll(i) \/ TimerIgnored(i)

Next ==
  \/ \E i \in Clients : Start(i) \/ RequestStep(i) \/ HandlerStep(i) \/ TimeoutStep(i)
  \/ \E i \in Clients : \E e \in Event : EventInterrupt(i, e)
  \/ \E inits \in SUBSET Clients : ExceptionHandler(inits)

Spec == Init /\ [][Next]_vars

(* The engines go on with their protocols; the port thread goes on with    *)
(* what it does, so that a device that sends without end stops now and     *)
(* then; and a request that has a timeout gets it, if nothing else happens *)
(* to it.                                                                  *)
HandlerGoesOn(i) == DiscardEnds(i) \/ WriteEnds(i) \/ ReadReturns(i)
Fairness ==
  /\ WF_vars(\E i \in Clients : RequestStep(i))
  /\ SF_vars(\E i \in Clients : HandlerGoesOn(i))
  /\ SF_vars(\E i \in Clients : ReadTimeout(i))
  /\ \A i \in Clients : SF_vars(HandleTimeout(i))
FairSpec == Spec /\ Fairness
-----------------------------------------------------------------------------
(* Properties *)

(* A request the engine waits for is in the queue, and what the port       *)
(* thread is going to do with it (ioAction) is still what was asked for;   *)
(* or the port thread is at it.  Nothing else would answer it: neither     *)
(* input for others, nor an obsolete poll, nor a timer may get in its way. *)
RequestNotForgotten ==
  \A i \in Clients : wait[i] \in DOMAIN ActionOf /\ ~refused[i] =>
    \/ slot[i] = wait[i] /\ ioAction[i] = ActionOf[wait[i]]
    \/ port.who = i /\ wait[i] = "write" /\ port.at \in {"discard", "write"}
    \/ port.who = i /\ wait[i] = "read" /\ port.at \in {"read", "more", "got"}

(* When a synchronous protocol comes to its next command, its last request *)
(* has left the queue: only a lost connection can have the next refused.   *)
QueueFree ==
  \A i \in Clients \ Listeners : wait[i] = "eval" => slot[i] = "empty"

(* A listener that polls and waits for input always has a poll queued or   *)
(* running, or a timer that is going to queue one: no crossing of timer,   *)
(* poll and unasked input stops it for good.                               *)
ListeningAlive ==
  \A i \in Clients : wait[i] = "async" /\ Polling =>
    \/ timer[i] \/ expiring[i]
    \/ slot[i] = "poll" /\ ioAction[i] \in {"AsyncRead", "AsyncReadMore"}
    \/ port.who = i /\ port.at \in {"read", "more", "got"}

(* While an event is waited for, the driver knows it, and if the event has *)
(* a timeout, the timer runs that ends the wait, though every handled      *)
(* request cancels the interface's timer.                                  *)
EventTimed ==
  \A i \in Clients : wait[i] = "event" =>
    ioAction[i] = "ReceiveEvent" /\ (timed[i] => timer[i])

(* Every request of a synchronous protocol that was accepted with a        *)
(* timeout is answered, or the protocol ended; a write, whose rest may be  *)
(* queued again with the timeout of the lock, if that had one.             *)
Limited(i, request) ==
  wait[i] = request /\ timed[i] /\ (request = "write" => lockTimed[i])
RequestsAnswered ==
  \A i \in Clients \ Listeners : \A request \in TimedRequest :
    Limited(i, request) ~> (wait[i] # request \/ refused[i])

(* The inductive invariant behind the first two of them.  Who listens and  *)
(* who does not:                                                           *)
Separate ==
  \A i \in Clients :
    IF i \in Listeners
    THEN /\ wait[i] \in {"idle", "eval", "async"} /\ slot[i] \in {"empty", "poll"}
         /\ ioAction[i] \in {"None", "AsyncRead", "AsyncReadMore"}
         /\ port.who = i => port.at \notin {"discard", "write"}
    ELSE /\ wait[i] # "async" /\ ~expiring[i]
         /\ ioAction[i] \notin {"AsyncRead", "AsyncReadMore"}

(* A request in the queue is the one the engine waits for, and so is what  *)
(* the port thread is doing.                                               *)
OneRequest ==
  \A i \in Clients \ Listeners :
    /\ slot[i] # "empty" => wait[i] = slot[i] /\ ~refused[i]
    /\ refused[i] => wait[i] \in DOMAIN ActionOf
    /\ port.who = i => slot[i] = "empty" /\ ~refused[i]
    /\ port.who = i => IF port.at \in {"discard", "write"}
                       THEN wait[i] = "write" /\ ioAction[i] = "Write"
                       ELSE wait[i] = "read" /\ ioAction[i] = "Read"

PortBusy == port.who = NoClient <=> port.at = "idle"

QueueInv == Separate /\ OneRequest /\ PortBusy /\ RequestNotForgotten

(* The one behind ListeningAlive and EventTimed: a listener that waits for *)
(* input is about to read, whatever was queued, read or taken before.      *)
ListenerReads ==
  \A i \in Clients : wait[i] = "async" => ioAction[i] \in {"AsyncRead", "AsyncReadMore"}

TimerInv == ListenerReads /\ ListeningAlive /\ EventTimed
=============================================================================
