-------------------------- MODULE AsynDriver_proofs --------------------------
(***************************************************************************)
(* Proofs about AsynDriver, for any number of records on a port.           *)
(***************************************************************************)
EXTENDS AsynDriver, TLAPS

(* The initial state is well typed.                                        *)
LEMMA InitType == Init => TypeOK
BY AsynAssumption DEF Init, TypeOK, IoAction, Request, PortStep, Waiting

(* Setting one interface's member to a value of its type.                  *)
LEMMA SetType ==
  ASSUME NEW T, NEW f \in [Clients -> T], NEW i \in Clients, NEW v \in T
  PROVE  [f EXCEPT ![i] = v] \in [Clients -> T]
OBVIOUS

(* A request the engine makes leaves all variables well typed.             *)
LEMMA RequestType ==
  ASSUME TypeOK, NEW i \in Clients, RequestStep(i)
  PROVE  TypeOK'
<1> USE AsynAssumption
    DEF TypeOK, Set, Evaluates, IoAction, Request, PortStep, Waiting, ActionOf,
        ConnectRequests, queueVars, timerVars, clientVars, limitVars, eventVars
<1>1. ASSUME NEW limited \in BOOLEAN, EvalOut(i, limited) PROVE TypeOK'
  <2>1. CASE holder = i
    <3>1. Queue(i, "write", limited) /\ UNCHANGED <<timer, holder, lockTimed>>
      BY <1>1, <2>1 DEF EvalOut
    <3>2. /\ slot' \in [Clients -> Request \cup {"empty"}]
          /\ refused' \in [Clients -> BOOLEAN]
      BY <3>1 DEF Queue
    <3>3. /\ ioAction' \in [Clients -> IoAction] /\ wait' \in [Clients -> Waiting]
          /\ timed' \in [Clients -> BOOLEAN]
      BY <3>1 DEF Queue
    <3> QED BY <1>1, <3>1, <3>2, <3>3 DEF EvalOut
  <2>2. CASE holder # i /\ CanQueue(i, "lock")
    BY <1>1, <2>2 DEF EvalOut, Queue
  <2>3. CASE holder # i /\ ~CanQueue(i, "lock")
    BY <1>1, <2>3, ZenonT(60) DEF EvalOut, Finish, Unlock
  <2> QED BY <2>1, <2>2, <2>3
<1>2. ASSUME NEW limited \in BOOLEAN, EvalIn(i, limited) PROVE TypeOK'
  BY <1>2 DEF EvalIn, Queue
<1>3. CASE EvalAsyncIn(i)
  BY <1>3 DEF EvalAsyncIn, Unlock, AsyncReadRequest
<1>4. CASE EvalEnd(i)
  BY <1>4 DEF EvalEnd, Finish, Unlock
<1>5. ASSUME NEW mask \in (SUBSET Event) \ {{}}, NEW limited \in BOOLEAN,
             EvalEvent(i, mask, limited)
      PROVE  TypeOK'
  <2>1. mask \in SUBSET Event /\ {} \in SUBSET Event
    BY <1>5
  <2>2. CASE receivedEvent[i] \cap mask # {}
    BY <1>5, <2>1, <2>2 DEF EvalEvent
  <2>3. CASE receivedEvent[i] \cap mask = {}
    <3>1. eventMask' = [eventMask EXCEPT ![i] = mask]
      BY <1>5, <2>3 DEF EvalEvent
    <3>2. eventMask' \in [Clients -> SUBSET Event]
      BY <2>1, <3>1, SetType DEF TypeOK
    <3> QED BY <1>5, <2>3, <3>2 DEF EvalEvent
  <2> QED BY <2>2, <2>3
<1>6. ASSUME NEW request \in ConnectRequests, NEW limited \in BOOLEAN,
             EvalConnect(i, request, limited)
      PROVE  TypeOK'
  <2>1. CASE request = "connect"
    BY <1>6, <2>1 DEF EvalConnect, Queue
  <2>2. CASE request = "disconnect"
    BY <1>6, <2>2 DEF EvalConnect, Queue
  <2> QED BY <2>1, <2>2
<1> QED BY <1>1, <1>2, <1>3, <1>4, <1>5, <1>6, ZenonT(60) DEF RequestStep

(* A step of the port thread leaves all variables well typed.              *)
LEMMA HandlerType ==
  ASSUME TypeOK, NEW i \in Clients, HandlerStep(i)
  PROVE  TypeOK'
<1> USE AsynAssumption
    DEF TypeOK, Set, Evaluates, IoAction, Request, PortStep, Waiting, Dequeues,
        PortIdle, Finish, Unlock, Answer, queueVars, timerVars, clientVars, limitVars, eventVars
<1>1. CASE HandleObsolete(i)
  BY <1>1 DEF HandleObsolete
<1>2. ASSUME NEW limited \in BOOLEAN, LockHandler(i, limited) PROVE TypeOK'
  BY <1>2 DEF LockHandler
<1>3. CASE LockFault(i)
  BY <1>3 DEF LockFault
<1>4. CASE WriteHandler(i)
  BY <1>4 DEF WriteHandler
<1>5. CASE WriteEnds(i)
  <2>1. CASE Answer(i, "write") /\ UNCHANGED <<queueVars, timer, holder, lockTimed>>
    BY <1>5, <2>1, ZenonT(60) DEF WriteEnds
  <2>2. CASE /\ Set(slot, i, "write") /\ Set(timed, i, lockTimed[i])
             /\ UNCHANGED <<ioAction, timer, holder, clientVars, lockTimed>>
    BY <1>5, <2>2 DEF WriteEnds
  <2>3. CASE Finish(i) /\ UNCHANGED slot
    BY <1>5, <2>3 DEF WriteEnds
  <2> QED BY <1>5, <2>1, <2>2, <2>3 DEF WriteEnds
<1>6. CASE ReadHandler(i)
  BY <1>6 DEF ReadHandler
<1>7. CASE ReadReturns(i)
  <2>1. CASE port' = [at |-> "more", who |-> i] /\ UNCHANGED <<clientVars, timed>>
    BY <1>7, <2>1 DEF ReadReturns
  <2>2. CASE ioAction[i] = "Read" /\ Answer(i, "read") /\ PortIdle
    BY <1>7, <2>2 DEF ReadReturns
  <2> QED BY <1>7, <2>1, <2>2 DEF ReadReturns
<1>8. CASE ReadTimeout(i)
  <2>1. CASE i \notin Listeners
    BY <1>8, <2>1 DEF ReadTimeout
  <2>2. CASE i \in Listeners /\ port.at = "read" /\ ioAction[i] = "AsyncRead"
    BY <1>8, <2>2 DEF ReadTimeout
  <2>3. CASE ListenAgain(i)
    <3>1. CASE AsyncReadRequest(i) /\ UNCHANGED timed
      BY <1>8, <3>1 DEF ReadTimeout, AsyncReadRequest
    <3>2. CASE /\ UNCHANGED <<queueVars, timer, refused>>
               /\ Evaluates(i) \/ UNCHANGED <<wait, timed>>
      BY <1>8, <3>2 DEF ReadTimeout
    <3> QED BY <2>3, <3>1, <3>2 DEF ListenAgain
  <2> QED BY <1>8, <2>1, <2>2, <2>3 DEF ReadTimeout
<1>9. CASE ReadFails(i)
  <2>1. CASE wait[i] \in {"read", "async"} \/ ~link
    BY <1>9, <2>1, ZenonT(60) DEF ReadFails
  <2>2. CASE ~(wait[i] \in {"read", "async"} \/ ~link)
    BY <1>9, <2>2 DEF ReadFails
  <2> QED BY <2>1, <2>2
<1>10. ASSUME NEW done \in SUBSET Listeners, DiscardInput(i, done)
       PROVE  TypeOK'
  BY <1>10 DEF DiscardInput, AsynReadHandler
<1>11. ASSUME NEW done \in SUBSET Listeners, ReadData(i, done)
       PROVE  TypeOK'
  BY <1>11 DEF ReadData, AsynReadHandler
<1>12. ASSUME NEW inits \in SUBSET Clients, ConnectHandler(i, inits)
       PROVE  TypeOK'
  BY <1>12 DEF ConnectHandler, Exception
<1>13. CASE DiscardEnds(i)
  BY <1>13 DEF DiscardEnds
<1> QED BY <1>1, <1>2, <1>3, <1>4, <1>5, <1>6, <1>7, <1>8, <1>9, <1>10, <1>11, <1>12, <1>13
        DEF HandlerStep

(* All other steps leave all variables well typed.                         *)
LEMMA OtherType ==
  ASSUME TypeOK,
         \/ UNCHANGED vars
         \/ \E i \in Clients : Start(i) \/ TimeoutStep(i)
         \/ \E i \in Clients : \E e \in Event : EventInterrupt(i, e)
         \/ \E inits \in SUBSET Clients : ExceptionHandler(inits)
  PROVE  TypeOK'
<1> USE AsynAssumption
    DEF TypeOK, Set, Evaluates, IoAction, Request, PortStep, Waiting, Finish, Unlock, Answer,
        queueVars, timerVars, clientVars, limitVars, eventVars
<1>1. CASE UNCHANGED vars
  BY <1>1 DEF vars
<1>2. ASSUME NEW i \in Clients, Start(i) PROVE TypeOK'
  BY <1>2 DEF Start
<1>3. ASSUME NEW i \in Clients, HandleTimeout(i) PROVE TypeOK'
  <2>1. CASE ioAction[i] \in {"Lock", "Read"} /\ wait[i] \in {"lock", "read"}
    BY <1>3, <2>1, ZenonT(60) DEF HandleTimeout
  <2>2. CASE ~(ioAction[i] \in {"Lock", "Read"} /\ wait[i] \in {"lock", "read"})
    BY <1>3, <2>2 DEF HandleTimeout
  <2> QED BY <2>1, <2>2
<1>4. ASSUME NEW i \in Clients,
             EventTimeout(i) \/ MessageTaken(i) \/ PollDue(i) \/ TimerIgnored(i)
      PROVE  TypeOK'
  <2>1. CASE EventTimeout(i)
    BY <1>4, <2>1 DEF EventTimeout
  <2>2. CASE MessageTaken(i)
    BY <1>4, <2>2 DEF MessageTaken
  <2>3. CASE PollDue(i)
    BY <1>4, <2>3 DEF PollDue
  <2>4. CASE TimerIgnored(i)
    BY <1>4, <2>4 DEF TimerIgnored
  <2> QED BY <1>4, <2>1, <2>2, <2>3, <2>4
<1>8. ASSUME NEW i \in Clients, MessageDropped(i) PROVE TypeOK'
  BY <1>8 DEF MessageDropped
<1>5. ASSUME NEW i \in Clients, TimerPoll(i) PROVE TypeOK'
  BY <1>5 DEF TimerPoll
<1>6. ASSUME NEW i \in Clients, NEW e \in Event, EventInterrupt(i, e) PROVE TypeOK'
  <2>1. {} \in SUBSET Event /\ {e} \in SUBSET Event
    OBVIOUS
  <2>2. receivedEvent' \in [Clients -> SUBSET Event]
    <3>1. \/ receivedEvent' = receivedEvent
          \/ receivedEvent' = [receivedEvent EXCEPT ![i] = {e}]
      BY <1>6 DEF EventInterrupt
    <3> QED BY <2>1, <3>1, SetType
  <2>4. eventMask' \in [Clients -> SUBSET Event]
    <3>1. eventMask' = eventMask \/ eventMask' = [eventMask EXCEPT ![i] = {}]
      BY <1>6 DEF EventInterrupt
    <3> QED BY <2>1, <3>1, SetType
  <2>3. /\ wait' \in [Clients -> Waiting] /\ refused' \in [Clients -> BOOLEAN]
        /\ timed' \in [Clients -> BOOLEAN]
    BY <1>6 DEF EventInterrupt
  <2> QED BY <1>6, <2>2, <2>3, <2>4 DEF EventInterrupt
<1>7. ASSUME NEW inits \in SUBSET Clients, ExceptionHandler(inits) PROVE TypeOK'
  BY <1>7 DEF ExceptionHandler, Exception
<1> QED BY <1>1, <1>2, <1>3, <1>4, <1>5, <1>6, <1>7, <1>8 DEF TimeoutStep

(* Every step leaves all variables well typed.                             *)
LEMMA NextType == TypeOK /\ [Next]_vars => TypeOK'
BY RequestType, HandlerType, OtherType DEF Next

(* TypeOK is an invariant of AsynDriver.                                   *)
THEOREM TypeCorrect == Spec => []TypeOK
<1>1. Init => TypeOK
  BY InitType
<1>2. TypeOK /\ [Next]_vars => TypeOK'
  BY NextType
<1> QED BY <1>1, <1>2, PTL DEF Spec

(* The action that belongs to a request.                                   *)
LEMMA ActionFacts ==
  /\ DOMAIN ActionOf = {"lock", "write", "read", "connect", "disconnect"}
  /\ ActionOf["lock"] = "Lock" /\ ActionOf["write"] = "Write"
  /\ ActionOf["read"] = "Read" /\ ActionOf["connect"] = "Connect"
  /\ ActionOf["disconnect"] = "Disconnect"
BY DEF ActionOf

(* The initial state satisfies the queue invariant.                        *)
LEMMA InitQueue == Init => QueueInv
BY AsynAssumption
DEF Init, QueueInv, Separate, OneRequest, PortBusy, RequestNotForgotten, ActionOf

(* A request goes into the queue or is refused.                            *)
LEMMA QueueQueue ==
  ASSUME TypeOK, QueueInv, NEW i \in Clients \ Listeners, wait[i] = "eval",
         NEW request \in DOMAIN ActionOf, NEW limited \in BOOLEAN,
         Queue(i, request, limited), UNCHANGED <<expiring, port>>
  PROVE  QueueInv'
<1> USE ActionFacts DEF TypeOK, QueueInv, Separate, OneRequest, PortBusy,
        RequestNotForgotten, Set, Queue
<1>0. /\ ActionOf[request] \in IoAction \ {"AsyncRead", "AsyncReadMore"}
      /\ request # "async" /\ request # "empty" /\ port.who # i
  BY DEF IoAction
<1>1. /\ wait' = [wait EXCEPT ![i] = request]
      /\ ioAction' = [ioAction EXCEPT ![i] = ActionOf[request]]
      /\ \/ slot' = [slot EXCEPT ![i] = request] /\ refused' = refused
         \/ slot' = slot /\ refused' = [refused EXCEPT ![i] = TRUE]
  OBVIOUS
<1>2. \A k \in Clients : k # i =>
        /\ wait'[k] = wait[k] /\ ioAction'[k] = ioAction[k]
        /\ slot'[k] = slot[k] /\ refused'[k] = refused[k]
  BY <1>1
<1>3. /\ wait'[i] = request /\ ioAction'[i] = ActionOf[request]
      /\ \/ slot'[i] = request /\ refused'[i] = refused[i]
         \/ slot'[i] = slot[i] /\ refused'[i] = TRUE
  BY <1>1
<1>4. slot[i] = "empty" /\ ~refused[i]
  BY DEF Request
<1>5. Separate'
  BY <1>0, <1>2, <1>3
<1>6. OneRequest'
  BY <1>0, <1>2, <1>3, <1>4
<1>7. RequestNotForgotten'
  BY <1>0, <1>2, <1>3, <1>4
<1> QED BY <1>5, <1>6, <1>7

(* The engine's requests find the queue free.                              *)
LEMMA RequestQueue ==
  ASSUME ListenCommands = {}, TypeOK, QueueInv, NEW i \in Clients, RequestStep(i)
  PROVE  QueueInv'
<1> USE AsynAssumption, ActionFacts
    DEF TypeOK, QueueInv, Separate, OneRequest, PortBusy, RequestNotForgotten,
        Set, Evaluates, IoAction, Request, PortStep, Waiting, CanQueue,
        Command, ConnectRequests, queueVars, timerVars, clientVars, limitVars, eventVars
<1>1. ASSUME NEW limited \in BOOLEAN, EvalOut(i, limited) PROVE QueueInv'
  <2>1. CASE holder = i
    BY <1>1, <2>1, QueueQueue DEF EvalOut
  <2>2. CASE holder # i /\ CanQueue(i, "lock")
    BY <1>1, <2>2, QueueQueue DEF EvalOut
  <2>3. CASE holder # i /\ ~CanQueue(i, "lock")
    BY <1>1, <2>3 DEF EvalOut, Finish, Unlock
  <2> QED BY <2>1, <2>2, <2>3
<1>2. ASSUME NEW limited \in BOOLEAN, EvalIn(i, limited) PROVE QueueInv'
  BY <1>2, QueueQueue DEF EvalIn
<1>3. CASE EvalAsyncIn(i)
  BY <1>3 DEF EvalAsyncIn, Unlock, AsyncReadRequest
<1>4. CASE EvalEnd(i)
  BY <1>4 DEF EvalEnd, Finish, Unlock
<1>5. ASSUME NEW mask \in (SUBSET Event) \ {{}}, NEW limited \in BOOLEAN,
             EvalEvent(i, mask, limited)
      PROVE  QueueInv'
  BY <1>5 DEF EvalEvent
<1>6. ASSUME NEW request \in ConnectRequests, NEW limited \in BOOLEAN,
             EvalConnect(i, request, limited)
      PROVE  QueueInv'
  BY <1>6, QueueQueue DEF EvalConnect
<1> QED BY <1>1, <1>2, <1>3, <1>4, <1>5, <1>6 DEF RequestStep

(* The port thread answers the request it takes, or queues its rest.       *)
LEMMA HandlerQueue ==
  ASSUME ListenCommands = {}, TypeOK, QueueInv, NEW i \in Clients, HandlerStep(i)
  PROVE  QueueInv'
<1> USE AsynAssumption, ActionFacts
    DEF TypeOK, QueueInv, Separate, OneRequest, PortBusy, RequestNotForgotten,
        Set, Evaluates, IoAction, Request, PortStep, Waiting, CanQueue,
        Dequeues, PortIdle, Finish, Unlock, Answer, queueVars, timerVars, clientVars, limitVars, eventVars
<1>1. CASE HandleObsolete(i)
  BY <1>1 DEF HandleObsolete
<1>2. ASSUME NEW limited \in BOOLEAN, LockHandler(i, limited) PROVE QueueInv'
  BY <1>2 DEF LockHandler
<1>3. CASE LockFault(i)
  BY <1>3 DEF LockFault
<1>4. CASE WriteHandler(i)
  BY <1>4 DEF WriteHandler
<1>5. CASE WriteEnds(i)
  <2>1. CASE Answer(i, "write") /\ UNCHANGED queueVars
    BY <1>5, <2>1 DEF WriteEnds
  <2>2. CASE Set(slot, i, "write") /\ UNCHANGED <<ioAction, clientVars>>
    BY <1>5, <2>2 DEF WriteEnds
  <2>3. CASE Finish(i) /\ UNCHANGED slot
    BY <1>5, <2>3 DEF WriteEnds
  <2> QED BY <1>5, <2>1, <2>2, <2>3 DEF WriteEnds
<1>6. CASE ReadHandler(i)
  BY <1>6 DEF ReadHandler
<1>7. CASE ReadReturns(i)
  <2>1. CASE port' = [at |-> "more", who |-> i] /\ UNCHANGED <<clientVars, timed>>
    BY <1>7, <2>1 DEF ReadReturns
  <2>2. CASE ioAction[i] = "Read" /\ Answer(i, "read") /\ PortIdle
    BY <1>7, <2>2 DEF ReadReturns
  <2> QED BY <1>7, <2>1, <2>2 DEF ReadReturns
<1>8. CASE ReadTimeout(i)
  <2>1. CASE i \notin Listeners
    BY <1>8, <2>1 DEF ReadTimeout, Reading
  <2>2. CASE i \in Listeners /\ UNCHANGED <<queueVars, clientVars>>
    BY <1>8, <2>2 DEF ReadTimeout, Reading
  <2>3. CASE i \in Listeners /\ AsyncReadRequest(i)
    BY <1>8, <2>3 DEF ReadTimeout, Reading, AsyncReadRequest
  <2>4. CASE i \in Listeners /\ Evaluates(i) /\ UNCHANGED <<queueVars, timer, refused>>
    BY <1>8, <2>4 DEF ReadTimeout, Reading
  <2> QED BY <1>8, <2>1, <2>2, <2>3, <2>4 DEF ReadTimeout, ListenAgain
<1>9. CASE ReadFails(i)
  <2>1. CASE wait[i] \in {"read", "async"} \/ ~link
    BY <1>9, <2>1 DEF ReadFails, Reading
  <2>2. CASE ~(wait[i] \in {"read", "async"} \/ ~link)
    BY <1>9, <2>2 DEF ReadFails, Reading
  <2> QED BY <2>1, <2>2
<1>10. ASSUME NEW done \in SUBSET Listeners, DiscardInput(i, done)
       PROVE  QueueInv'
  BY <1>10 DEF DiscardInput, AsynReadHandler
<1>11. ASSUME NEW done \in SUBSET Listeners, ReadData(i, done)
       PROVE  QueueInv'
  BY <1>11 DEF ReadData, AsynReadHandler, Reading
<1>12. ASSUME NEW inits \in SUBSET Clients, ConnectHandler(i, inits)
       PROVE  QueueInv'
  BY <1>12 DEF ConnectHandler, Exception, Inits
<1>13. CASE DiscardEnds(i)
  BY <1>13 DEF DiscardEnds
<1> QED BY <1>1, <1>2, <1>3, <1>4, <1>5, <1>6, <1>7, <1>8, <1>9, <1>10, <1>11, <1>12, <1>13
        DEF HandlerStep

(* No other step comes between a request and its answer.                   *)
LEMMA OtherQueue ==
  ASSUME ListenCommands = {}, TypeOK, QueueInv,
         \/ UNCHANGED vars
         \/ \E i \in Clients : Start(i) \/ TimeoutStep(i)
         \/ \E i \in Clients : \E e \in Event : EventInterrupt(i, e)
         \/ \E inits \in SUBSET Clients : ExceptionHandler(inits)
  PROVE  QueueInv'
<1> USE AsynAssumption, ActionFacts
    DEF TypeOK, QueueInv, Separate, OneRequest, PortBusy, RequestNotForgotten,
        Set, Evaluates, IoAction, Request, PortStep, Waiting, CanQueue,
        Finish, Unlock, Answer, Expires, queueVars, timerVars, clientVars, limitVars, eventVars
<1>1. CASE UNCHANGED vars
  BY <1>1 DEF vars
<1>2. ASSUME NEW i \in Clients, Start(i) PROVE QueueInv'
  BY <1>2 DEF Start
<1>3. ASSUME NEW i \in Clients, HandleTimeout(i) PROVE QueueInv'
  <2>1. CASE ioAction[i] \in {"Lock", "Read"} /\ wait[i] \in {"lock", "read"}
    BY <1>3, <2>1 DEF HandleTimeout, TimedRequest
  <2>2. CASE ~(ioAction[i] \in {"Lock", "Read"} /\ wait[i] \in {"lock", "read"})
    BY <1>3, <2>2 DEF HandleTimeout, TimedRequest
  <2> QED BY <2>1, <2>2
<1>4. ASSUME NEW i \in Clients, EventTimeout(i) PROVE QueueInv'
  BY <1>4 DEF EventTimeout
<1>5. ASSUME NEW i \in Clients, MessageTaken(i) PROVE QueueInv'
  BY <1>5 DEF MessageTaken
<1>6. ASSUME NEW i \in Clients, MessageDropped(i) PROVE QueueInv'
  BY <1>6 DEF MessageDropped
<1>7. ASSUME NEW i \in Clients, PollDue(i) PROVE QueueInv'
  BY <1>7 DEF PollDue
<1>8. ASSUME NEW i \in Clients, TimerPoll(i) PROVE QueueInv'
  BY <1>8 DEF TimerPoll
<1>9. ASSUME NEW i \in Clients, TimerIgnored(i) PROVE QueueInv'
  BY <1>9 DEF TimerIgnored
<1>10. ASSUME NEW i \in Clients, NEW e \in Event, EventInterrupt(i, e) PROVE QueueInv'
  BY <1>10 DEF EventInterrupt
<1>11. ASSUME NEW inits \in SUBSET Clients, ExceptionHandler(inits) PROVE QueueInv'
  BY <1>11 DEF ExceptionHandler, Exception, Inits
<1> QED BY <1>1, <1>2, <1>3, <1>4, <1>5, <1>6, <1>7, <1>8, <1>9, <1>10, <1>11
        DEF TimeoutStep

(* If asynchronous protocols only listen, the queue invariant holds.       *)
LEMMA QueueInvariant == ListenCommands = {} /\ Spec => [](TypeOK /\ QueueInv)
<1> SUFFICES ASSUME ListenCommands = {} PROVE Spec => [](TypeOK /\ QueueInv)
  OBVIOUS
<1>1. Init => TypeOK /\ QueueInv
  BY InitType, InitQueue
<1>2. TypeOK /\ QueueInv /\ [Next]_vars => TypeOK' /\ QueueInv'
  BY NextType, RequestQueue, HandlerQueue, OtherQueue DEF Next
<1> QED BY <1>1, <1>2, PTL DEF Spec

(* No accepted request is ever forgotten, however many records share the   *)
(* port, as long as the protocols that listen do nothing else.             *)
THEOREM RequestsKept == ListenCommands = {} /\ Spec => []RequestNotForgotten
BY QueueInvariant, PTL DEF QueueInv

(* And no command of a synchronous protocol finds the queue occupied.      *)
THEOREM QueueFreed == ListenCommands = {} /\ Spec => []QueueFree
<1>1. TypeOK /\ QueueInv => QueueFree
  BY DEF TypeOK, QueueInv, OneRequest, QueueFree, Request
<1> QED BY <1>1, QueueInvariant, PTL

(* The initial state satisfies the timer invariant.                        *)
LEMMA InitTimer == Init => TimerInv
BY DEF Init, TimerInv, ListenerReads, ListeningAlive, EventTimed

(* The engine starts the timer, or queues a poll, for what it waits for.   *)
LEMMA RequestTimer ==
  ASSUME ListenCommands = {}, TypeOK, Separate, OneRequest, TimerInv,
         NEW i \in Clients, RequestStep(i)
  PROVE  TimerInv'
<1> USE AsynAssumption
    DEF TypeOK, Separate, OneRequest, PortBusy, TimerInv, ListenerReads, ListeningAlive, EventTimed,
        Set, Evaluates, IoAction, Request, PortStep, Waiting, CanQueue,
        Command, ConnectRequests, queueVars, timerVars, clientVars, limitVars, eventVars
<1>1. ASSUME NEW limited \in BOOLEAN, EvalOut(i, limited) PROVE TimerInv'
  <2>1. CASE holder = i
    BY <1>1, <2>1 DEF EvalOut, Queue, ActionOf
  <2>2. CASE holder # i /\ CanQueue(i, "lock")
    BY <1>1, <2>2 DEF EvalOut, Queue, ActionOf
  <2>3. CASE holder # i /\ ~CanQueue(i, "lock")
    BY <1>1, <2>3 DEF EvalOut, Finish, Unlock
  <2> QED BY <2>1, <2>2, <2>3
<1>2. ASSUME NEW limited \in BOOLEAN, EvalIn(i, limited) PROVE TimerInv'
  BY <1>2 DEF EvalIn, Queue, ActionOf
<1>3. CASE EvalAsyncIn(i)
  BY <1>3 DEF EvalAsyncIn, Unlock, AsyncReadRequest
<1>4. CASE EvalEnd(i)
  BY <1>4 DEF EvalEnd, Finish, Unlock
<1>5. ASSUME NEW mask \in (SUBSET Event) \ {{}}, NEW limited \in BOOLEAN,
             EvalEvent(i, mask, limited)
      PROVE  TimerInv'
  BY <1>5 DEF EvalEvent
<1>6. ASSUME NEW request \in ConnectRequests, NEW limited \in BOOLEAN,
             EvalConnect(i, request, limited)
      PROVE  TimerInv'
  BY <1>6 DEF EvalConnect, Queue, ActionOf
<1> QED BY <1>1, <1>2, <1>3, <1>4, <1>5, <1>6 DEF RequestStep

(* The port thread starts a timer, or queues a poll, before it leaves a    *)
(* listener alone.                                                         *)
LEMMA HandlerTimer ==
  ASSUME ListenCommands = {}, TypeOK, Separate, OneRequest, PortBusy, TimerInv,
         NEW i \in Clients, HandlerStep(i)
  PROVE  TimerInv'
<1> USE AsynAssumption
    DEF TypeOK, Separate, OneRequest, PortBusy, TimerInv, ListenerReads, ListeningAlive, EventTimed,
        Set, Evaluates, IoAction, Request, PortStep, Waiting, CanQueue,
        Dequeues, PortIdle, Finish, Unlock, Answer, queueVars, timerVars, clientVars, limitVars, eventVars
<1>1. CASE HandleObsolete(i)
  BY <1>1 DEF HandleObsolete
<1>2. ASSUME NEW limited \in BOOLEAN, LockHandler(i, limited) PROVE TimerInv'
  BY <1>2 DEF LockHandler
<1>3. CASE LockFault(i)
  BY <1>3 DEF LockFault
<1>4. CASE WriteHandler(i)
  BY <1>4 DEF WriteHandler
<1>5. CASE WriteEnds(i)
  <2>1. CASE Answer(i, "write") /\ UNCHANGED <<queueVars, timer>>
    BY <1>5, <2>1 DEF WriteEnds
  <2>2. CASE Set(slot, i, "write") /\ UNCHANGED <<ioAction, timer, clientVars>>
    BY <1>5, <2>2 DEF WriteEnds
  <2>3. CASE Finish(i) /\ UNCHANGED slot
    BY <1>5, <2>3 DEF WriteEnds
  <2> QED BY <1>5, <2>1, <2>2, <2>3 DEF WriteEnds
<1>6. CASE ReadHandler(i)
  BY <1>6 DEF ReadHandler
<1>7. CASE ReadReturns(i)
  <2>1. CASE port' = [at |-> "more", who |-> i] /\ UNCHANGED <<clientVars, timed>>
    BY <1>7, <2>1 DEF ReadReturns
  <2>2. CASE ioAction[i] = "Read" /\ Answer(i, "read") /\ PortIdle
    BY <1>7, <2>2 DEF ReadReturns
  <2> QED BY <1>7, <2>1, <2>2 DEF ReadReturns
<1>8. CASE ReadTimeout(i)
  <2>1. CASE i \notin Listeners
    BY <1>8, <2>1 DEF ReadTimeout, Reading
  <2>2. CASE /\ i \in Listeners /\ Set(timer, i, timer[i] \/ Polling)
             /\ UNCHANGED <<queueVars, clientVars, timed>>
    BY <1>8, <2>2 DEF ReadTimeout, Reading
  <2>3. CASE i \in Listeners /\ AsyncReadRequest(i) /\ UNCHANGED timed
    BY <1>8, <2>3 DEF ReadTimeout, Reading, AsyncReadRequest
  <2>4. CASE i \in Listeners /\ Evaluates(i) /\ UNCHANGED <<queueVars, timer, refused>>
    BY <1>8, <2>4 DEF ReadTimeout, Reading
  <2>5. CASE /\ i \in Listeners /\ wait[i] # "async"
             /\ UNCHANGED <<queueVars, timer, clientVars, timed>>
    BY <1>8, <2>5 DEF ReadTimeout, Reading
  <2> QED BY <1>8, <2>1, <2>2, <2>3, <2>4, <2>5 DEF ReadTimeout, ListenAgain
<1>9. CASE ReadFails(i)
  <2>1. CASE wait[i] \in {"read", "async"} \/ ~link
    BY <1>9, <2>1 DEF ReadFails, Reading
  <2>2. CASE ~(wait[i] \in {"read", "async"} \/ ~link)
    BY <1>9, <2>2 DEF ReadFails, Reading
  <2> QED BY <2>1, <2>2
<1>10. ASSUME NEW done \in SUBSET Listeners, DiscardInput(i, done)
       PROVE  TimerInv'
  BY <1>10 DEF DiscardInput, AsynReadHandler
<1>11. ASSUME NEW done \in SUBSET Listeners, ReadData(i, done)
       PROVE  TimerInv'
  BY <1>11 DEF ReadData, AsynReadHandler, Reading
<1>12. ASSUME NEW inits \in SUBSET Clients, ConnectHandler(i, inits)
       PROVE  TimerInv'
  BY <1>12 DEF ConnectHandler, Exception, Inits
<1>13. CASE DiscardEnds(i)
  BY <1>13 DEF DiscardEnds
<1> QED BY <1>1, <1>2, <1>3, <1>4, <1>5, <1>6, <1>7, <1>8, <1>9, <1>10, <1>11, <1>12, <1>13
        DEF HandlerStep

(* A timer that runs out is started again, or nobody waits for it.         *)
LEMMA OtherTimer ==
  ASSUME ListenCommands = {}, TypeOK, Separate, OneRequest, PortBusy, TimerInv,
         \/ UNCHANGED vars
         \/ \E i \in Clients : Start(i) \/ TimeoutStep(i)
         \/ \E i \in Clients : \E e \in Event : EventInterrupt(i, e)
         \/ \E inits \in SUBSET Clients : ExceptionHandler(inits)
  PROVE  TimerInv'
<1> USE AsynAssumption
    DEF TypeOK, Separate, OneRequest, PortBusy, TimerInv, ListenerReads, ListeningAlive, EventTimed,
        Set, Evaluates, IoAction, Request, PortStep, Waiting, CanQueue,
        Finish, Unlock, Answer, Expires, queueVars, timerVars, clientVars, limitVars, eventVars
<1>1. CASE UNCHANGED vars
  BY <1>1 DEF vars
<1>2. ASSUME NEW i \in Clients, Start(i) PROVE TimerInv'
  BY <1>2 DEF Start
<1>3. ASSUME NEW i \in Clients, HandleTimeout(i) PROVE TimerInv'
  <2>1. CASE ioAction[i] \in {"Lock", "Read"} /\ wait[i] \in {"lock", "read"}
    BY <1>3, <2>1, SMTT(30) DEF HandleTimeout, TimedRequest
  <2>2. CASE ~(ioAction[i] \in {"Lock", "Read"} /\ wait[i] \in {"lock", "read"})
    BY <1>3, <2>2 DEF HandleTimeout, TimedRequest
  <2> QED BY <2>1, <2>2
<1>4. ASSUME NEW i \in Clients, EventTimeout(i) PROVE TimerInv'
  BY <1>4 DEF EventTimeout
<1>5. ASSUME NEW i \in Clients, MessageTaken(i) PROVE TimerInv'
  BY <1>5 DEF MessageTaken
<1>6. ASSUME NEW i \in Clients, MessageDropped(i) PROVE TimerInv'
  BY <1>6 DEF MessageDropped
<1>7. ASSUME NEW i \in Clients, PollDue(i) PROVE TimerInv'
  BY <1>7 DEF PollDue
<1>8. ASSUME NEW i \in Clients, TimerPoll(i) PROVE TimerInv'
  BY <1>8 DEF TimerPoll
<1>9. ASSUME NEW i \in Clients, TimerIgnored(i) PROVE TimerInv'
  BY <1>9 DEF TimerIgnored
<1>10. ASSUME NEW i \in Clients, NEW e \in Event, EventInterrupt(i, e) PROVE TimerInv'
  BY <1>10 DEF EventInterrupt
<1>11. ASSUME NEW inits \in SUBSET Clients, ExceptionHandler(inits) PROVE TimerInv'
  BY <1>11 DEF ExceptionHandler, Exception, Inits
<1> QED BY <1>1, <1>2, <1>3, <1>4, <1>5, <1>6, <1>7, <1>8, <1>9, <1>10, <1>11
        DEF TimeoutStep

(* If asynchronous protocols only listen, the timer invariant holds.       *)
LEMMA TimerInvariant == ListenCommands = {} /\ Spec => []TimerInv
<1> SUFFICES ASSUME ListenCommands = {} PROVE Spec => []TimerInv
  OBVIOUS
<1>1. Init => TimerInv
  BY InitTimer
<1>2. TypeOK /\ QueueInv /\ TimerInv /\ [Next]_vars => TimerInv'
  BY RequestTimer, HandlerTimer, OtherTimer DEF Next, QueueInv
<1> QED BY <1>1, <1>2, QueueInvariant, PTL DEF Spec

(* A listener that polls never stops listening, however its timer, its     *)
(* polls and the input for others cross.                                   *)
THEOREM ListenersStayAlive == ListenCommands = {} /\ Spec => []ListeningAlive
BY TimerInvariant, PTL DEF TimerInv

(* While an event with a timeout is waited for, the timer runs: no handled *)
(* request cancels it.  An event without a timeout may wait for ever.      *)
THEOREM EventsAreTimed == ListenCommands = {} /\ Spec => []EventTimed
BY TimerInvariant, PTL DEF TimerInv
=============================================================================
