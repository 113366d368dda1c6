-------------------------- MODULE StreamCore_proofs -------------------------
(***************************************************************************)
(* For all protocols, inputs and buses: the types of StreamCore, how its   *)
(* protocols report and handle their errors, and that it never overdraws   *)
(* the lock of the bus, however protocols are aborted. As long as none is  *)
(* aborted from outside, the lock is neither lost nor kept nor released    *)
(* twice, and every callback is one that the engine waits for.             *)
(***************************************************************************)
EXTENDS StreamCore, TLAPS, WellFoundedInduction, SequenceTheorems

-----------------------------------------------------------------------------
(* What the line search of InputFraming returns, for all inputs.           *)

(* The minimum of a set of naturals is one of them.                        *)
LEMMA MinOfNaturals ==
  ASSUME NEW S \in SUBSET Nat, S # {}
  PROVE  Min(S) \in S
<1> DEFINE R == OpToRel(<, Nat)
<1>1. IsWellFoundedOn(R, Nat)
  BY NatLessThanWellFounded
<1>2. R = {ss \in Nat \X Nat : ss[1] < ss[2]}
  BY DEF OpToRel
<1> HIDE DEF R
<1>3. PICK x \in S : \A y \in S : ~ (<<y, x>> \in R)
  BY <1>1, WFMin
<1>4. ASSUME NEW y \in S PROVE x =< y
  <2>1. x \in Nat /\ y \in Nat
    OBVIOUS
  <2>2. <<y, x>> \in Nat \X Nat
    BY <2>1
  <2>3. ~ (<<y, x>>[1] < <<y, x>>[2])
    BY <1>2, <1>3, <2>2
  <2> QED
    BY <2>1, <2>3
<1> QED
  BY <1>4, Zenon DEF Min

(* Find returns a position of the pattern at or after `start`, or NotFound. *)
LEMMA FindResult ==
  ASSUME NEW buffer \in Seq(Byte), NEW pattern \in Seq(Byte), NEW start \in Nat
  PROVE  \/ Find(buffer, pattern, start) = NotFound
         \/ /\ Find(buffer, pattern, start) \in Nat
            /\ start <= Find(buffer, pattern, start)
            /\ Find(buffer, pattern, start) + Len(pattern) <= Len(buffer)
            /\ LET at == Find(buffer, pattern, start)
               IN  SubSeq(buffer, at + 1, at + Len(pattern)) = pattern
<1> DEFINE Hits == { i \in start .. Len(buffer) - Len(pattern) :
                       SubSeq(buffer, i + 1, i + Len(pattern)) = pattern }
<1>0. Find(buffer, pattern, start) = IF Hits = {} THEN NotFound ELSE Min(Hits)
  BY Zenon DEF Find
<1>1. Hits \in SUBSET Nat
  OBVIOUS
<1>2. CASE Hits = {}
  BY <1>0, <1>2
<1>3. CASE Hits # {}
  <2>1. Min(Hits) \in Hits
    <3> HIDE DEF Hits
    <3> QED
      BY <1>1, <1>3, MinOfNaturals, SMTT(30)
  <2>2. Find(buffer, pattern, start) \in Hits
    BY <1>0, <1>3, <2>1
  <2> DEFINE at == Find(buffer, pattern, start)
  <2>3. at \in start .. Len(buffer) - Len(pattern)
    BY <2>2, Zenon
  <2>4. SubSeq(buffer, at + 1, at + Len(pattern)) = pattern
    BY <2>2, Zenon
  <2> HIDE DEF at, Hits
  <2>5. at \in Nat /\ start <= at /\ at + Len(pattern) <= Len(buffer)
    BY <2>3
  <2> QED
    BY <2>4, <2>5, Zenon DEF at
<1> QED
  BY <1>2, <1>3

(* The line found lies within the buffer, with its terminator, and is no   *)
(* longer than MaxInput.                                                   *)
LEMMA LineWithinBuffer ==
  ASSUME NEW buffer \in Seq(Byte), NEW size \in Nat,
         NEW unparsed \in BOOLEAN, NEW status,
         LineAt(buffer, size, unparsed, status).end # NotFound
  PROVE  LET line == LineAt(buffer, size, unparsed, status)
         IN  /\ line.end \in Nat /\ line.termlen \in Nat
             /\ line.end + line.termlen <= Len(buffer)
             /\ MaxInput > 0 => line.end <= MaxInput
<1> DEFINE term == TerminatorAt(buffer, size, unparsed)
           end  == IF term # NotFound THEN term
                   ELSE IF status = "End" THEN Len(buffer)
                   ELSE IF MaxInput > 0 /\ MaxInput <= Len(buffer) THEN MaxInput
                   ELSE NotFound
           long == MaxInput > 0 /\ end > MaxInput
           line == LineAt(buffer, size, unparsed, status)
<1>1. InTerminator \in Seq(Byte) /\ MaxInput \in Nat /\ Len(InTerminator) \in Nat
      /\ Len(buffer) \in Nat
  BY FramingAssumption
<1>2. \/ term = NotFound
      \/ term \in Nat /\ term + Len(InTerminator) <= Len(buffer)
  <2>1. SearchStart(buffer, size, unparsed) \in Nat
    BY <1>1 DEF SearchStart
  <2>2. CASE InTerminator = <<>>
    BY <2>2, Zenon DEF TerminatorAt
  <2>3. CASE InTerminator # <<>>
    <3>1. term = Find(buffer, InTerminator, SearchStart(buffer, size, unparsed))
      BY <2>3, Zenon DEF TerminatorAt
    <3> QED
      BY <1>1, <2>1, <3>1, FindResult
  <2> QED
    BY <2>2, <2>3
<1>3. line = IF long THEN [end |-> MaxInput, termlen |-> 0]
             ELSE [end |-> end,
                   termlen |-> IF term # NotFound THEN Len(InTerminator) ELSE 0]
  BY Zenon DEF LineAt
<1>4. line.end = (IF long THEN MaxInput ELSE end)
      /\ line.termlen = (IF long \/ term = NotFound THEN 0 ELSE Len(InTerminator))
  <2> HIDE DEF line, long, end, term
  <2> QED
    BY <1>3
<1>5. line.end # NotFound
  OBVIOUS
<1> HIDE DEF term, line
<1>6. /\ line.end \in Nat /\ line.termlen \in Nat
      /\ line.end + line.termlen <= Len(buffer)
      /\ MaxInput > 0 => line.end <= MaxInput
  BY <1>1, <1>2, <1>4, <1>5 DEF NotFound
<1> QED
  BY <1>6, Zenon DEF line

(* Nothing is invented: the line's text and what stays in the buffer are   *)
(* byte sequences, and the text is exactly as long as the line.            *)
LEMMA LineSplitsBuffer ==
  ASSUME NEW buffer \in Seq(Byte),
         NEW line, line.end \in Nat, line.termlen \in Nat,
         line.end + line.termlen <= Len(buffer)
  PROVE  /\ LineText(buffer, line) \in Seq(Byte)
         /\ AfterLine(buffer, line) \in Seq(Byte)
         /\ Len(LineText(buffer, line)) = line.end
         /\ Len(AfterLine(buffer, line)) = Len(buffer) - line.end - line.termlen
<1>1. \A i \in 1 .. line.end : buffer[i] \in Byte
  OBVIOUS
<1>2. \A i \in line.end + line.termlen + 1 .. Len(buffer) : buffer[i] \in Byte
  OBVIOUS
<1>3. SubSeq(buffer, 1, line.end) \in Seq(Byte) /\ Len(SubSeq(buffer, 1, line.end)) = line.end
  BY <1>1, SubSeqProperties
<1>4. /\ SubSeq(buffer, line.end + line.termlen + 1, Len(buffer)) \in Seq(Byte)
      /\ Len(SubSeq(buffer, line.end + line.termlen + 1, Len(buffer)))
           = Len(buffer) - line.end - line.termlen
  BY <1>2, SubSeqProperties
<1> QED
  BY <1>3, <1>4 DEF LineText, AfterLine
-----------------------------------------------------------------------------

(* What Calls() and Receives() build is a call of the engine.              *)
LEMMA CallsType ==
  ASSUME NEW fn \in Function, NEW status \in ProtocolResult \cup IoStatus
  PROVE  Calls(fn, status) \in CallSet
BY DEF Calls, CallSet, Source

(* A readCallback with its input is a call.                                *)
LEMMA ReceivesType ==
  ASSUME NEW status \in IoStatus, NEW input \in Seq(Byte), NEW source \in Source
  PROVE  Receives(status, input, source) \in CallSet
BY DEF Receives, CallSet, Function, Callback

(* A next call without input has the status that its function expects.     *)
LEMMA NextCallType ==
  ASSUME \/ call' = Idle
         \/ \E fn \in Function \ {"readCallback", "parse"}, status \in ProtocolResult :
              call' = Calls(fn, status)
  PROVE  call' \in CallSet /\ StatusMatches'
BY CallsType DEF Idle, Calls, Function, Op, Callback, ProtocolResult, StatusMatches

(* finishProtocol() is called with a protocol result.                      *)
LEMMA FinishType ==
  ASSUME NEW status \in ProtocolResult, Finish(status)
  PROVE  call' \in CallSet /\ StatusMatches'
BY NextCallType DEF Finish, Function, Callback, Op

(* Requests to the bus preserve the types.                                 *)
LEMMA BusTakesType ==
  ASSUME TypeInv, NEW kind \in Activity \ {"obsolete"}, NEW locks \in Int,
         BusTakes(kind, locks)
  PROVE  /\ call' \in CallSet /\ StatusMatches'
         /\ outstanding' \in SUBSET Activity /\ late' \in SUBSET QueueKind
         /\ busLocks' \in Int
<1>1. CASE outstanding' = outstanding \cup {kind} /\ busLocks' = locks
           /\ call' = Idle /\ UNCHANGED late
  BY <1>1, CallsType DEF TypeInv, TypeOK, StatusMatches, Idle, Calls, Function,
     ProtocolResult
<1>2. CASE /\ kind \in Immediate
           /\ busLocks' = IF kind = "lock" THEN locks + 1 ELSE locks
           /\ IF Has("Aborted") THEN call' = Idle
              ELSE IF kind = "read"
              THEN \E c \in Chunks : call' = Receives("End", c, "read")
              ELSE call' = Calls(CallbackOf[kind], "Success")
           /\ UNCHANGED <<outstanding, late>>
  <2>1. CallbackOf[kind] \in Callback
    BY DEF CallbackOf, Callback, Activity, QueueKind
  <2>2. /\ outstanding' \in SUBSET Activity /\ late' \in SUBSET QueueKind
        /\ busLocks' \in Int
    BY <1>2 DEF TypeInv, TypeOK
  <2>3. CASE call' = Idle
    BY <2>2, <2>3, CallsType
    DEF StatusMatches, Idle, Calls, Function, ProtocolResult
  <2>4. CASE \E c \in Chunks : call' = Receives("End", c, "read")
    <3>1. PICK c \in Chunks : call' = Receives("End", c, "read")
      BY <2>4
    <3>2. c \in Seq(Byte) /\ "End" \in IoStatus /\ "read" \in Source
      BY StreamCoreAssumption DEF IoStatus, Source
    <3>3. call' \in CallSet
      BY <3>1, <3>2, ReceivesType
    <3> QED
      BY <2>2, <3>1, <3>2, <3>3 DEF StatusMatches, Receives
  <2>5. CASE call' = Calls(CallbackOf[kind], "Success")
    <3>1. call' \in CallSet
      BY <2>1, <2>5, CallsType DEF Function, ProtocolResult
    <3> QED
      BY <2>1, <2>2, <2>5, <3>1
      DEF StatusMatches, Calls, Callback, ProtocolResult, IoStatus
  <2> QED
    BY <1>2, <2>3, <2>4, <2>5
<1> QED
  BY <1>1, <1>2 DEF BusTakes

(* The command at a position of the program is one of the commands.        *)
LEMMA OpAtType ==
  ASSUME TypeOK, NEW index \in [block : Block, pos : Nat \ {0}]
  PROVE  OpAt(index) \in Op \cup {"end"}
<1>1. protocol \in [Block -> Seq(Command)]
  BY StreamCoreAssumption DEF TypeOK
<1>2. protocol[index.block] \in Seq(Command)
  BY <1>1
<1>3. CASE index.pos <= Len(protocol[index.block])
  <2>1. protocol[index.block][index.pos] \in Command
    BY <1>2, <1>3
  <2> QED
    BY <1>3, <2>1 DEF OpAt, Command
<1> QED
  BY <1>3 DEF OpAt

(* Starting a protocol preserves the types.                                *)
LEMMA StartProtocolType ==
  ASSUME TypeInv, NEW mode \in StartMode, StartProtocol(mode),
         ret' \in {"none", "open", "true", "false"}
  PROVE  TypeInv'
<1>1. ModeFlags[mode] \in SUBSET Flag /\ BlockOf[mode] \in Block
  BY DEF ModeFlags, BlockOf, StartMode, Flag, Block
<1>2. UNCHANGED <<protocol, activeCommand, inputVars, busVars>>
  BY DEF StartProtocol
<1>3. flags' \in SUBSET Flag
  BY <1>1 DEF StartProtocol
<1>4. commandIndex' \in [block : Block, pos : Nat \ {0}] /\ runningHandler' \in ProtocolResult
  BY <1>1 DEF StartProtocol, TypeInv, TypeOK, ProtocolResult
<1>5. call' = Idle \/ call' = Calls("evalCommand", "Success")
  BY DEF StartProtocol
<1>6. call' \in CallSet /\ StatusMatches'
  BY <1>5, CallsType DEF Idle, Calls, Function, ProtocolResult, StatusMatches
<1> QED
  BY <1>2, <1>3, <1>4, <1>6 DEF TypeInv, TypeOK, inputVars, busVars

(* Every step of the engine preserves the types.                           *)
LEMMA EngineType ==
  ASSUME TypeInv, EngineStep
  PROVE  TypeInv'
<1> USE DEF TypeInv
<1> DEFINE Results == ProtocolResult \cup IoStatus
<1>1. CASE EvalCommand
  <2>1. NextOp \in Op \cup {"end"}
    BY OpAtType DEF NextOp, TypeOK
  <2>2. call' = Idle \/ call' = Calls(NextOp, "Success")
    BY <1>1 DEF EvalCommand
  <2>3. call' \in CallSet /\ StatusMatches'
    BY <2>1, <2>2, CallsType
    DEF Idle, Calls, Function, Callback, Op, ProtocolResult, StatusMatches
  <2> QED
    BY <1>1, <2>1, <2>3 DEF EvalCommand, TypeOK, Return, inputVars, busVars
<1>2. CASE EvalEnd
  <2>1. call' \in CallSet /\ StatusMatches'
    BY <1>2, CallsType DEF EvalEnd, Finish, Calls, Function, ProtocolResult, StatusMatches
  <2> QED
    BY <1>2, <2>1 DEF EvalEnd, TypeOK, Return, programVars, inputVars, busVars
<1>3. CASE EvalOut
  <2>1. flags' \in SUBSET Flag
    BY <1>3 DEF EvalOut, EarlyFlags, TypeOK, Flag
  <2>2. /\ unparsedInput' \in BOOLEAN /\ inputBuffer' \in Seq(Byte)
        /\ inputLine' \in Seq(Byte) /\ lastInputStatus' \in IoStatus
        /\ UNCHANGED <<protocol, programVars>>
    <3>1. /\ unparsedInput' = FALSE /\ inputBuffer' = <<>> /\ inputLine' = <<>>
          /\ UNCHANGED <<protocol, programVars, lastInputStatus>>
      BY <1>3, Zenon DEF EvalOut
    <3>2. <<>> \in Seq(Byte)
      OBVIOUS
    <3> QED
      BY <3>1, <3>2 DEF TypeOK, programVars
  <2>3. ret' \in {"none", "open", "true", "false"}
    BY <1>3 DEF EvalOut, TypeOK, Return
  <2>4. \/ \E kind \in {"lock", "write"} : BusTakes(kind, busLocks)
        \/ /\ UNCHANGED busVars
           /\ call' = Idle \/ \E status \in {"FormatError", "Offline"} : Finish(status)
    BY <1>3, Zenon DEF EvalOut, BusRefuses
  <2>5. /\ call' \in CallSet /\ StatusMatches'
        /\ outstanding' \in SUBSET Activity /\ late' \in SUBSET QueueKind
        /\ busLocks' \in Int
    <3>1. CASE \E kind \in {"lock", "write"} : BusTakes(kind, busLocks)
      BY <3>1, BusTakesType DEF Activity, QueueKind, TypeOK
    <3>2. CASE UNCHANGED busVars /\ call' = Idle
      BY <3>2, CallsType
      DEF Idle, Calls, Function, ProtocolResult, StatusMatches, TypeOK, busVars
    <3>3. CASE UNCHANGED busVars /\ \E status \in {"FormatError", "Offline"} : Finish(status)
      BY <3>3, CallsType
      DEF Finish, Calls, Function, ProtocolResult, StatusMatches, TypeOK, busVars
    <3> QED
      BY <2>4, <3>1, <3>2, <3>3
  <2> QED
    BY <2>1, <2>2, <2>3, <2>5 DEF TypeOK, programVars
<1>4. CASE EvalIn
  <2>1. CASE call' = Idle
    BY <1>4, <2>1, CallsType
    DEF EvalIn, Idle, Calls, Function, ProtocolResult, StatusMatches, TypeOK, Flag,
        Return, programVars, inputVars, busVars
  <2>2. CASE call' = Receives(lastInputStatus, <<>>, "leftover") /\ UNCHANGED ret
    <3>1. lastInputStatus \in IoStatus /\ <<>> \in Seq(Byte) /\ "leftover" \in Source
      BY DEF TypeOK, Source
    <3>2. call' \in CallSet
      BY <2>2, <3>1, ReceivesType
    <3> QED
      BY <1>4, <2>2, <3>1, <3>2
      DEF EvalIn, Receives, StatusMatches, TypeOK, Flag, programVars, inputVars, busVars
  <2>3. CASE call' = Calls("readRequest", "Success") /\ UNCHANGED ret
    BY <1>4, <2>3, CallsType
    DEF EvalIn, Calls, Function, ProtocolResult, StatusMatches, TypeOK, Flag,
        programVars, inputVars, busVars
  <2> QED
    BY <1>4, <2>1, <2>2, <2>3 DEF EvalIn
<1>5. CASE ReadRequest
  <2> DEFINE kind  == IF Has("AsyncMode") THEN "asyncRead" ELSE "read"
             locks == IF Has("AsyncMode") /\ Has("BusOwner")
                      THEN busLocks - 1 ELSE busLocks
  <2>1. kind \in Activity \ {"obsolete"} /\ locks \in Int
    BY DEF Activity, QueueKind, TypeOK
  <2>2. flags' \in SUBSET Flag
    BY <1>5 DEF ReadRequest, TypeOK
  <2>3. \/ BusTakes(kind, locks)
        \/ busLocks' = locks /\ call' = Idle /\ UNCHANGED <<outstanding, late>>
    BY <1>5, Zenon DEF ReadRequest
  <2> HIDE DEF kind, locks
  <2>4. /\ call' \in CallSet /\ StatusMatches'
        /\ outstanding' \in SUBSET Activity /\ late' \in SUBSET QueueKind
        /\ busLocks' \in Int
    BY <2>1, <2>3, BusTakesType, CallsType
    DEF Idle, Calls, Function, ProtocolResult, StatusMatches, TypeOK
  <2> QED
    BY <1>5, <2>2, <2>4 DEF ReadRequest, TypeOK, Return, programVars, inputVars
<1>6. CASE EvalWait
  <2>1. call' \in CallSet /\ StatusMatches'
    BY <1>6, CallsType DEF EvalWait, Idle, Calls, Function, ProtocolResult, StatusMatches
  <2> QED
    BY <1>6, <2>1 DEF EvalWait, TypeOK, Flag, Activity, Return, programVars, inputVars
<1>7. CASE EvalEvent
  <2>1. flags' \in SUBSET Flag
    BY <1>7 DEF EvalEvent, TypeOK, Flag
  <2>2. PICK locks \in Int : BusTakes("event", locks)
    BY <1>7 DEF EvalEvent, TypeOK
  <2>3. /\ call' \in CallSet /\ StatusMatches'
        /\ outstanding' \in SUBSET Activity /\ late' \in SUBSET QueueKind
        /\ busLocks' \in Int
    BY <2>2, BusTakesType DEF Activity
  <2> QED
    BY <1>7, <2>1, <2>3 DEF EvalEvent, TypeOK, Return, programVars, inputVars
<1>8. CASE EvalExec
  <2>1. CASE Finish("FormatError") /\ Return("false") /\ UNCHANGED <<flags, busVars>>
    <3>1. call' \in CallSet /\ StatusMatches'
      BY <2>1, CallsType DEF Finish, Calls, Function, ProtocolResult, StatusMatches
    <3> QED
      BY <1>8, <2>1, <3>1 DEF EvalExec, TypeOK, Return, programVars, inputVars, busVars
  <2>2. CASE flags' = flags \ {"BusOwner"}
    <3>1. PICK locks \in Int : BusTakes("exec", locks) \/ UNCHANGED busVars
      BY <1>8, <2>2 DEF EvalExec, TypeOK
    <3>2. /\ call' \in CallSet /\ StatusMatches'
          /\ outstanding' \in SUBSET Activity /\ late' \in SUBSET QueueKind
          /\ busLocks' \in Int
      BY <1>8, <2>2, <3>1, BusTakesType, CallsType, SMTT(30)
      DEF EvalExec, Activity, TypeOK, busVars, Finish, Calls, Function,
          ProtocolResult, StatusMatches
    <3> QED
      BY <1>8, <2>2, <3>2 DEF EvalExec, TypeOK, Return, programVars, inputVars
  <2> QED
    BY <1>8, <2>1, <2>2 DEF EvalExec
<1>9. CASE EvalConnect \/ EvalDisconnect
  <2>1. PICK kind \in {"connect", "disconnect"} :
          \/ BusTakes(kind, busLocks)
          \/ UNCHANGED busVars /\ (call' = Idle \/ Finish("Fault"))
    BY <1>9, Zenon DEF EvalConnect, EvalDisconnect, BusRefuses
  <2>2. CASE BusTakes(kind, busLocks)
    <3>1. /\ call' \in CallSet /\ StatusMatches'
          /\ outstanding' \in SUBSET Activity /\ late' \in SUBSET QueueKind
          /\ busLocks' \in Int
      BY <2>1, <2>2, BusTakesType DEF Activity, QueueKind, TypeOK
    <3> QED
      BY <1>9, <3>1
      DEF EvalConnect, EvalDisconnect, TypeOK, Return, programVars, inputVars
  <2>3. CASE UNCHANGED busVars /\ (call' = Idle \/ Finish("Fault"))
    <3>1. call' \in CallSet /\ StatusMatches'
      BY <2>3, CallsType
      DEF Finish, Calls, Idle, Function, ProtocolResult, StatusMatches
    <3> QED
      BY <1>9, <2>3, <3>1
      DEF EvalConnect, EvalDisconnect, TypeOK, Return, programVars, inputVars, busVars
  <2> QED
    BY <2>1, <2>2, <2>3
<1>10. CASE LockCallback
  <2>1. flags' \in SUBSET Flag
    BY <1>10 DEF LockCallback, Unexpected, TypeOK, Flag
  <2>2. \/ BusTakes("write", busLocks)
        \/ /\ UNCHANGED busVars
           /\ call' = Idle \/ \E status \in {"Fault", "LockTimeout"} : Finish(status)
    BY <1>10, Zenon DEF LockCallback, Unexpected, BusRefuses
  <2>3. /\ call' \in CallSet /\ StatusMatches'
        /\ outstanding' \in SUBSET Activity /\ late' \in SUBSET QueueKind
        /\ busLocks' \in Int
    <3>1. CASE BusTakes("write", busLocks)
      BY <3>1, BusTakesType DEF Activity, QueueKind, TypeOK
    <3>2. CASE UNCHANGED busVars /\ call' = Idle
      BY <3>2, NextCallType DEF TypeOK, busVars
    <3>3. CASE UNCHANGED busVars /\ \E status \in {"Fault", "LockTimeout"} : Finish(status)
      BY <3>3, FinishType DEF ProtocolResult, TypeOK, busVars
    <3> QED
      BY <2>2, <3>1, <3>2, <3>3
  <2> QED
    BY <1>10, <2>1, <2>3 DEF LockCallback, TypeOK, programVars, inputVars
<1>11. CASE WriteCallback \/ EventCallback \/ TimerCallback \/ ExecCallback
  <2>1. call' = Calls("evalCommand", "Success") \/ call' = Idle
        \/ \E status \in {"WriteTimeout", "ReplyTimeout", "Fault"} : Finish(status)
    BY <1>11 DEF WriteCallback, EventCallback, TimerCallback, ExecCallback,
                 Unexpected, CommandAnswer, Finish
  <2>2. call' \in CallSet /\ StatusMatches'
    BY <2>1, CallsType
    DEF Finish, Calls, Idle, Function, ProtocolResult, StatusMatches
  <2> QED
    BY <1>11, <2>2
    DEF WriteCallback, EventCallback, TimerCallback, ExecCallback, Unexpected,
        TypeOK, programVars, inputVars, busVars
<1>12. CASE ConnectCallback
  <2>1. CASE StartProtocol("StartInit") /\ UNCHANGED ret
    BY <2>1, StartProtocolType DEF StartMode, TypeOK
  <2>2. CASE /\ CommandAnswer \/ call' = Idle
             /\ UNCHANGED <<protocol, flags, programVars, inputVars, ret, busVars>>
    <3>1. call' \in CallSet /\ StatusMatches'
      BY <2>2, CallsType
      DEF CommandAnswer, Finish, Calls, Idle, Function, ProtocolResult, StatusMatches
    <3> QED
      BY <2>2, <3>1 DEF TypeOK, programVars, inputVars, busVars
  <2> QED
    BY <1>12, <2>1, <2>2, Zenon DEF ConnectCallback
<1>13. CASE DisconnectCallback
  <2>1. call' \in CallSet /\ StatusMatches'
    BY <1>13, CallsType
    DEF DisconnectCallback, CommandAnswer, Finish, Calls, Function, ProtocolResult,
        StatusMatches
  <2> QED
    BY <1>13, <2>1 DEF DisconnectCallback, TypeOK, programVars, inputVars, busVars
<1>14. CASE ReadCallback
  <2>1. call.status \in IoStatus /\ call.input \in Seq(Byte) /\ call.source \in Source
    BY <1>14 DEF ReadCallback, StatusMatches, TypeOK, CallSet
  <2>2. /\ lastInputStatus' = call.status
        /\ UNCHANGED <<protocol, flags, programVars, inputLine, busVars>>
    BY <1>14, Zenon DEF ReadCallback
  <2>3. ret' \in {"none", "open", "true", "false"}
    BY <1>14 DEF ReadCallback, ReadReturns, Return, TypeOK
  <2>4. unparsedInput' \in BOOLEAN /\ inputBuffer' \in Seq(Byte)
    <3>1. inputBuffer' \in {inputBuffer, <<>>, inputBuffer \o call.input}
      BY <1>14 DEF ReadCallback
    <3>2. unparsedInput' \in {unparsedInput, unparsedInput \/ inputBuffer' # <<>>}
      BY <1>14, Zenon DEF ReadCallback
    <3>3. inputBuffer \in Seq(Byte) /\ unparsedInput \in BOOLEAN
      BY DEF TypeOK
    <3>4. inputBuffer' \in Seq(Byte)
      <4>1. <<>> \in Seq(Byte) /\ inputBuffer \o call.input \in Seq(Byte)
        BY <2>1, <3>3
      <4> QED
        BY <3>1, <3>3, <4>1
    <3> QED
      BY <3>2, <3>3, <3>4
  <2>5. \/ call' = Idle \/ call' = Calls("in", "Success")
        \/ \E status \in {"ReplyTimeout", "Fault"} : Finish(status)
        \/ call' = [call EXCEPT !.fn = "parse", !.status = EffectiveStatus(call.status)]
    BY <1>14, Zenon DEF ReadCallback
  <2>6. call' \in CallSet /\ StatusMatches'
    <3>1. CASE call' = Idle \/ call' = Calls("in", "Success")
      BY <3>1, NextCallType DEF Function, Op, Callback, ProtocolResult
    <3>2. CASE \E status \in {"ReplyTimeout", "Fault"} : Finish(status)
      BY <3>2, FinishType DEF ProtocolResult
    <3>3. CASE call' = [call EXCEPT !.fn = "parse", !.status = EffectiveStatus(call.status)]
      BY <2>1, <3>3 DEF EffectiveStatus, IoStatus, CallSet, Function, TypeOK, StatusMatches
    <3> QED
      BY <2>5, <3>1, <3>2, <3>3
  <2> QED
    BY <2>1, <2>2, <2>3, <2>4, <2>6 DEF TypeOK, programVars, busVars
<1>15. CASE Parse
  <2> DEFINE found == LineAt(inputBuffer, Len(call.input), unparsedInput, call.status)
             line  == IF found.end = NotFound
                      THEN [end |-> Len(inputBuffer), termlen |-> 0] ELSE found
  <2>1. /\ call.input \in Seq(Byte) /\ call.source \in Source
        /\ inputBuffer \in Seq(Byte) /\ unparsedInput \in BOOLEAN
    BY DEF TypeOK, CallSet
  <2>2. /\ line.end \in Nat /\ line.termlen \in Nat
        /\ line.end + line.termlen <= Len(inputBuffer)
    BY <2>1, LineWithinBuffer
  <2>3. /\ LineText(inputBuffer, line) \in Seq(Byte)
        /\ AfterLine(inputBuffer, line) \in Seq(Byte)
    <3> HIDE DEF line
    <3> QED
      BY <2>1, <2>2, LineSplitsBuffer
  <2>4. UNCHANGED <<protocol, flags, programVars, lastInputStatus, late, busLocks>>
    BY <1>15, Zenon DEF Parse
  <2>5. CASE WantMore
    <3>1. CASE call.source = "leftover"
      BY <2>4, <2>5, <3>1, NextCallType
      DEF WantMore, TypeOK, programVars, Function, Callback, Op, ProtocolResult
    <3>2. CASE call.source # "leftover"
      BY <2>1, <2>4, <2>5, <3>2, NextCallType
      DEF WantMore, TypeOK, programVars, Source, Activity, QueueKind
    <3> QED
      BY <3>1, <3>2
  <2>6. CASE /\ unparsedInput' = FALSE /\ inputBuffer' = <<>>
             /\ call' = Calls("in", "Success") /\ ReadReturns
             /\ UNCHANGED <<inputLine, outstanding>>
    <3>1. <<>> \in Seq(Byte)
      OBVIOUS
    <3> QED
      BY <2>4, <2>6, <3>1, NextCallType
      DEF TypeOK, programVars, ReadReturns, Return, Function, Callback, Op, ProtocolResult
  <2>7. CASE /\ inputLine' = LineText(inputBuffer, line)
             /\ inputBuffer' = AfterLine(inputBuffer, line)
             /\ unparsedInput' = (inputBuffer' # <<>>)
             /\ \/ \E status \in {"ReadTimeout", "ScanError"} : Finish(status)
                \/ \E fn \in {"evalCommand", "in"} : call' = Calls(fn, "Success")
             /\ ReadReturns /\ UNCHANGED outstanding
    <3> HIDE DEF line
    <3>1. call' \in CallSet /\ StatusMatches'
      BY <2>7, FinishType, NextCallType DEF Function, Callback, Op, ProtocolResult
    <3> QED
      BY <2>3, <2>4, <2>7, <3>1 DEF TypeOK, programVars, ReadReturns, Return
  <2> QED
    BY <1>15, <2>5, <2>6, <2>7, Zenon DEF Parse
<1>16. CASE FinishProtocol
  <2>1. call.status \in ProtocolResult
    BY <1>16 DEF FinishProtocol, WithoutHandlers, Reported, StatusMatches
  <2> DEFINE status == IF call.status = "Success" /\ flags \cap BusPending # {}
                       THEN "Fault" ELSE call.status
  <2>2. status \in ProtocolResult
    BY <2>1 DEF ProtocolResult
  <2> HIDE DEF status
  <2>3. /\ activeCommand' = "end"
        /\ UNCHANGED <<protocol, flags, inputLine, lastInputStatus, ret, busVars>>
    BY <1>16, Zenon DEF FinishProtocol, WithoutHandlers, Reported
  <2>4. runningHandler' \in {runningHandler, status}
    BY <1>16, Zenon DEF FinishProtocol, WithoutHandlers, Reported, status
  <2>5. \/ call' = Calls("evalCommand", "Success")
        \/ \E result \in {status, runningHandler} : call' = Calls("cleanup", result)
    BY <1>16 DEF FinishProtocol, WithoutHandlers, Reported, status
  <2>6. unparsedInput' \in BOOLEAN /\ inputBuffer' \in Seq(Byte)
    <3>1. /\ unparsedInput' \in {unparsedInput, status = "Success" /\ unparsedInput}
          /\ inputBuffer' \in {inputBuffer, <<>>}
      BY <1>16, Zenon DEF FinishProtocol, WithoutHandlers, Reported, status
    <3>2. <<>> \in Seq(Byte)
      OBVIOUS
    <3> QED
      BY <3>1, <3>2 DEF TypeOK
  <2>7. commandIndex' \in [block : Block, pos : Nat \ {0}]
    <3>1. \/ commandIndex' = commandIndex
          \/ /\ status \in DOMAIN HandlerFor
             /\ \E pos \in {1, 2} :
                  commandIndex' = [block |-> HandlerFor[status], pos |-> pos]
      BY <1>16, Zenon DEF FinishProtocol, WithoutHandlers, Reported, status
    <3>2. ASSUME status \in DOMAIN HandlerFor PROVE HandlerFor[status] \in Block
      BY <3>2 DEF HandlerFor, Block, Handler
    <3> QED
      BY <3>1, <3>2 DEF TypeOK
  <2>8. call' \in CallSet /\ StatusMatches'
    BY <2>2, <2>5, NextCallType DEF TypeOK, Function, Callback, Op, ProtocolResult
  <2> QED
    BY <2>2, <2>3, <2>4, <2>6, <2>7, <2>8 DEF TypeOK, busVars
<1>17. CASE Cleanup
  <2>1. call.status \in ProtocolResult
    BY <1>17 DEF Cleanup, StatusMatches
  <2>2. call' \in CallSet /\ StatusMatches'
    BY <1>17, <2>1, NextCallType DEF Cleanup, Function, Callback, Op
  <2>3. outstanding' \in SUBSET Activity /\ late' \in SUBSET QueueKind
    BY <1>17 DEF Cleanup, BusFinish, TypeOK, Activity, QueueKind
  <2> QED
    BY <1>17, <2>2, <2>3 DEF Cleanup, TypeOK, programVars, inputVars
<1>18. CASE FinishHook
  <2>1. call' \in CallSet /\ StatusMatches'
    BY <1>18, NextCallType DEF FinishHook
  <2> QED
    BY <1>18, <2>1 DEF FinishHook, TypeOK, Flag, programVars, inputVars, busVars
<1> QED
  BY <1>1, <1>2, <1>3, <1>4, <1>5, <1>6, <1>7, <1>8, <1>9, <1>10, <1>11, <1>12,
     <1>13, <1>14, <1>15, <1>16, <1>17, <1>18, Zenon
  DEF EngineStep, ProtocolStep

(* Every step of the environment preserves the types.                      *)
LEMMA EnvironmentType ==
  ASSUME TypeInv, EnvironmentStep
  PROVE  TypeInv'
<1> USE DEF TypeInv
<1>1. CASE StartStep
  <2>1. PICK mode \in StartMode : Start(mode)
    BY <1>1 DEF StartStep
  <2>2. ret' \in {"none", "open", "true", "false"}
    BY <2>1 DEF Start
  <2> QED
    BY <2>1, <2>2, StartProtocolType DEF Start
<1>2. CASE StartReturned
  BY <1>2 DEF StartReturned, TypeOK, StatusMatches, programVars,
     inputVars, busVars
<1>3. ASSUME NEW kind \in DOMAIN Answers, NEW status \in Answers[kind], Answer(kind, status)
      PROVE  TypeInv'
  <2>1. kind \in Activity \ {"obsolete"} /\ status \in IoStatus /\ kind \notin {"read", "asyncRead"}
    BY <1>3 DEF Answers, Activity, QueueKind, IoStatus
  <2>2. CallbackOf[kind] \in Callback \ {"readCallback"}
    BY <2>1 DEF CallbackOf, Callback, Activity, QueueKind
  <2>3. call' \in CallSet /\ StatusMatches'
    <3>1. CASE call' = Idle
      BY <3>1, NextCallType
    <3>2. CASE call' = Calls(CallbackOf[kind], status)
      BY <2>1, <2>2, <3>2, CallsType DEF Calls, Function, Callback, Op, StatusMatches
    <3> QED
      BY <1>3, <3>1, <3>2 DEF Answer
  <2>4. /\ outstanding' \in SUBSET Activity /\ late' \in SUBSET QueueKind
        /\ busLocks' \in Int
    BY <1>3 DEF Answer, Answered, TypeOK
  <2> QED
    BY <1>3, <2>3, <2>4 DEF Answer, TypeOK, programVars, inputVars
<1>4. ASSUME NEW kind \in {"read", "asyncRead"}, NEW status \in IoStatus,
             NEW input \in Seq(Byte), AnswerRead(kind, status, input)
      PROVE  TypeInv'
  <2>1. call' \in CallSet /\ StatusMatches'
    <3>1. CASE call' = Idle
      BY <3>1, NextCallType
    <3>2. CASE call' = Receives(status, input, kind)
      BY <3>2, ReceivesType DEF Receives, Source, StatusMatches
    <3> QED
      BY <1>4, <3>1, <3>2 DEF AnswerRead
  <2>2. outstanding' \in SUBSET Activity /\ late' \in SUBSET QueueKind
    BY <1>4 DEF AnswerRead, Answered, TypeOK
  <2> QED
    BY <1>4, <2>1, <2>2 DEF AnswerRead, TypeOK, programVars, inputVars
<1>5. CASE AnswerStep
  <2>1. \A input \in Chunks : input \in Seq(Byte)
    BY StreamCoreAssumption
  <2>2. <<>> \in Seq(Byte)
    OBVIOUS
  <2> QED
    BY <1>3, <1>4, <1>5, <2>1, <2>2 DEF AnswerStep, IoStatus
<1>6. CASE EarlyInputStep
  <2>1. PICK input \in Chunks, status \in {"Success", "End"} : EarlyInput(status, input)
    BY <1>6 DEF EarlyInputStep
  <2>2. input \in Seq(Byte) /\ status \in IoStatus /\ "early" \in Source
    BY StreamCoreAssumption DEF IoStatus, Source
  <2>3. call' \in CallSet /\ StatusMatches'
    BY <2>1, <2>2, ReceivesType DEF EarlyInput, Receives, StatusMatches
  <2> QED
    BY <2>1, <2>3 DEF EarlyInput, TypeOK, programVars, inputVars, busVars
<1>7. CASE DisconnectStep
  <2>1. PICK kind \in {"write", "read", "asyncRead"} : AsyncDisconnect(kind)
    BY <1>7 DEF DisconnectStep
  <2>2. call' \in CallSet /\ StatusMatches'
    BY <2>1, NextCallType DEF AsyncDisconnect, Function, Callback, Op, ProtocolResult
  <2>3. outstanding' \in SUBSET Activity /\ late' \in SUBSET QueueKind
    BY <2>1 DEF AsyncDisconnect, Answered, TypeOK
  <2> QED
    BY <2>1, <2>2, <2>3 DEF AsyncDisconnect, TypeOK, programVars, inputVars
<1>8. CASE AsyncConnect
  <2>1. call' \in CallSet /\ StatusMatches'
    BY <1>8, NextCallType DEF AsyncConnect, Function, Callback, Op, ProtocolResult
  <2> QED
    BY <1>8, <2>1 DEF AsyncConnect, TypeOK, programVars, inputVars, busVars
<1> QED
  BY <1>1, <1>2, <1>5, <1>6, <1>7, <1>8, Zenon DEF EnvironmentStep

(* The initial values have the right types.                                *)
LEMMA InitType == Init => TypeInv
<1> SUFFICES ASSUME Init PROVE TypeInv
  OBVIOUS
<1>1. call \in CallSet /\ StatusMatches
  BY CallsType DEF Init, Idle, Calls, Function, Callback, Op, ProtocolResult, StatusMatches
<1>2. <<>> \in Seq(Byte)
  OBVIOUS
<1>3. commandIndex \in [block : Block, pos : Nat \ {0}]
  BY DEF Init, Block
<1>4. /\ protocol \in Protocols /\ flags \in SUBSET Flag
      /\ activeCommand \in Op \cup {"end"} /\ runningHandler \in ProtocolResult
      /\ lastInputStatus \in IoStatus
      /\ ret \in {"none", "open", "true", "false"}
      /\ outstanding \in SUBSET Activity /\ late \in SUBSET QueueKind
      /\ busLocks \in Int
  BY DEF Init, ProtocolResult, IoStatus
<1>5. inputBuffer \in Seq(Byte) /\ inputLine \in Seq(Byte)
  BY <1>2 DEF Init
<1>6. unparsedInput \in BOOLEAN
  BY Zenon DEF Init
<1> QED
  BY <1>1, <1>3, <1>4, <1>5, <1>6 DEF TypeInv, TypeOK

(* Every step preserves the types.                                         *)
LEMMA StepType ==
  ASSUME TypeInv, [Next]_vars
  PROVE  TypeInv'
<1>1. CASE UNCHANGED vars
  BY <1>1 DEF TypeInv, TypeOK, StatusMatches, vars, programVars, inputVars, busVars
<1> QED
  BY <1>1, EngineType, EnvironmentType DEF Next

(* Types and call statuses are right in every reachable state.             *)
LEMMA TypeInvariant == Spec => []TypeInv
<1>1. TypeInv /\ [Next]_vars => TypeInv'
  BY StepType
<1> QED
  BY <1>1, InitType, PTL DEF Spec

(* The variables of StreamCore have their types in every reachable state,  *)
(* for all protocols, inputs, terminators and bus implementations.         *)
THEOREM TypeCorrect == Spec => []TypeOK
<1>1. TypeInv => TypeOK
  BY DEF TypeInv
<1> QED
  BY <1>1, TypeInvariant, PTL
-----------------------------------------------------------------------------
(* Errors are reported and handled once, as long as no protocol is aborted *)
(* from outside.                                                           *)

(* Only evalCommand, a start and the end of a run touch the program, and   *)
(* only the end of a run reaches the cleanup.                              *)
LEMMA OtherStepsType ==
  ASSUME TypeInv,
         \/ EvalEnd \/ EvalOut \/ EvalIn \/ ReadRequest \/ EvalWait
         \/ EvalEvent \/ EvalExec \/ EvalConnect \/ EvalDisconnect
         \/ LockCallback \/ WriteCallback \/ EventCallback \/ TimerCallback
         \/ ExecCallback \/ DisconnectCallback \/ ReadCallback \/ Parse
         \/ FinishHook \/ StartReturned \/ AnswerStep \/ EarlyInputStep
         \/ DisconnectStep \/ AsyncConnect
  PROVE  /\ UNCHANGED <<commandIndex, runningHandler>>
         /\ call'.fn \notin {"cleanup", "hook"} \/ call' = call
<1>1. ASSUME NEW kind \in Activity \ {"obsolete"}, NEW locks, BusTakes(kind, locks)
      PROVE  call'.fn \notin {"cleanup", "hook"}
  <2>1. CallbackOf[kind] \in Callback
    BY DEF CallbackOf, Callback, Activity, QueueKind
  <2>2. call' = Idle \/ call' = Calls(CallbackOf[kind], "Success")
        \/ \E c \in Chunks : call' = Receives("End", c, "read")
    BY <1>1, Zenon DEF BusTakes
  <2> QED
    BY <2>1, <2>2 DEF Idle, Calls, Receives, Callback
<1>2. CASE EvalEnd \/ EvalWait \/ EvalIn
  BY <1>2 DEF EvalEnd, EvalWait, EvalIn, Finish, Calls, Receives, Idle, programVars
<1>3. CASE EvalOut
  <2>1. \/ \E kind \in {"lock", "write"} : BusTakes(kind, busLocks)
        \/ call' = Idle \/ \E result : Finish(result)
    BY <1>3, Zenon DEF EvalOut
  <2> QED
    BY <1>1, <1>3, <2>1 DEF EvalOut, Activity, QueueKind, Finish, Calls, Idle, programVars
<1>4. CASE ReadRequest
  <2>1. \/ \E kind \in {"read", "asyncRead"}, locks \in Int : BusTakes(kind, locks)
        \/ call' = Idle
    BY <1>4 DEF ReadRequest, TypeInv, TypeOK
  <2> QED
    BY <1>1, <1>4, <2>1 DEF ReadRequest, Activity, QueueKind, Calls, Idle, programVars
<1>5. CASE EvalEvent
  <2>1. \E locks : BusTakes("event", locks)
    BY <1>5, Zenon DEF EvalEvent
  <2> QED
    BY <1>1, <1>5, <2>1 DEF EvalEvent, Activity, programVars
<1>6. CASE EvalExec
  <2>1. (\E locks : BusTakes("exec", locks)) \/ Finish("FormatError")
    BY <1>6, Zenon DEF EvalExec
  <2>2. call'.fn \notin {"cleanup", "hook"}
    BY <1>1, <2>1 DEF Activity, Finish, Calls
  <2> QED
    BY <1>6, <2>2 DEF EvalExec, programVars
<1>7. CASE EvalConnect \/ EvalDisconnect
  <2>1. \/ \E kind \in {"connect", "disconnect"} : BusTakes(kind, busLocks)
        \/ call' = Idle \/ Finish("Fault")
    BY <1>7, Zenon DEF EvalConnect, EvalDisconnect
  <2> QED
    BY <1>1, <1>7, <2>1
    DEF EvalConnect, EvalDisconnect, Activity, QueueKind, Finish, Calls, Idle, programVars
<1>8. CASE LockCallback
  <2>1. BusTakes("write", busLocks) \/ call' = Idle \/ \E result : Finish(result)
    BY <1>8, Zenon DEF LockCallback, Unexpected
  <2> QED
    BY <1>1, <1>8, <2>1
    DEF LockCallback, Activity, QueueKind, Finish, Calls, Idle, programVars
<1>9. CASE WriteCallback \/ EventCallback \/ TimerCallback \/ ExecCallback
           \/ DisconnectCallback
  <2>1. \/ call' = Idle \/ call' = Calls("evalCommand", "Success")
        \/ \E result : Finish(result)
    BY <1>9, Zenon DEF WriteCallback, EventCallback, TimerCallback, ExecCallback,
       DisconnectCallback, CommandAnswer, Unexpected
  <2> QED
    BY <1>9, <2>1 DEF WriteCallback, EventCallback, TimerCallback, ExecCallback,
       DisconnectCallback, Finish, Calls, Idle, programVars
<1>10. CASE ReadCallback
  <2>1. \/ call' = Idle \/ call' = Calls("in", "Success")
        \/ \E result : Finish(result)
        \/ call' = [call EXCEPT !.fn = "parse", !.status = EffectiveStatus(call.status)]
    BY <1>10, Zenon DEF ReadCallback
  <2>2. call'.fn \notin {"cleanup", "hook"}
    <3>1. CASE call' = [call EXCEPT !.fn = "parse", !.status = EffectiveStatus(call.status)]
      BY <3>1 DEF TypeInv, TypeOK, CallSet
    <3>2. CASE \E result : Finish(result)
      BY <3>2 DEF Finish, Calls
    <3>3. CASE call' = Idle \/ call' = Calls("in", "Success")
      BY <3>3 DEF Calls, Idle
    <3> QED
      BY <2>1, <3>1, <3>2, <3>3
  <2> QED
    BY <1>10, <2>2 DEF ReadCallback, programVars
<1>11. CASE Parse
  <2>1. \/ WantMore \/ \E result : Finish(result)
        \/ \E fn \in {"evalCommand", "in"} : call' = Calls(fn, "Success")
    BY <1>11, Zenon DEF Parse
  <2>2. UNCHANGED programVars
    BY <1>11, Zenon DEF Parse
  <2> QED
    BY <2>1, <2>2 DEF WantMore, Finish, Calls, Idle, programVars
<1>12. CASE FinishHook \/ StartReturned \/ AsyncConnect
            \/ EarlyInputStep \/ DisconnectStep
  BY <1>12 DEF FinishHook, StartReturned, AsyncConnect, EarlyInputStep,
     EarlyInput, DisconnectStep, AsyncDisconnect, Calls, Receives, Idle, programVars
<1>13. CASE AnswerStep
  <2>1. ASSUME NEW kind \in DOMAIN Answers, NEW status, Answer(kind, status)
        PROVE  UNCHANGED programVars /\ call'.fn \notin {"cleanup", "hook"}
    <3>1. CallbackOf[kind] \in Callback
      BY DEF CallbackOf, Callback, Answers
    <3> QED
      BY <2>1, <3>1 DEF Answer, Calls, Idle, Callback
  <2>2. ASSUME NEW kind, NEW status, NEW input, AnswerRead(kind, status, input)
        PROVE  UNCHANGED programVars /\ call'.fn \notin {"cleanup", "hook"}
    BY <2>2 DEF AnswerRead, Receives, Calls, Idle
  <2>3. UNCHANGED programVars /\ call'.fn \notin {"cleanup", "hook"}
    BY <1>13, <2>1, <2>2 DEF AnswerStep
  <2> QED
    BY <2>3 DEF programVars
<1> QED
  BY <1>2, <1>3, <1>4, <1>5, <1>6, <1>7, <1>8, <1>9, <1>10, <1>11, <1>12, <1>13, Zenon

(* A step keeps what the record will be told of the run.                   *)
LEMMA ErrorKeptByStep ==
  ASSUME TypeInv, ErrorKept, Next
  PROVE  ErrorKept'
<1>1. CASE /\ UNCHANGED <<commandIndex, runningHandler>>
           /\ call'.fn \notin {"cleanup", "hook"} \/ call' = call
  BY <1>1 DEF ErrorKept
<1>2. CASE EvalCommand
  <2>1. NextOp \in Op \cup {"end"}
    BY OpAtType DEF NextOp, TypeInv, TypeOK
  <2>2. call'.fn \in Op \cup {"idle", "end"}
    BY <1>2, <2>1 DEF EvalCommand, Calls, Idle
  <2>3. commandIndex'.block = commandIndex.block /\ UNCHANGED runningHandler
    BY <1>2 DEF EvalCommand, TypeInv, TypeOK
  <2> QED
    BY <2>2, <2>3 DEF ErrorKept, Op
<1>3. ASSUME NEW mode \in StartMode, StartProtocol(mode)
      PROVE  ErrorKept'
  <2>1. call'.fn \in {"idle", "evalCommand"}
    BY <1>3 DEF StartProtocol, Calls, Idle
  <2>2. \/ UNCHANGED <<commandIndex, runningHandler>>
        \/ commandIndex'.block \in {"commands", "onInit"}
    BY <1>3 DEF StartProtocol, BlockOf, StartMode
  <2> QED
    BY <2>1, <2>2 DEF ErrorKept, Handler
<1>4. CASE ConnectCallback
  <2>1. \/ StartProtocol("StartInit")
        \/ /\ UNCHANGED programVars
           /\ call' = Idle \/ call' = Calls("evalCommand", "Success") \/ Finish("Fault")
    BY <1>4, Zenon DEF ConnectCallback, CommandAnswer
  <2>2. CASE StartProtocol("StartInit")
    BY <1>3, <2>2 DEF StartMode
  <2> QED
    BY <1>1, <2>1, <2>2 DEF Idle, Calls, Finish, programVars
<1>5. CASE FinishProtocol
  <2> DEFINE status == IF call.status = "Success" /\ flags \cap BusPending # {}
                       THEN "Fault" ELSE call.status
  <2>1. CASE runningHandler # "Success" \/ Has("InitRun")
    <3>1. /\ call' = Calls("cleanup", IF status = "Success" THEN runningHandler ELSE status)
          /\ UNCHANGED <<commandIndex, runningHandler>>
      BY <1>5, <2>1, Zenon DEF FinishProtocol, WithoutHandlers, Reported
    <3> HIDE DEF status
    <3> QED
      BY <3>1 DEF ErrorKept, Calls
  <2>2. CASE ~(runningHandler # "Success" \/ Has("InitRun"))
    <3>1. /\ runningHandler' = status
          /\ \/ /\ status \in DOMAIN HandlerFor
                /\ call' \in {Calls("cleanup", status), Calls("evalCommand", "Success")}
             \/ call' = Calls("cleanup", status) /\ UNCHANGED commandIndex
      BY <1>5, <2>2, Zenon DEF FinishProtocol, WithoutHandlers, Reported
    <3>2. status \in DOMAIN HandlerFor => status # "Success"
      BY DEF HandlerFor
    <3>3. commandIndex.block \notin Handler
      BY <2>2 DEF ErrorKept
    <3> HIDE DEF status
    <3> QED
      BY <3>1, <3>2, <3>3 DEF ErrorKept, Calls
  <2> QED
    BY <2>1, <2>2
<1>6. CASE Cleanup
  BY <1>6 DEF Cleanup, ErrorKept, Calls, programVars
<1>7. CASE StartStep
  BY <1>3, <1>7 DEF StartStep, Start
<1> QED
  BY <1>1, <1>2, <1>4, <1>5, <1>6, <1>7, OtherStepsType, Zenon
  DEF Next, EngineStep, ProtocolStep, EnvironmentStep

(* The two facts hold in every reachable state.                            *)
LEMMA ErrorInvariant == Spec => [](TypeInv /\ ErrorKept)
<1>1. Init => ErrorKept
  BY DEF Init, ErrorKept, Idle, Calls, Handler
<1>2. TypeInv /\ ErrorKept /\ [Next]_vars => ErrorKept'
  <2> SUFFICES ASSUME TypeInv, ErrorKept, [Next]_vars PROVE ErrorKept'
    OBVIOUS
  <2>1. CASE UNCHANGED vars
    BY <2>1 DEF ErrorKept, vars, programVars
  <2> QED
    BY <2>1, ErrorKeptByStep
<1> QED
  BY <1>1, <1>2, TypeInvariant, PTL DEF Spec

(* A run that met an error never reports Success to the record, whatever   *)
(* its error handler does.                                                 *)
THEOREM FailureIsReported == Spec => []FailureReported
<1>1. ErrorKept => FailureReported
  BY DEF ErrorKept, FailureReported
<1> QED
  BY <1>1, ErrorInvariant, PTL

(* An error inside an error handler ends the run: the program never jumps  *)
(* from one handler to another.                                            *)
THEOREM AtMostOneHandler == Spec => OneHandlerPerRun
<1> DEFINE Stays == commandIndex.block \in Handler
      => commandIndex'.block = commandIndex.block \/ runningHandler' = "Success"
<1>1. TypeInv /\ ErrorKept /\ [Next]_vars => [Stays]_vars
  <2> SUFFICES ASSUME TypeInv, ErrorKept, Next, commandIndex.block \in Handler
               PROVE  commandIndex'.block = commandIndex.block \/ runningHandler' = "Success"
    BY DEF Stays
  <2>1. CASE UNCHANGED <<commandIndex, runningHandler>>
    BY <2>1
  <2>2. CASE EvalCommand
    BY <2>2 DEF EvalCommand, TypeInv, TypeOK
  <2>3. CASE FinishProtocol
    <3>1. runningHandler # "Success"
      BY DEF ErrorKept
    <3> QED
      BY <2>3, <3>1, Zenon DEF FinishProtocol, WithoutHandlers, Reported
  <2>4. ASSUME NEW mode \in StartMode, StartProtocol(mode)
        PROVE  commandIndex' = commandIndex \/ runningHandler' = "Success"
    BY <2>4 DEF StartProtocol
  <2>5. CASE ConnectCallback
    BY <2>4, <2>5 DEF ConnectCallback, StartMode, programVars
  <2>6. CASE StartStep
    BY <2>4, <2>6 DEF StartStep, Start
  <2>7. CASE Cleanup
    BY <2>7 DEF Cleanup, programVars
  <2> QED
    BY <2>1, <2>2, <2>3, <2>5, <2>6, <2>7, OtherStepsType, Zenon
    DEF Next, EngineStep, ProtocolStep, EnvironmentStep
<1> QED
  BY <1>1, ErrorInvariant, PTL DEF Spec, OneHandlerPerRun
-----------------------------------------------------------------------------
(* The bus lock while protocols are aborted at any time.                   *)

(* A request takes the locks it is given; only an immediate answer to a    *)
(* lock request takes one more, for the callback.                          *)
LEMMA RequestLocks ==
  ASSUME NEW kind \in Activity \ {"obsolete"}, NEW locks \in Int, BusTakes(kind, locks)
  PROVE  busLocks' \in Int /\ busLocks' >= locks + One(LockGranted')
<1>1. CASE busLocks' = locks /\ call' = Idle
  BY <1>1 DEF Idle, Calls, LockGranted, One
<1>2. CASE kind = "lock" /\ busLocks' = locks + 1
  BY <1>2 DEF One
<1>3. CASE kind = "read" /\ busLocks' = locks /\ \E c \in Chunks : call' = Receives("End", c, "read")
  BY <1>3 DEF Receives, LockGranted, One
<1>4. CASE kind # "lock" /\ busLocks' = locks /\ call' = Calls(CallbackOf[kind], "Success")
  <2>1. CallbackOf[kind] # "lockCallback"
    BY <1>4 DEF CallbackOf, Activity, QueueKind
  <2> QED
    BY <1>4, <2>1 DEF Calls, LockGranted, One
<1> QED
  BY <1>1, <1>2, <1>3, <1>4, Zenon DEF BusTakes

(* What a step may do to the bus lock so that the locks still cover the    *)
(* owner and the granted lock.                                             *)
LEMMA LocksStillCover ==
  ASSUME busLocks \in Int, LocksCover, busLocks' \in Int,
         \/ /\ busLocks' >= busLocks - One(LockGranted) + One(LockGranted')
            /\ Has("BusOwner")' => Has("BusOwner")
         \/ /\ Has("BusOwner") /\ ~Has("BusOwner")'
            /\ busLocks' >= busLocks - 1 - One(LockGranted) + One(LockGranted')
  PROVE  LocksCover'
BY Zenon, SMT DEF LocksCover, One

(* Most functions of the engine neither take nor release the bus.          *)
LEMMA LocksUntouched ==
  ASSUME TypeInv, LocksCover, busLocks' = busLocks,
         "BusOwner" \in flags' => "BusOwner" \in flags,
         call'.fn # "lockCallback" \/ call' = call
  PROVE  LocksCover'
<1>1. busLocks \in Int
  BY DEF TypeInv, TypeOK
<1>2. One(LockGranted') <= One(LockGranted) /\ One(LockGranted') \in Int /\ One(LockGranted) \in Int
  BY DEF One, LockGranted
<1>3. One(Has("BusOwner")') <= One(Has("BusOwner"))
  BY DEF One, Has
<1>4. One(Has("BusOwner")') \in Int /\ One(Has("BusOwner")) \in Int
  BY DEF One
<1> HIDE DEF One
<1> QED
  BY <1>1, <1>2, <1>3, <1>4 DEF LocksCover

(* Commands that do not involve the bus leave its lock alone.              *)
LEMMA EvalLocks ==
  ASSUME TypeInv, LocksCover,
         EvalCommand \/ EvalEnd \/ EvalIn \/ EvalWait
  PROVE  LocksCover'
<1>1. busLocks' = busLocks
  BY DEF EvalCommand, EvalEnd, EvalIn, EvalWait, busVars
<1>2. "BusOwner" \in flags' => "BusOwner" \in flags
  BY DEF EvalCommand, EvalEnd, EvalIn, EvalWait
<1>3. call'.fn # "lockCallback"
  <2>1. CASE EvalCommand
    <3>1. NextOp \in Op \cup {"end"}
      BY OpAtType DEF NextOp, TypeInv, TypeOK
    <3> QED
      BY <2>1, <3>1 DEF EvalCommand, Calls, Idle, Op
  <2>2. CASE EvalEnd \/ EvalIn \/ EvalWait
    BY <2>2 DEF EvalEnd, EvalIn, EvalWait, Finish, Calls, Idle, Receives
  <2> QED
    BY <2>1, <2>2
<1> QED
  BY <1>1, <1>2, <1>3, LocksUntouched

(* So do the callbacks of other activities than the lock ...               *)
LEMMA CallbackLocks ==
  ASSUME TypeInv, LocksCover,
         WriteCallback \/ EventCallback \/ TimerCallback \/ ExecCallback
         \/ ConnectCallback \/ DisconnectCallback
  PROVE  LocksCover'
<1>1. busLocks' = busLocks
  BY DEF WriteCallback, EventCallback, TimerCallback, ExecCallback, ConnectCallback,
         DisconnectCallback, StartProtocol, Unexpected, busVars
<1>2. "BusOwner" \in flags' => "BusOwner" \in flags
  <2>1. CASE ConnectCallback
    BY <2>1 DEF ConnectCallback, StartProtocol, ModeFlags
  <2>2. CASE WriteCallback \/ EventCallback \/ TimerCallback \/ ExecCallback
              \/ DisconnectCallback
    BY <2>2 DEF WriteCallback, EventCallback, TimerCallback, ExecCallback,
       DisconnectCallback, Unexpected
  <2> QED
    BY <2>1, <2>2
<1>3. call'.fn # "lockCallback"
  <2>1. CASE ConnectCallback
    BY <2>1 DEF ConnectCallback, StartProtocol, CommandAnswer, Finish, Calls, Idle
  <2>2. CASE WriteCallback \/ EventCallback \/ TimerCallback \/ ExecCallback
              \/ DisconnectCallback
    BY <2>2 DEF WriteCallback, EventCallback, TimerCallback, ExecCallback,
       DisconnectCallback, Unexpected, CommandAnswer, Finish, Calls, Idle
  <2> QED
    BY <2>1, <2>2
<1> QED
  BY <1>1, <1>2, <1>3, LocksUntouched

(* ... and input, as well as the end of a run up to the cleanup.           *)
LEMMA InputLocks ==
  ASSUME TypeInv, LocksCover, ReadCallback \/ Parse \/ FinishProtocol \/ FinishHook
  PROVE  LocksCover'
<1>1. busLocks' = busLocks
  BY DEF ReadCallback, Parse, FinishProtocol, FinishHook, busVars
<1>2. "BusOwner" \in flags' => "BusOwner" \in flags
  BY DEF ReadCallback, Parse, FinishProtocol, FinishHook
<1>3. call'.fn # "lockCallback"
  <2>1. CASE ReadCallback
    <3>1. \/ call' = Idle \/ call' = Calls("in", "Success") \/ \E result : Finish(result)
          \/ call' = [call EXCEPT !.fn = "parse", !.status = EffectiveStatus(call.status)]
      BY <2>1, Zenon DEF ReadCallback
    <3>2. call \in CallSet
      BY DEF TypeInv, TypeOK
    <3>3. CASE call' = [call EXCEPT !.fn = "parse", !.status = EffectiveStatus(call.status)]
      BY <3>2, <3>3 DEF CallSet
    <3> QED
      BY <3>1, <3>3 DEF Idle, Finish, Calls
  <2>2. CASE Parse
    <3>1. \/ call' = Idle \/ call' = Calls("in", "Success") \/ \E result : Finish(result)
          \/ call' = Calls("evalCommand", "Success") \/ call' = Calls("readRequest", "Success")
      BY <2>2, Zenon DEF Parse, WantMore
    <3> QED
      BY <3>1 DEF Idle, Finish, Calls
  <2>3. CASE FinishProtocol
    <3>1. (\E result : call' = Calls("cleanup", result)) \/ call' = Calls("evalCommand", "Success")
      BY <2>3, Zenon DEF FinishProtocol
    <3> QED
      BY <3>1 DEF Calls
  <2>4. CASE FinishHook
    BY <2>4 DEF FinishHook, Idle, Calls
  <2> QED
    BY <2>1, <2>2, <2>3, <2>4
<1> QED
  BY <1>1, <1>2, <1>3, LocksUntouched

(* A request may be made while the bus is kept, or after it was released   *)
(* because BusOwner was set.                                               *)
LEMMA RequestCovered ==
  ASSUME TypeInv, LocksCover, call.fn # "lockCallback",
         NEW kind \in Activity \ {"obsolete"}, NEW locks, BusTakes(kind, locks),
         \/ locks = busLocks /\ ("BusOwner" \in flags' => "BusOwner" \in flags)
         \/ locks = busLocks - 1 /\ Has("BusOwner") /\ "BusOwner" \notin flags'
  PROVE  LocksCover'
<1>1. busLocks \in Int /\ locks \in Int
  BY DEF TypeInv, TypeOK
<1>2. busLocks' \in Int /\ busLocks' >= locks + One(LockGranted')
  BY <1>1, RequestLocks
<1>3. One(LockGranted) = 0 /\ One(LockGranted') \in Int
  BY DEF One, LockGranted
<1>4. CASE locks = busLocks /\ ("BusOwner" \in flags' => "BusOwner" \in flags)
  <2>1. Has("BusOwner")' => Has("BusOwner")
    BY <1>4 DEF Has
  <2>2. busLocks' >= busLocks - One(LockGranted) + One(LockGranted')
    <3> HIDE DEF One
    <3> QED
      BY <1>1, <1>2, <1>3, <1>4
  <2> QED
    BY <1>1, <1>2, <2>1, <2>2, LocksStillCover
<1>5. CASE locks = busLocks - 1 /\ Has("BusOwner") /\ "BusOwner" \notin flags'
  <2>1. ~Has("BusOwner")'
    BY <1>5 DEF Has
  <2>2. busLocks' >= busLocks - 1 - One(LockGranted) + One(LockGranted')
    <3> HIDE DEF One
    <3> QED
      BY <1>1, <1>2, <1>3, <1>5
  <2> QED
    BY <1>1, <1>2, <1>5, <2>1, <2>2, LocksStillCover
<1> QED
  BY <1>4, <1>5

(* The same for a bus that is released, or kept, without a new lock.       *)
LEMMA ReleaseCovered ==
  ASSUME TypeInv, LocksCover,
         busLocks' = IF Has("BusOwner") THEN busLocks - 1 ELSE busLocks,
         "BusOwner" \notin flags',
         call'.fn # "lockCallback" \/ call' = call
  PROVE  LocksCover'
<1>1. busLocks \in Int /\ busLocks' \in Int
  BY DEF TypeInv, TypeOK
<1>2. One(LockGranted') <= One(LockGranted) /\ One(LockGranted') \in Int /\ One(LockGranted) \in Int
  BY DEF One, LockGranted
<1>3. ~Has("BusOwner")'
  BY DEF Has
<1>4. CASE Has("BusOwner")
  <2>1. busLocks' >= busLocks - 1 - One(LockGranted) + One(LockGranted')
    <3> HIDE DEF One
    <3> QED
      BY <1>1, <1>2, <1>4
  <2> QED
    BY <1>1, <1>3, <1>4, <2>1, LocksStillCover
<1>5. CASE ~Has("BusOwner")
  <2>1. busLocks' >= busLocks - One(LockGranted) + One(LockGranted')
    <3> HIDE DEF One
    <3> QED
      BY <1>1, <1>2, <1>5
  <2> QED
    BY <1>1, <1>3, <1>5, <2>1, LocksStillCover
<1> QED
  BY <1>4, <1>5

(* The commands that ask the bus for something.                            *)
LEMMA RequestStepLocks ==
  ASSUME TypeInv, LocksCover,
         EvalOut \/ ReadRequest \/ EvalEvent \/ EvalExec \/ EvalConnect \/ EvalDisconnect
  PROVE  LocksCover'
<1>1. CASE EvalOut
  <2>1. call.fn # "lockCallback"
    BY <1>1 DEF EvalOut
  <2>2. "BusOwner" \in flags' => "BusOwner" \in flags
    BY <1>1 DEF EvalOut, EarlyFlags
  <2>3. \/ \E kind \in {"lock", "write"} : BusTakes(kind, busLocks)
        \/ busLocks' = busLocks /\ (call' = Idle \/ \E result : Finish(result))
    BY <1>1, Zenon DEF EvalOut, BusRefuses, busVars
  <2>4. CASE \E kind \in {"lock", "write"} : BusTakes(kind, busLocks)
    BY <2>1, <2>2, <2>4, RequestCovered DEF Activity, QueueKind
  <2>5. CASE busLocks' = busLocks /\ (call' = Idle \/ \E result : Finish(result))
    <3>1. call'.fn # "lockCallback"
      BY <2>5 DEF Idle, Finish, Calls
    <3> QED
      BY <2>2, <2>5, <3>1, LocksUntouched
  <2> QED
    BY <2>3, <2>4, <2>5
<1>2. CASE ReadRequest
  <2> DEFINE kind  == IF Has("AsyncMode") THEN "asyncRead" ELSE "read"
             locks == IF Has("AsyncMode") /\ Has("BusOwner")
                      THEN busLocks - 1 ELSE busLocks
  <2>1. call.fn # "lockCallback" /\ kind \in Activity \ {"obsolete"}
    BY <1>2 DEF ReadRequest, Activity, QueueKind
  <2>2. flags' = IF Has("AsyncMode") THEN flags \ {"BusOwner"} ELSE flags
    BY <1>2, Zenon DEF ReadRequest
  <2>3. \/ BusTakes(kind, locks)
        \/ busLocks' = locks /\ call' = Idle
    BY <1>2, Zenon DEF ReadRequest
  <2>4. \/ locks = busLocks /\ ("BusOwner" \in flags' => "BusOwner" \in flags)
        \/ locks = busLocks - 1 /\ Has("BusOwner") /\ "BusOwner" \notin flags'
    BY <2>2 DEF Has
  <2> HIDE DEF kind, locks
  <2>5. CASE BusTakes(kind, locks)
    BY <2>1, <2>4, <2>5, RequestCovered
  <2>6. CASE busLocks' = locks /\ call' = Idle
    <3>1. call'.fn # "lockCallback"
      BY <2>6 DEF Idle, Calls
    <3>2. CASE locks = busLocks /\ ("BusOwner" \in flags' => "BusOwner" \in flags)
      BY <2>6, <3>1, <3>2, LocksUntouched
    <3>3. CASE locks = busLocks - 1 /\ Has("BusOwner") /\ "BusOwner" \notin flags'
      BY <2>6, <3>1, <3>3, ReleaseCovered
    <3> QED
      BY <2>4, <3>2, <3>3
  <2> QED
    BY <2>3, <2>5, <2>6
<1>3. CASE EvalEvent
  <2> DEFINE release == Has("AsyncMode") /\ ~Current.timed /\ Has("BusOwner")
             locks   == IF release THEN busLocks - 1 ELSE busLocks
  <2>1. call.fn # "lockCallback" /\ BusTakes("event", locks)
    BY <1>3, Zenon DEF EvalEvent
  <2>2. flags' = (IF release THEN flags \ {"BusOwner"} ELSE flags) \cup {"AcceptEvent"}
    BY <1>3, Zenon DEF EvalEvent
  <2>3. \/ locks = busLocks /\ ("BusOwner" \in flags' => "BusOwner" \in flags)
        \/ locks = busLocks - 1 /\ Has("BusOwner") /\ "BusOwner" \notin flags'
    BY <2>2 DEF Has
  <2> HIDE DEF release, locks
  <2> QED
    BY <2>1, <2>3, RequestCovered DEF Activity
<1>4. CASE EvalExec
  <2>1. CASE Finish("FormatError") /\ UNCHANGED <<flags, busVars>>
    <3>1. call'.fn # "lockCallback" /\ busLocks' = busLocks /\ flags' = flags
      BY <2>1 DEF Finish, Calls, busVars
    <3> QED
      BY <3>1, LocksUntouched
  <2>2. CASE /\ flags' = flags \ {"BusOwner"}
             /\ BusTakes("exec", IF Has("BusOwner") THEN busLocks - 1 ELSE busLocks)
    <3>1. call.fn # "lockCallback" /\ "exec" \in Activity \ {"obsolete"}
      BY <1>4 DEF EvalExec, Activity
    <3>2. CASE Has("BusOwner")
      BY <2>2, <3>1, <3>2, RequestCovered
    <3>3. CASE ~Has("BusOwner")
      BY <2>2, <3>1, <3>3, RequestCovered
    <3> QED
      BY <3>2, <3>3
  <2> QED
    BY <1>4, <2>1, <2>2, Zenon DEF EvalExec
<1>5. CASE EvalConnect \/ EvalDisconnect
  <2>1. call.fn # "lockCallback" /\ flags' = flags
    BY <1>5 DEF EvalConnect, EvalDisconnect
  <2>2. \/ \E kind \in {"connect", "disconnect"} : BusTakes(kind, busLocks)
        \/ busLocks' = busLocks /\ (call' = Idle \/ Finish("Fault"))
    BY <1>5, Zenon DEF EvalConnect, EvalDisconnect, BusRefuses, busVars
  <2>3. CASE \E kind \in {"connect", "disconnect"} : BusTakes(kind, busLocks)
    BY <2>1, <2>3, RequestCovered DEF Activity, QueueKind
  <2>4. CASE busLocks' = busLocks /\ (call' = Idle \/ Finish("Fault"))
    <3>1. call'.fn # "lockCallback"
      BY <2>4 DEF Idle, Finish, Calls
    <3> QED
      BY <2>1, <2>4, <3>1, LocksUntouched
  <2> QED
    BY <2>2, <2>3, <2>4
<1> QED
  BY <1>1, <1>2, <1>3, <1>4, <1>5

(* The lock that was granted becomes the lock of the bus owner.            *)
LEMMA GrantLocks ==
  ASSUME TypeInv, LocksCover, LockCallback
  PROVE  LocksCover'
<1>1. busLocks \in Int
  BY DEF TypeInv, TypeOK
<1>2. CASE call.status = "Success"
  <2>1. One(LockGranted) = 1 /\ busLocks >= 1 + One(Has("BusOwner")) /\ One(Has("BusOwner")) \in Nat
    BY <1>1, <1>2 DEF LockCallback, LocksCover, LockGranted, One
  <2>2. /\ busLocks' = busLocks /\ call'.fn # "lockCallback"
    <3>1. CASE BusTakes("write", busLocks)
      <4>1. "write" # "lock" /\ "write" # "read" /\ CallbackOf["write"] = "writeCallback"
        BY DEF CallbackOf
      <4>2. busLocks' = busLocks /\ (call' = Idle \/ call' = Calls("writeCallback", "Success"))
        BY <3>1, <4>1, Zenon DEF BusTakes
      <4> QED
        BY <4>2 DEF Idle, Calls
    <3>2. CASE BusRefuses("write") /\ Finish("Fault")
      BY <3>2 DEF BusRefuses, Finish, Calls, busVars
    <3>3. CASE Unexpected
      BY <3>3 DEF Unexpected, Idle, Calls, busVars
    <3> QED
      BY <1>2, <3>1, <3>2, <3>3, Zenon DEF LockCallback
  <2>3. One(LockGranted') = 0 /\ One(Has("BusOwner")') \in {0, 1}
    BY <2>2 DEF One, LockGranted
  <2>4. CASE "BusOwner" \in flags' /\ "BusOwner" \notin flags
    <3> HIDE DEF One
    <3> QED
      BY <1>1, <2>1, <2>2, <2>3 DEF LocksCover
  <2>5. CASE "BusOwner" \in flags' => "BusOwner" \in flags
    BY <2>2, <2>5, LocksUntouched
  <2> QED
    BY <2>4, <2>5
<1>3. CASE call.status # "Success"
  <2>1. busLocks' = busLocks /\ flags' \in {flags, flags \ {"LockPending", "BusOwner"}}
        /\ (call' = Idle \/ Finish("LockTimeout"))
    BY <1>3 DEF LockCallback, Unexpected, busVars
  <2>2. call'.fn # "lockCallback" /\ ("BusOwner" \in flags' => "BusOwner" \in flags)
    BY <2>1 DEF Idle, Finish, Calls
  <2> QED
    BY <2>1, <2>2, LocksUntouched
<1> QED
  BY <1>2, <1>3

(* The end of a protocol releases what BusOwner stands for.                *)
LEMMA EndLocks ==
  ASSUME TypeInv, LocksCover, Cleanup \/ Abort
  PROVE  LocksCover'
<1>1. /\ busLocks' = IF Has("BusOwner") THEN busLocks - 1 ELSE busLocks
      /\ "BusOwner" \notin flags'
  BY DEF Cleanup, Abort, AbortProtocol, AbortFlags
<1>2. call'.fn # "lockCallback" \/ call' = call
  BY DEF Cleanup, Abort, AbortProtocol, Calls
<1> QED
  BY <1>1, <1>2, ReleaseCovered

(* A lock that the bus grants is counted before the callback runs.         *)
LEMMA EnvironmentLocks ==
  ASSUME TypeInv, LocksCover, EnvironmentStep \/ SkipObsolete
  PROVE  LocksCover'
<1>1. CASE StartStep
  <2>1. PICK mode \in StartMode : Start(mode)
    BY <1>1 DEF StartStep
  <2>2. busLocks' = busLocks /\ "BusOwner" \notin flags' /\ call'.fn # "lockCallback"
    BY <2>1 DEF Start, StartProtocol, ModeFlags, StartMode, busVars, Idle, Calls
  <2> QED
    BY <2>2, LocksUntouched
<1>2. CASE StartReturned \/ AsyncConnect \/ SkipObsolete
  <2>1. busLocks' = busLocks /\ flags' = flags
    BY <1>2 DEF StartReturned, AsyncConnect, SkipObsolete, busVars
  <2>2. call'.fn # "lockCallback" \/ call' = call
    BY <1>2 DEF StartReturned, AsyncConnect, SkipObsolete, Calls
  <2> QED
    BY <2>1, <2>2, LocksUntouched
<1>3. CASE EarlyInputStep \/ DisconnectStep
  <2>1. busLocks' = busLocks /\ flags' = flags
    BY <1>3 DEF EarlyInputStep, EarlyInput, DisconnectStep, AsyncDisconnect, busVars
  <2>2. call'.fn # "lockCallback"
    BY <1>3 DEF EarlyInputStep, EarlyInput, DisconnectStep, AsyncDisconnect, Calls, Receives, Idle
  <2> QED
    BY <2>1, <2>2, LocksUntouched
<1>4. ASSUME NEW kind \in DOMAIN Answers, NEW status \in Answers[kind], Answer(kind, status)
      PROVE  LocksCover'
  <2>1. flags' = flags /\ (call' = Idle \/ call' = Calls(CallbackOf[kind], status))
        /\ call = Idle /\ busLocks \in Int
    BY <1>4 DEF Answer, NobodyInside, TypeInv, TypeOK
  <2>2. CASE kind = "lock" /\ status = "Success"
    <3>1. busLocks' = busLocks + 1
      BY <1>4, <2>2 DEF Answer
    <3>2. One(LockGranted) = 0 /\ One(LockGranted') \in {0, 1} /\ One(Has("BusOwner")') = One(Has("BusOwner"))
          /\ One(Has("BusOwner")) \in Int
      BY <2>1 DEF One, LockGranted, Idle, Calls, Has
    <3> HIDE DEF One
    <3> QED
      BY <2>1, <3>1, <3>2 DEF LocksCover
  <2>3. CASE ~(kind = "lock" /\ status = "Success")
    <3>1. busLocks' = busLocks /\ CallbackOf[kind] = "lockCallback" => status # "Success"
      BY <1>4, <2>3 DEF Answer, CallbackOf, Answers
    <3>2. busLocks' = busLocks
      BY <1>4, <2>3 DEF Answer
    <3>3. One(LockGranted) = 0 /\ One(LockGranted') = 0 /\ One(Has("BusOwner")') = One(Has("BusOwner"))
      BY <2>1, <3>1, <3>2 DEF One, LockGranted, Idle, Calls, Has
    <3> HIDE DEF One
    <3> QED
      BY <2>1, <3>2, <3>3 DEF LocksCover
  <2> QED
    BY <2>2, <2>3
<1>5. ASSUME NEW kind, NEW status, NEW input, AnswerRead(kind, status, input)
      PROVE  LocksCover'
  <2>1. busLocks' = busLocks /\ flags' = flags /\ call'.fn # "lockCallback"
    BY <1>5 DEF AnswerRead, Idle, Calls, Receives
  <2> QED
    BY <2>1, LocksUntouched
<1>6. CASE AnswerStep
  BY <1>4, <1>5, <1>6 DEF AnswerStep
<1> QED
  BY <1>1, <1>2, <1>3, <1>6 DEF EnvironmentStep

(* An abort, whatever it does to the flags.                                *)
LEMMA AbortedEngineType ==
  ASSUME TypeInv, AbortProtocol, flags' \in SUBSET Flag
  PROVE  TypeInv'
<1>1. outstanding' \in SUBSET Activity /\ late' \in SUBSET QueueKind
  BY DEF AbortProtocol, BusFinish, TypeInv, TypeOK, Activity, QueueKind
<1>2. busLocks' \in Int /\ runningHandler' \in ProtocolResult
  BY DEF AbortProtocol, TypeInv, TypeOK, ProtocolResult
<1>3. unparsedInput' \in BOOLEAN
  BY Zenon DEF AbortProtocol, TypeInv, TypeOK
<1>4. inputBuffer' \in Seq(Byte)
  <2>1. inputBuffer' \in {inputBuffer, <<>>}
    BY Zenon DEF AbortProtocol
  <2>2. <<>> \in Seq(Byte)
    OBVIOUS
  <2> QED
    BY <2>1, <2>2 DEF TypeInv, TypeOK
<1>5. /\ activeCommand' = "end"
      /\ UNCHANGED <<protocol, commandIndex, inputLine, lastInputStatus, call, ret>>
  BY Zenon DEF AbortProtocol
<1> QED
  BY <1>1, <1>2, <1>3, <1>4, <1>5 DEF TypeInv, TypeOK, StatusMatches

(* Aborts and the requests they leave behind keep the types.               *)
LEMMA AbortType ==
  ASSUME TypeInv, SkipObsolete \/ Abort
  PROVE  TypeInv'
<1>1. CASE SkipObsolete
  BY <1>1 DEF SkipObsolete, TypeInv, TypeOK, StatusMatches, programVars, inputVars
<1>2. CASE Abort
  <2>1. flags' \in SUBSET Flag
    BY <1>2 DEF Abort, AbortFlags, TypeInv, TypeOK, Flag
  <2> QED
    BY <1>2, <2>1, AbortedEngineType DEF Abort
<1> QED
  BY <1>1, <1>2

(* However often and whenever a protocol is aborted, the engine never      *)
(* believes to own a bus that it has not locked, and never unlocks more    *)
(* often than it locked.                                                   *)
THEOREM LockIsNeverOverdrawn == Init /\ [][AbortNext]_vars => []LockNeverOverdrawn
<1>1. Init => TypeInv /\ LocksCover
  <2>1. Init => LocksCover
    BY DEF Init, LocksCover, One, Has, LockGranted, Idle, Calls
  <2> QED
    BY <2>1, InitType
<1>2. TypeInv /\ LocksCover /\ [AbortNext]_vars => TypeInv' /\ LocksCover'
  <2> SUFFICES ASSUME TypeInv, LocksCover, [AbortNext]_vars
               PROVE  TypeInv' /\ LocksCover'
    OBVIOUS
  <2>1. CASE UNCHANGED vars
    <3>1. [Next]_vars
      BY <2>1
    <3>2. busLocks' = busLocks /\ flags' = flags /\ call' = call
      BY <2>1 DEF vars, busVars
    <3> QED
      BY <3>1, <3>2, StepType, LocksUntouched
  <2>2. CASE AbortNext
    <3>1. TypeInv'
      BY <2>2, StepType, AbortType DEF AbortNext
    <3>2. LocksCover'
      BY <2>2, EvalLocks, CallbackLocks, InputLocks, RequestStepLocks, GrantLocks,
         EndLocks, EnvironmentLocks, Zenon
      DEF AbortNext, Next, EngineStep, ProtocolStep
    <3> QED
      BY <3>1, <3>2
  <2> QED
    BY <2>1, <2>2
<1>3. TypeInv /\ LocksCover => LockNeverOverdrawn
  <2> SUFFICES ASSUME TypeInv, LocksCover PROVE LockNeverOverdrawn
    OBVIOUS
  <2>1. busLocks \in Int /\ One(LockGranted) \in {0, 1}
    BY DEF TypeInv, TypeOK, One
  <2>2. One(Has("BusOwner")) = IF Has("BusOwner") THEN 1 ELSE 0
    BY DEF One
  <2> HIDE DEF One
  <2> QED
    BY <2>1, <2>2 DEF LocksCover, LockNeverOverdrawn
<1> QED
  BY <1>1, <1>2, <1>3, PTL

-----------------------------------------------------------------------------
(* The bus lock and the callbacks, as long as no protocol is aborted from  *)
(* outside.                                                                *)


(* A request that the bus takes: it waits for the one answer, or has it.   *)
LEMMA RequestBus ==
  ASSUME TypeInv, BusInv, NEW kind, NEW locks, BusTakes(kind, locks),
         kind \in QueueKind \cup {"event", "exec"}, outstanding = {}
  PROVE  \/ /\ outstanding' = {kind} /\ late' = {} /\ busLocks' = locks
            /\ call' = Idle
         \/ /\ kind \in {"lock", "write", "read", "event", "connect"}
            /\ outstanding' = {} /\ late' = {}
            /\ busLocks' = IF kind = "lock" THEN locks + 1 ELSE locks
            /\ \/ kind = "read" /\ \E c : call' = Receives("End", c, "read")
               \/ kind # "read" /\ call' = Calls(CallbackOf[kind], "Success")
BY StreamCoreAssumption, Zenon DEF BusTakes, BusInv, NoAbort

(* What every step is checked against.                                     *)
USE DEF BusInv, OneAnswer, CallMatches, PendingMatches, OwnerMatches, NoAbort,
        BusLockBalance, Has, Calls, Op, Callback, CallbackOf, Waiting, AwaitSet,
        Idle, Finish, Receives, busVars, programVars, inputVars

(* A protocol starts on a released bus.                                    *)
LEMMA StartProtocolBus ==
  ASSUME TypeInv, BusInv, NEW mode \in StartMode, StartProtocol(mode),
         outstanding = {}, ~Has("BusOwner"), call.fn # "lockCallback"
  PROVE  BusInv'
<1>1. flags' \subseteq {"InitRun", "AsyncMode"}
  BY DEF StartProtocol, ModeFlags, StartMode
<1>2. call' = Idle \/ call' = Calls("evalCommand", "Success")
  BY DEF StartProtocol
<1>3. outstanding' = {} /\ late' = {} /\ busLocks' = 0
  BY DEF StartProtocol
<1> QED
  BY <1>1, <1>2, <1>3

(* The commands that do not involve the bus.                               *)
LEMMA EvalBus ==
  ASSUME TypeInv, BusInv, EvalCommand \/ EvalEnd \/ EvalWait
  PROVE  BusInv'
<1>1. CASE EvalCommand
  <2>1. NextOp \in Op \cup {"end"}
    BY OpAtType DEF NextOp, TypeInv, TypeOK
  <2>2. call' = Calls(NextOp, "Success") /\ activeCommand' = NextOp
    BY <1>1 DEF EvalCommand, BusPending
  <2> QED
    BY <1>1, <2>1, <2>2 DEF EvalCommand
<1>2. CASE EvalEnd
  BY <1>2 DEF EvalEnd
<1>3. CASE EvalWait
  BY <1>3 DEF EvalWait
<1> QED
  BY <1>1, <1>2, <1>3

(* The commands that ask the bus for something.                            *)
LEMMA EvalOutBus ==
  ASSUME TypeInv, BusInv, EvalOut
  PROVE  BusInv'
<1>1. outstanding = {} /\ activeCommand = "out"
  BY DEF EvalOut
<1>2. EarlyFlags \subseteq {"AcceptInput", "AcceptEvent"}
  BY DEF EarlyFlags
<1>3. CASE Finish("FormatError") /\ UNCHANGED <<flags, busVars>>
  BY <1>1, <1>3 DEF EvalOut
<1>4. CASE /\ ~Has("BusOwner") /\ BusTakes("lock", busLocks)
           /\ flags' = flags \cup EarlyFlags \cup {"LockPending"}
  BY <1>1, <1>2, <1>4, RequestBus DEF EvalOut, QueueKind
<1>5. CASE /\ ~Has("BusOwner") /\ UNCHANGED busVars /\ Finish("Offline")
           /\ flags' = (flags \cup EarlyFlags) \ {"LockPending"}
  BY <1>1, <1>2, <1>5 DEF EvalOut
<1>6. CASE /\ Has("BusOwner") /\ BusTakes("write", busLocks)
           /\ flags' = flags \cup EarlyFlags \cup {"WritePending"}
  BY <1>1, <1>2, <1>6, RequestBus DEF EvalOut, QueueKind
<1>7. CASE /\ Has("BusOwner") /\ UNCHANGED busVars /\ call' = Idle
           /\ flags' = flags \cup EarlyFlags \cup {"WritePending"}
  BY <1>1, <1>2, <1>7 DEF EvalOut
<1> QED
  BY <1>3, <1>4, <1>5, <1>6, <1>7, Zenon DEF EvalOut, BusRefuses

(* An `in` reads what is left over or asks for a read.                     *)
LEMMA EvalInBus ==
  ASSUME TypeInv, BusInv, EvalIn \/ ReadRequest
  PROVE  BusInv'
<1>1. outstanding = {} /\ activeCommand = "in"
  BY DEF EvalIn, ReadRequest
<1>2. CASE EvalIn
  BY <1>1, <1>2 DEF EvalIn
<1>3. CASE ReadRequest
  <2> DEFINE kind  == IF Has("AsyncMode") THEN "asyncRead" ELSE "read"
             locks == IF Has("AsyncMode") /\ Has("BusOwner")
                      THEN busLocks - 1 ELSE busLocks
  <2>1. /\ kind \in {"read", "asyncRead"}
        /\ flags' = IF Has("AsyncMode") THEN flags \ {"BusOwner"} ELSE flags
        /\ locks = IF "BusOwner" \in flags' THEN 1 ELSE 0
    BY <1>3 DEF ReadRequest
  <2>2. /\ UNCHANGED <<protocol, programVars, inputVars>>
        /\ \/ BusTakes(kind, locks)
           \/ busLocks' = locks /\ call' = Idle /\ UNCHANGED <<outstanding, late>>
    BY <1>3, Zenon DEF ReadRequest
  <2> HIDE DEF kind, locks
  <2>3. CASE BusTakes(kind, locks)
    <3>1. /\ flags' \subseteq flags
          /\ flags' \cap BusPending = flags \cap BusPending
          /\ Has("AcceptInput") /\ Has("AcceptInput")' /\ activeCommand' = "in"
          /\ ~Has("LockPending") /\ ~Has("WaitPending") /\ ~Has("WritePending")
      BY <1>1, <1>3, <2>1, <2>2 DEF ReadRequest, programVars, BusPending
    <3>2. CASE outstanding' = {kind} /\ late' = {} /\ busLocks' = locks /\ call' = Idle
      BY <2>1, <3>1, <3>2 DEF BusPending
    <3>3. CASE /\ kind = "read" /\ \E c : call' = Receives("End", c, "read")
               /\ outstanding' = {} /\ late' = {} /\ busLocks' = locks
      <4>1. call'.fn = "readCallback" /\ call'.source = "read"
        BY <3>3 DEF Receives
      <4> QED
        BY <2>1, <3>1, <3>3, <4>1 DEF BusPending
    <3>4. kind \in QueueKind \cup {"event", "exec"}
      BY <2>1 DEF QueueKind
    <3>5. \/ /\ outstanding' = {kind} /\ late' = {} /\ busLocks' = locks
             /\ call' = Idle
          \/ /\ kind \in {"lock", "write", "read", "event", "connect"}
             /\ outstanding' = {} /\ late' = {}
             /\ busLocks' = IF kind = "lock" THEN locks + 1 ELSE locks
             /\ \/ kind = "read" /\ \E c : call' = Receives("End", c, "read")
                \/ kind # "read" /\ call' = Calls(CallbackOf[kind], "Success")
      BY <1>1, <2>3, <3>4, RequestBus
    <3> QED
      BY <2>1, <3>2, <3>3, <3>5
  <2>4. CASE busLocks' = locks /\ call' = Idle /\ UNCHANGED <<outstanding, late>>
    <3>1. /\ activeCommand' = "in" /\ outstanding' = {} /\ late' = {}
          /\ call'.fn = "idle" /\ ~Has("LockPending") /\ ~Has("WaitPending")
      BY <1>1, <1>3, <2>2, <2>4 DEF ReadRequest, programVars
    <3>2. /\ flags' \subseteq flags
          /\ flags' \cap BusPending = flags \cap BusPending
      BY <2>1 DEF BusPending
    <3>3. ~Has("WritePending")
      BY <1>1, <1>3 DEF ReadRequest
    <3>4. OneAnswer' /\ CallMatches' /\ NoAbort' /\ OwnerMatches'
      BY <3>1, <3>2
    <3>5. PendingMatches'
      BY <3>1, <3>2, <3>3
    <3>6. BusLockBalance'
      BY <2>1, <2>4, <3>1
    <3> QED
      BY <3>4, <3>5, <3>6
  <2> QED
    BY <2>2, <2>3, <2>4
<1> QED
  BY <1>2, <1>3

(* The commands that do not transfer data.                                 *)
LEMMA EvalOthersBus ==
  ASSUME TypeInv, BusInv, EvalEvent \/ EvalExec \/ EvalConnect \/ EvalDisconnect
  PROVE  BusInv'
<1>1. outstanding = {} /\ activeCommand = call.fn
  BY DEF EvalEvent, EvalExec, EvalConnect, EvalDisconnect
<1>2. CASE EvalEvent
  <2> DEFINE release == Has("AsyncMode") /\ ~Current.timed /\ Has("BusOwner")
             locks   == IF release THEN busLocks - 1 ELSE busLocks
  <2>1. /\ flags' = (IF release THEN flags \ {"BusOwner"} ELSE flags) \cup {"AcceptEvent"}
        /\ BusTakes("event", locks)
        /\ UNCHANGED programVars
    BY <1>2, Zenon DEF EvalEvent
  <2>2. locks = IF "BusOwner" \in flags' THEN 1 ELSE 0
    BY <1>2, <2>1 DEF EvalEvent
  <2>3. flags' \in {flags \cup {"AcceptEvent"}, (flags \ {"BusOwner"}) \cup {"AcceptEvent"}}
    BY <2>1
  <2>4. call.fn = "event"
    BY <1>2 DEF EvalEvent
  <2> HIDE DEF release, locks
  <2> QED
    BY <1>1, <2>1, <2>2, <2>3, <2>4, RequestBus
<1>3. CASE EvalExec
  <2>1. CASE Finish("FormatError") /\ UNCHANGED <<flags, busVars>>
    BY <1>1, <1>3, <2>1 DEF EvalExec
  <2>2. CASE /\ flags' = flags \ {"BusOwner"}
             /\ BusTakes("exec", IF Has("BusOwner") THEN busLocks - 1 ELSE busLocks)
    BY <1>1, <1>3, <2>2, RequestBus DEF EvalExec
  <2> QED
    BY <1>3, <2>1, <2>2, Zenon DEF EvalExec
<1>4. CASE EvalConnect \/ EvalDisconnect
  <2>1. PICK kind \in {"connect", "disconnect"} :
          /\ call.fn = kind /\ UNCHANGED <<protocol, flags, programVars, inputVars>>
          /\ \/ BusTakes(kind, busLocks)
             \/ UNCHANGED busVars /\ (call' = Idle \/ Finish("Fault"))
    BY <1>4, Zenon DEF EvalConnect, EvalDisconnect, BusRefuses
  <2>2. CASE BusTakes(kind, busLocks)
    BY <1>1, <2>1, <2>2, RequestBus DEF QueueKind
  <2>3. CASE UNCHANGED busVars /\ (call' = Idle \/ Finish("Fault"))
    BY <1>1, <2>1, <2>3 DEF QueueKind
  <2> QED
    BY <2>1, <2>2, <2>3
<1> QED
  BY <1>2, <1>3, <1>4

(* The lock is granted, or refused: the bus is owned or the protocol ends. *)
LEMMA LockCallbackBus ==
  ASSUME TypeInv, BusInv, LockCallback
  PROVE  BusInv'
<1>1. /\ outstanding = {} /\ activeCommand = "out" /\ Has("LockPending")
      /\ UNCHANGED <<protocol, programVars>>
  BY DEF LockCallback
<1>2. CASE call.status = "Success"
  <2>1. flags' = (flags \cup {"BusOwner", "WritePending"}) \ {"LockPending"} /\ busLocks = 1
    BY <1>1, <1>2 DEF LockCallback
  <2>2. \/ BusTakes("write", busLocks)
        \/ UNCHANGED busVars /\ Finish("Fault")
    BY <1>1, <1>2, Zenon DEF LockCallback, BusRefuses
  <2>3. CASE BusTakes("write", busLocks)
    <3>1. /\ late' = {} /\ busLocks' = 1
          /\ \/ outstanding' = {"write"} /\ call' = Idle
             \/ outstanding' = {} /\ call' = Calls("writeCallback", "Success")
      BY <1>1, <2>1, <2>3, RequestBus DEF QueueKind
    <3> QED
      BY <1>1, <2>1, <3>1
  <2>4. CASE UNCHANGED busVars /\ Finish("Fault")
    BY <1>1, <1>2, <2>1, <2>4
  <2> QED
    BY <2>2, <2>3, <2>4
<1>3. CASE call.status # "Success"
  BY <1>1, <1>3 DEF LockCallback
<1> QED
  BY <1>2, <1>3

(* The other answers end the wait they belong to.                          *)
LEMMA CallbackBus ==
  ASSUME TypeInv, BusInv,
         WriteCallback \/ EventCallback \/ TimerCallback \/ ExecCallback
           \/ DisconnectCallback
  PROVE  BusInv'
<1>1. outstanding = {}
  BY DEF WriteCallback, EventCallback, TimerCallback, ExecCallback, DisconnectCallback
<1>2. CASE WriteCallback
  BY <1>1, <1>2 DEF WriteCallback, Unexpected
<1>3. CASE EventCallback
  BY <1>1, <1>3 DEF EventCallback, Unexpected
<1>4. CASE TimerCallback
  BY <1>1, <1>4 DEF TimerCallback, Unexpected
<1>5. CASE ExecCallback
  <2>1. /\ call.fn = "execCallback"
        /\ UNCHANGED <<flags, programVars, busVars>>
        /\ call' \in {Calls("evalCommand", "Success"), Calls("finish", "Fault")}
    BY <1>5 DEF ExecCallback, CommandAnswer
  <2> QED
    BY <1>1, <2>1
<1>6. CASE DisconnectCallback
  <2>1. CASE activeCommand = "disconnect"
    <3>1. /\ call.fn = "disconnectCallback"
          /\ UNCHANGED <<flags, programVars, busVars>>
          /\ call' = Calls("evalCommand", "Success") \/ call' = Calls("finish", "Fault")
      BY <1>6, <2>1 DEF DisconnectCallback, CommandAnswer
    <3> QED
      BY <1>1, <2>1, <3>1
  <2>2. CASE activeCommand # "disconnect"
    <3>1. flags' = flags \ {"LockPending", "WritePending", "WaitPending"}
      BY <1>6, <2>2 DEF DisconnectCallback, BusPending
    <3> QED
      BY <1>1, <1>6, <2>2, <3>1 DEF DisconnectCallback
  <2> QED
    BY <2>1, <2>2
<1> QED
  BY <1>2, <1>3, <1>4, <1>5, <1>6

(* A connect answers the command of that name, or starts @init.            *)
LEMMA ConnectCallbackBus ==
  ASSUME TypeInv, BusInv, ConnectCallback
  PROVE  BusInv'
<1>1. CASE activeCommand = "end"
  <2>1. StartProtocol("StartInit") /\ ~Has("BusOwner")
    BY <1>1, Zenon DEF ConnectCallback
  <2>2. outstanding = {} /\ call.fn # "lockCallback"
    BY <1>1 DEF ConnectCallback
  <2> QED
    BY <2>1, <2>2, StartProtocolBus DEF StartMode
<1>2. CASE activeCommand # "end"
  <2>1. /\ IF activeCommand = "connect" THEN CommandAnswer ELSE call' = Idle
        /\ UNCHANGED <<protocol, flags, programVars, inputVars, ret, busVars>>
    BY <1>2, Zenon DEF ConnectCallback
  <2>2. CASE activeCommand = "connect"
    <3>1. outstanding = {}
      BY <2>2 DEF ConnectCallback
    <3>2. call.fn = "connectCallback"
      BY DEF ConnectCallback
    <3>3. call' = Calls("evalCommand", "Success") \/ call' = Calls("finish", "Fault")
      BY <2>1, <2>2 DEF CommandAnswer
    <3> QED
      BY <2>1, <3>1, <3>2, <3>3
  <2>3. CASE activeCommand # "connect"
    BY <2>1, <2>3 DEF ConnectCallback
  <2> QED
    BY <2>2, <2>3
<1> QED
  BY <1>1, <1>2

(* Input for an `in` is parsed, other input is kept; an error ends the run.*)
LEMMA ReadCallbackBus ==
  ASSUME TypeInv, BusInv, ReadCallback
  PROVE  BusInv'
<1>1. call.fn = "readCallback" /\ UNCHANGED <<flags, programVars, busVars>>
  BY DEF ReadCallback
<1>2. \/ call' = Idle /\ (Has("AcceptInput") => activeCommand # "in")
      \/ call' = Calls("in", "Success") /\ call.source # "early"
      \/ /\ call' \in {Calls("finish", "ReplyTimeout"), Calls("finish", "Fault")}
         /\ call.source # "early"
      \/ /\ activeCommand = "in" /\ Has("AcceptInput")
         /\ call' = [call EXCEPT !.fn = "parse", !.status = EffectiveStatus(call.status)]
  BY <1>1, Zenon DEF ReadCallback
<1>3. CASE call' = Idle /\ (Has("AcceptInput") => activeCommand # "in")
  BY <1>1, <1>3
<1>4. CASE call' = Calls("in", "Success") /\ call.source # "early"
  BY <1>1, <1>4
<1>5. CASE /\ call' \in {Calls("finish", "ReplyTimeout"), Calls("finish", "Fault")}
           /\ call.source # "early"
  BY <1>1, <1>5
<1>6. CASE /\ activeCommand = "in" /\ Has("AcceptInput")
           /\ call' = [call EXCEPT !.fn = "parse", !.status = EffectiveStatus(call.status)]
  <2>1. call'.fn = "parse" /\ call'.source = call.source
    BY <1>6 DEF TypeInv, TypeOK, CallSet
  <2>2. outstanding = {}
    BY <1>1, <1>6
  <2> QED
    BY <1>1, <1>6, <2>1, <2>2
<1> QED
  BY <1>2, <1>3, <1>4, <1>5, <1>6

(* A line is matched, or the bus goes on reading.                          *)
LEMMA ParseBus ==
  ASSUME TypeInv, BusInv, Parse
  PROVE  BusInv'
<1>1. /\ outstanding = {} /\ activeCommand = "in" /\ call.fn = "parse"
      /\ Has("AcceptInput") /\ call.source \in Source
      /\ UNCHANGED <<flags, programVars, late, busLocks>>
  BY DEF Parse, TypeInv, TypeOK, CallSet
<1>2. \/ WantMore
      \/ /\ UNCHANGED outstanding
         /\ \/ \E fn \in {"evalCommand", "in"} : call' = Calls(fn, "Success")
            \/ \E status \in {"ReadTimeout", "ScanError"} : call' = Calls("finish", status)
  BY Zenon DEF Parse
<1>3. CASE WantMore
  <2>1. \/ call' = Calls("readRequest", "Success") /\ outstanding' = {}
        \/ call' = Idle /\ outstanding' \in {{}, {"read"}, {"asyncRead"}}
    BY <1>1, <1>3 DEF WantMore, Source
  <2> QED
    BY <1>1, <2>1
<1>4. CASE UNCHANGED outstanding
  BY <1>1, <1>2, <1>3, <1>4
<1> QED
  BY <1>2, <1>3, <1>4

(* The end of a run.                                                       *)
LEMMA FinishProtocolBus ==
  ASSUME TypeInv, BusInv, FinishProtocol
  PROVE  BusInv'
<1> DEFINE status == IF call.status = "Success" /\ flags \cap BusPending # {}
                     THEN "Fault" ELSE call.status
<1>1. /\ call.fn = "finish" /\ outstanding = {} /\ activeCommand' = "end"
      /\ UNCHANGED <<flags, busVars>>
  BY DEF FinishProtocol, WithoutHandlers, Reported
<1>2. \/ /\ call' = Calls("evalCommand", "Success") /\ status \in DOMAIN HandlerFor
      \/ /\ call' = Calls("cleanup", IF status = "Success" THEN runningHandler ELSE status)
      \/ /\ call' = Calls("cleanup", status)
  BY Zenon DEF FinishProtocol, WithoutHandlers, Reported
<1>3. status = "Success" => ~Has("WritePending")
  BY DEF BusPending
<1>4. Has("WritePending") => call.status = "Fault"
  BY <1>1
<1>5. "Fault" \notin DOMAIN HandlerFor
  BY DEF HandlerFor
<1>6. call.status = "Fault" => status = "Fault"
  OBVIOUS
<1> HIDE DEF status
<1> QED
  BY <1>1, <1>2, <1>3, <1>4, <1>5, <1>6

(* The end of a run gives the bus back.                                    *)
LEMMA CleanupBus ==
  ASSUME TypeInv, BusInv, Cleanup \/ FinishHook
  PROVE  BusInv'
<1>1. outstanding = {} /\ activeCommand = "end" /\ UNCHANGED programVars
  BY DEF Cleanup, FinishHook
<1>2. CASE Cleanup
  <2>1. outstanding' = {} /\ late' = late
    BY <1>1, <1>2 DEF Cleanup, BusFinish
  <2> QED
    BY <1>1, <1>2, <2>1 DEF Cleanup
<1>3. CASE FinishHook
  <2>1. flags' \in {flags, flags \cup {"AcceptInput"}} /\ UNCHANGED busVars
        /\ call.fn = "hook" /\ call' = Idle
    BY <1>3 DEF FinishHook
  <2> QED
    BY <1>1, <2>1
<1> QED
  BY <1>2, <1>3

(* The engine preserves the invariant.                                     *)
LEMMA EngineBus ==
  ASSUME TypeInv, BusInv, EngineStep
  PROVE  BusInv'
BY EvalBus, EvalOutBus, EvalInBus, EvalOthersBus, LockCallbackBus, CallbackBus,
   ConnectCallbackBus, ReadCallbackBus, ParseBus, FinishProtocolBus, CleanupBus, Zenon
DEF EngineStep, ProtocolStep

(* So does the environment: it starts protocols on a free bus, and answers *)
(* what the bus was asked for.                                             *)
LEMMA EnvironmentBus ==
  ASSUME TypeInv, BusInv, EnvironmentStep
  PROVE  BusInv'
<1>1. CASE StartStep
  <2>1. PICK mode \in StartMode : Start(mode)
    BY <1>1 DEF StartStep
  <2>2. outstanding = {} /\ ~Has("BusOwner") /\ call.fn # "lockCallback"
    BY <2>1 DEF Start, NobodyInside
  <2> QED
    BY <2>1, <2>2, StartProtocolBus DEF Start
<1>2. CASE StartReturned
  BY <1>2 DEF StartReturned
<1>3. ASSUME NEW kind, Answered(kind), NobodyInside
      PROVE  /\ outstanding = {kind} /\ outstanding' = {} /\ late' = {}
             /\ kind \in AwaitSet[activeCommand] /\ activeCommand \in Op \cup {"end"}
  BY <1>3 DEF Answered, NobodyInside, TypeInv, TypeOK
<1>4. CASE AnswerStep
  <2>1. ASSUME NEW kind \in DOMAIN Answers, NEW status \in Answers[kind], Answer(kind, status)
        PROVE  BusInv'
    <3>1. /\ outstanding = {kind} /\ outstanding' = {} /\ late' = {}
          /\ kind \in AwaitSet[activeCommand] /\ activeCommand \in Op \cup {"end"}
      BY <1>3, <2>1 DEF Answer
    <3>2. /\ kind \in {"lock", "write", "event", "timer", "exec", "connect", "disconnect"}
          /\ call' = Calls(CallbackOf[kind], status) /\ call = Idle
          /\ UNCHANGED <<flags, programVars>>
          /\ busLocks' = IF kind = "lock" /\ status = "Success"
                         THEN busLocks + 1 ELSE busLocks
      BY <2>1 DEF Answer, Answers, NobodyInside
    <3>3. /\ call'.fn = CallbackOf[kind] /\ call'.status = status
          /\ call'.source = "leftover"
      BY <3>2
    <3>4. OneAnswer' /\ CallMatches' /\ NoAbort'
      BY <3>1, <3>2, <3>3
    <3>5. PendingMatches'
      BY <3>1, <3>2, <3>3
    <3>6. OwnerMatches' /\ BusLockBalance'
      BY <3>1, <3>2, <3>3
    <3> QED
      BY <3>4, <3>5, <3>6
  <2>2. ASSUME NEW kind \in {"read", "asyncRead"}, NEW status, NEW input,
               AnswerRead(kind, status, input)
        PROVE  BusInv'
    <3>1. /\ outstanding = {kind} /\ outstanding' = {} /\ late' = {}
          /\ kind \in AwaitSet[activeCommand] /\ activeCommand \in Op \cup {"end"}
      BY <1>3, <2>2 DEF AnswerRead
    <3>2. /\ call'.fn = "readCallback" /\ call'.source = kind
          /\ UNCHANGED <<flags, programVars, busLocks>> /\ call = Idle
      BY <2>2 DEF AnswerRead, NobodyInside
    <3>3. activeCommand = "in" /\ Has("AcceptInput")
      <4>1. ASSUME NEW command \in Op \cup {"end"}, kind \in AwaitSet[command]
            PROVE  command = "in"
        BY <4>1
      <4>2. outstanding \cap {"read", "asyncRead"} # {}
        BY <3>1
      <4> QED
        BY <3>1, <4>1, <4>2
    <3>4. OneAnswer' /\ CallMatches' /\ NoAbort'
      BY <3>1, <3>2, <3>3
    <3>5. PendingMatches'
      BY <3>1, <3>2, <3>3
    <3>6. OwnerMatches' /\ BusLockBalance'
      BY <3>1, <3>2, <3>3
    <3> QED
      BY <3>4, <3>5, <3>6
  <2> QED
    BY <1>4, <2>1, <2>2 DEF AnswerStep
<1>5. CASE EarlyInputStep
  <2>1. PICK input \in Chunks, status \in {"Success", "End"} : EarlyInput(status, input)
    BY <1>5 DEF EarlyInputStep
  <2> QED
    BY <2>1 DEF EarlyInput, NobodyInside
<1>6. CASE DisconnectStep
  <2>1. PICK kind \in {"write", "read", "asyncRead"} : AsyncDisconnect(kind)
    BY <1>6 DEF DisconnectStep
  <2>2. outstanding = {kind} /\ outstanding' = {} /\ late' = {}
    BY <1>3, <2>1 DEF AsyncDisconnect
  <2> QED
    BY <2>1, <2>2 DEF AsyncDisconnect, NobodyInside
<1>7. CASE AsyncConnect
  BY <1>7 DEF AsyncConnect, NobodyInside, QueueKind
<1> QED
  BY <1>1, <1>2, <1>4, <1>5, <1>6, <1>7, Zenon DEF EnvironmentStep

HIDE DEF BusInv, OneAnswer, CallMatches, PendingMatches, OwnerMatches, NoAbort,
         BusLockBalance, Has, Calls, Op, Callback, CallbackOf, Waiting, AwaitSet,
         Idle, Finish, Receives, busVars, programVars, inputVars

(* The bus is free at the beginning.                                       *)
LEMMA InitBus == Init => BusInv
BY DEF Init, BusInv, OneAnswer, CallMatches, PendingMatches, OwnerMatches, NoAbort,
   BusLockBalance, Has, Calls, Op, Idle, Waiting

(* Every step preserves the invariant.                                     *)
LEMMA StepBus ==
  ASSUME TypeInv, BusInv, [Next]_vars
  PROVE  BusInv'
<1>1. CASE UNCHANGED vars
  BY <1>1 DEF BusInv, OneAnswer, CallMatches, PendingMatches, OwnerMatches, NoAbort,
     BusLockBalance, Has, Waiting, vars, programVars, inputVars, busVars
<1> QED
  BY <1>1, EngineBus, EnvironmentBus DEF Next

(* The invariant holds in every reachable state.                           *)
LEMMA BusInvariant == Spec => [](TypeInv /\ BusInv)
<1>1. TypeInv /\ BusInv /\ [Next]_vars => BusInv'
  BY StepBus
<1> QED
  BY <1>1, InitBus, TypeInvariant, PTL DEF Spec

(* Whatever the protocol and the bus do, the record has the bus locked     *)
(* exactly while BusOwner is set or a granted lock is being delivered.     *)
THEOREM BusLockBalanced == Spec => []BusLockBalance
<1>1. BusInv => BusLockBalance
  BY DEF BusInv
<1> QED
  BY <1>1, BusInvariant, PTL

(* A protocol that has ended leaves no lock and no pending answer behind.  *)
THEOREM NothingIsLeftBehind == Spec => []NothingLeftBehind
<1>1. TypeInv /\ BusInv => NothingLeftBehind
  <2> SUFFICES ASSUME TypeInv, BusInv, call = Idle, activeCommand = "end"
               PROVE  ~Has("BusOwner") /\ busLocks = 0 /\ outstanding = {} /\ late = {}
    BY DEF NothingLeftBehind
  <2>1. ~Has("BusOwner") /\ busLocks = 0
    BY DEF BusInv, OwnerMatches, BusLockBalance, Waiting, Idle, Calls
  <2>2. outstanding = {}
    BY DEF BusInv, OneAnswer, AwaitSet
  <2> QED
    BY <2>1, <2>2 DEF BusInv, NoAbort
<1> QED
  BY <1>1, BusInvariant, PTL

(* Every callback of the bus or timer finds the flag that expects it, and  *)
(* no command is executed while an answer is still pending.                *)
THEOREM EveryCallbackExpected == Spec => []CallbacksExpected
<1>1. BusInv => CallbacksExpected
  BY DEF BusInv, CallbacksExpected, PendingMatches, OneAnswer, Waiting, BusPending, Has
<1> QED
  BY <1>1, BusInvariant, PTL

(* The bus is asked to write only while this record has it locked.         *)
THEOREM WritesOnlyLocked == Spec => []WriteOnlyLocked
<1>1. BusInv => WriteOnlyLocked
  BY DEF BusInv, WriteOnlyLocked, OwnerMatches, BusLockBalance
<1> QED
  BY <1>1, BusInvariant, PTL
-----------------------------------------------------------------------------
(* Waiting: on a bus that refuses only what ends the protocol, a protocol  *)
(* that runs is always woken up again.                                     *)

USE DEF WaitInv, Awaits, AwaitedBy, Has, Calls, Idle, Receives, Finish, CallbackOf

(* While a command is evaluated, the place in the queue is free.           *)
LEMMA QueueIsFree ==
  ASSUME BusInv,
         call.fn \in Op \cup {"end", "readRequest", "evalCommand", "parse", "lockCallback"}
  PROVE  /\ outstanding = {} /\ late = {} /\ ~Has("Aborted")
         /\ \A kind \in QueueKind : CanQueue(kind)
         /\ call.fn # "lockCallback" => ~Has("LockPending")
         /\ call.fn \in Op => activeCommand = call.fn
BY DEF BusInv, OneAnswer, CallMatches, PendingMatches, NoAbort, Waiting, CanQueue, Op

(* A request that the bus takes: it waits for the answer, or has it.       *)
LEMMA RequestWaits ==
  ASSUME NEW kind \in QueueKind \cup {"event", "exec"}, NEW locks, BusTakes(kind, locks),
         outstanding = {}, ~Has("Aborted")
  PROVE  \/ call'.fn = "idle" /\ outstanding' = {kind}
         \/ kind = "read" /\ call'.fn = "readCallback" /\ call'.source = "read"
         \/ kind = "connect" /\ call'.fn = "connectCallback"
         \/ call'.fn \in {"lockCallback", "writeCallback", "eventCallback"}
<1>1. \/ call' = Idle /\ outstanding' = outstanding \cup {kind}
      \/ kind = "read" /\ \E c : call' = Receives("End", c, "read")
      \/ kind \in Immediate /\ kind # "read" /\ call' = Calls(CallbackOf[kind], "Success")
  BY Zenon DEF BusTakes
<1>2. kind \in Immediate => kind \in {"lock", "write", "read", "event", "connect"}
  BY StreamCoreAssumption
<1> QED
  BY <1>1, <1>2

(* A start does not leave a command waiting.                               *)
LEMMA StartWaits ==
  ASSUME NEW mode, StartProtocol(mode), activeCommand = "end"
  PROVE  WaitInv'
<1>1. call' = Idle \/ call' = Calls("evalCommand", "Success")
  BY DEF StartProtocol
<1> QED
  BY <1>1 DEF StartProtocol

(* The commands.                                                           *)
LEMMA CommandWaits ==
  ASSUME TypeInv, BusInv, RefusalsEnd,
         \/ EvalCommand \/ EvalEnd \/ EvalOut \/ EvalIn \/ ReadRequest \/ EvalWait
         \/ EvalEvent \/ EvalExec \/ EvalConnect \/ EvalDisconnect
  PROVE  WaitInv'
<1>1. CASE EvalCommand
  <2>1. NextOp \in Op \cup {"end"}
    BY OpAtType DEF NextOp, TypeInv, TypeOK
  <2>2. call' = Calls(NextOp, "Success")
    BY <1>1 DEF EvalCommand, BusInv, PendingMatches, OneAnswer, Waiting, BusPending
  <2> QED
    BY <2>1, <2>2 DEF Op
<1>2. CASE EvalEnd \/ EvalWait
  BY <1>2, QueueIsFree DEF EvalEnd, EvalWait, Op, programVars
<1>3. CASE EvalIn
  BY <1>3, QueueIsFree DEF EvalIn, Op
<1>4. CASE EvalOut
  <2>1. /\ outstanding = {} /\ ~Has("Aborted") /\ CanQueue("write") /\ ~Has("LockPending")
        /\ activeCommand' = "out"
    BY <1>4, QueueIsFree DEF EvalOut, Op, QueueKind, programVars
  <2>2. \/ \E result : Finish(result)
        \/ BusTakes("lock", busLocks) /\ flags' = flags \cup EarlyFlags \cup {"LockPending"}
        \/ BusTakes("write", busLocks) /\ flags' = flags \cup EarlyFlags \cup {"WritePending"}
    BY <1>4, <2>1, Zenon DEF EvalOut, BusRefuses, RefusalsEnd
  <2> QED
    BY <2>1, <2>2, RequestWaits DEF EarlyFlags, QueueKind
<1>5. CASE ReadRequest
  <2> DEFINE kind == IF Has("AsyncMode") THEN "asyncRead" ELSE "read"
  <2>1. /\ outstanding = {} /\ ~Has("Aborted") /\ CanQueue("read") /\ CanQueue("asyncRead")
        /\ activeCommand' = "in" /\ (Has("AsyncMode")' <=> Has("AsyncMode"))
    BY <1>5, QueueIsFree DEF ReadRequest, QueueKind, programVars, BusInv, CallMatches
  <2>2. \E locks : BusTakes(kind, locks)
    BY <1>5, <2>1, Zenon DEF ReadRequest, RefusalsEnd
  <2> QED
    BY <2>1, <2>2, RequestWaits DEF QueueKind
<1>6. CASE EvalEvent \/ EvalExec
  <2>1. outstanding = {} /\ ~Has("Aborted") /\ activeCommand' = call.fn
    BY <1>6, QueueIsFree DEF EvalEvent, EvalExec, Op, programVars
  <2>2. \/ Finish("FormatError")
        \/ \E locks : BusTakes(call.fn, locks) /\ call.fn \in {"event", "exec"}
    BY <1>6, Zenon DEF EvalEvent, EvalExec
  <2> QED
    BY <2>1, <2>2, RequestWaits, SMTT(30)
<1>7. CASE EvalConnect \/ EvalDisconnect
  <2>1. /\ outstanding = {} /\ ~Has("Aborted") /\ activeCommand' = call.fn
        /\ CanQueue("connect")
    BY <1>7, QueueIsFree DEF EvalConnect, EvalDisconnect, Op, QueueKind, programVars
  <2>2. \/ Finish("Fault")
        \/ BusTakes(call.fn, busLocks) /\ call.fn \in {"connect", "disconnect"}
    BY <1>7, <2>1, Zenon DEF EvalConnect, EvalDisconnect, BusRefuses, RefusalsEnd
  <2> QED
    BY <2>1, <2>2, RequestWaits DEF QueueKind
<1> QED
  BY <1>1, <1>2, <1>3, <1>4, <1>5, <1>6, <1>7

(* The callbacks go on with the protocol, or leave it waiting.             *)
LEMMA CallbackWaits ==
  ASSUME TypeInv, BusInv, WaitInv, RefusalsEnd,
         \/ LockCallback \/ WriteCallback \/ EventCallback \/ TimerCallback
         \/ ExecCallback \/ ConnectCallback \/ DisconnectCallback
  PROVE  WaitInv'
<1>1. CASE LockCallback
  <2>1. /\ outstanding = {} /\ ~Has("Aborted") /\ CanQueue("write") /\ Has("LockPending")
        /\ activeCommand' = "out"
    BY <1>1, QueueIsFree DEF LockCallback, QueueKind, programVars, BusInv, CallMatches,
       PendingMatches
  <2>2. \/ Finish("LockTimeout")
        \/ BusTakes("write", busLocks) /\ "LockPending" \notin flags'
    BY <1>1, <2>1 DEF LockCallback, BusRefuses, RefusalsEnd
  <2> QED
    BY <2>1, <2>2, RequestWaits DEF QueueKind
<1>2. CASE WriteCallback \/ EventCallback \/ TimerCallback
  BY <1>2 DEF WriteCallback, EventCallback, TimerCallback, BusInv, PendingMatches
<1>3. CASE ExecCallback
  BY <1>3 DEF ExecCallback, CommandAnswer, BusInv, CallMatches
<1>4. CASE ConnectCallback
  <2>1. CASE activeCommand = "end"
    BY <1>4, <2>1, StartWaits, Zenon DEF ConnectCallback
  <2>2. CASE activeCommand # "end"
    BY <1>4, <2>2 DEF ConnectCallback, CommandAnswer, programVars, busVars
  <2> QED
    BY <2>1, <2>2
<1>5. CASE DisconnectCallback
  BY <1>5 DEF DisconnectCallback, CommandAnswer
<1> QED
  BY <1>1, <1>2, <1>3, <1>4, <1>5

(* Input is parsed, or the bus goes on reading.                            *)
LEMMA InputWaits ==
  ASSUME TypeInv, BusInv, WaitInv, ReadCallback \/ Parse \/ FinishProtocol \/ Cleanup \/ FinishHook
  PROVE  WaitInv'
<1>1. CASE ReadCallback
  <2>1. UNCHANGED <<flags, programVars, busVars>>
    BY <1>1 DEF ReadCallback
  <2>2. CASE call.source = "early"
    <3>1. call' = Idle
      BY <1>1, <2>2, Zenon DEF ReadCallback, BusInv, CallMatches
    <3> QED
      BY <1>1, <2>1, <2>2, <3>1 DEF ReadCallback, programVars, busVars
  <2>3. CASE call.source # "early"
    <3>1. activeCommand = "in" /\ Has("AcceptInput")
      BY <1>1, <2>3 DEF ReadCallback, BusInv, CallMatches, PendingMatches
    <3>2. \/ call' = Calls("in", "Success")
          \/ \E result : Finish(result)
          \/ call' = [call EXCEPT !.fn = "parse", !.status = EffectiveStatus(call.status)]
      BY <1>1, <3>1, Zenon DEF ReadCallback
    <3>3. CASE call' = [call EXCEPT !.fn = "parse", !.status = EffectiveStatus(call.status)]
      <4>1. call'.fn = "parse" /\ call'.source = call.source
        BY <3>3 DEF TypeInv, TypeOK, CallSet
      <4> QED
        BY <1>1, <2>1, <2>3, <4>1 DEF ReadCallback
    <3> QED
      BY <3>2, <3>3
  <2> QED
    BY <2>2, <2>3
<1>2. CASE Parse
  <2>1. /\ outstanding = {} /\ activeCommand = "in" /\ call.source \in Source \ {"early"}
        /\ UNCHANGED <<flags, programVars>>
    BY <1>2, QueueIsFree DEF Parse, BusInv, CallMatches, TypeInv, TypeOK, CallSet
  <2>2. \/ WantMore
        \/ \E fn \in {"evalCommand", "in"} : call' = Calls(fn, "Success")
        \/ \E status : call' = Calls("finish", status)
    BY <1>2, Zenon DEF Parse
  <2>3. CASE WantMore
    BY <1>2, <2>1, <2>3 DEF WantMore, Source, Parse, programVars
  <2> QED
    BY <2>2, <2>3
<1>3. CASE FinishProtocol
  BY <1>3 DEF FinishProtocol
<1>4. CASE Cleanup
  BY <1>4 DEF Cleanup
<1>5. CASE FinishHook
  BY <1>5 DEF FinishHook, BusInv, CallMatches, programVars
<1> QED
  BY <1>1, <1>2, <1>3, <1>4, <1>5

(* What the environment does.                                              *)
LEMMA EnvironmentWaits ==
  ASSUME TypeInv, BusInv, WaitInv, EnvironmentStep
  PROVE  WaitInv'
<1>1. CASE StartStep
  <2>1. PICK mode \in StartMode : Start(mode)
    BY <1>1 DEF StartStep
  <2>2. activeCommand = "end"
    BY <2>1 DEF Start, NobodyInside
  <2> QED
    BY <2>1, <2>2, StartWaits DEF Start
<1>2. CASE StartReturned
  BY <1>2 DEF StartReturned, programVars, busVars
<1>3. ASSUME NEW kind, Answered(kind), NobodyInside
      PROVE  /\ kind \in AwaitSet[activeCommand] /\ activeCommand \in Op
             /\ outstanding = {AwaitedBy[activeCommand]} /\ kind = AwaitedBy[activeCommand]
             /\ ~Has("Aborted")
  BY <1>3 DEF Answered, NobodyInside, TypeInv, TypeOK, BusInv, NoAbort, OneAnswer, AwaitSet, Op
<1>4. ASSUME NEW kind \in DOMAIN Answers, NEW status, Answer(kind, status)
      PROVE  WaitInv'
  <2>1. /\ kind \in AwaitSet[activeCommand] /\ activeCommand \in Op
        /\ call' = Calls(CallbackOf[kind], status) /\ activeCommand' = activeCommand
    BY <1>3, <1>4 DEF Answer, programVars
  <2>2. kind \in {"lock", "write", "event", "timer", "exec", "connect", "disconnect"}
    BY DEF Answers
  <2> QED
    BY <2>1, <2>2 DEF AwaitSet, Op
<1>5. ASSUME NEW kind \in {"read", "asyncRead"}, NEW status, NEW input,
             AnswerRead(kind, status, input)
      PROVE  WaitInv'
  <2>1. /\ kind = AwaitedBy[activeCommand] /\ activeCommand \in Op
        /\ call' = Receives(status, input, kind) /\ UNCHANGED <<flags, activeCommand>>
    BY <1>3, <1>5 DEF AnswerRead, programVars
  <2> QED
    BY <2>1 DEF Op
<1>6. CASE AnswerStep
  BY <1>4, <1>5, <1>6 DEF AnswerStep
<1>7. CASE EarlyInputStep
  <2>1. PICK input, status : EarlyInput(status, input)
    BY <1>7 DEF EarlyInputStep
  <2> QED
    BY <2>1 DEF EarlyInput, NobodyInside, programVars, busVars
<1>8. CASE DisconnectStep
  <2>1. PICK kind \in {"write", "read", "asyncRead"} : AsyncDisconnect(kind)
    BY <1>8 DEF DisconnectStep
  <2>2. call' = Calls("disconnectCallback", "Success")
    BY <1>3, <2>1 DEF AsyncDisconnect
  <2> QED
    BY <2>2
<1>9. CASE AsyncConnect
  BY <1>9 DEF AsyncConnect, NobodyInside, programVars, busVars
<1> QED
  BY <1>1, <1>2, <1>6, <1>7, <1>8, <1>9, Zenon DEF EnvironmentStep

(* Every step preserves the invariant.                                     *)
LEMMA StepWaits ==
  ASSUME TypeInv, BusInv, WaitInv, RefusalsEnd, [Next]_vars
  PROVE  WaitInv'
<1>1. CASE UNCHANGED vars
  BY <1>1 DEF vars, programVars, busVars
<1>2. CASE EngineStep
  BY <1>2, CommandWaits, CallbackWaits, InputWaits, Zenon DEF EngineStep, ProtocolStep
<1> QED
  BY <1>1, <1>2, EnvironmentWaits DEF Next

HIDE DEF WaitInv, Awaits, AwaitedBy, Has, Calls, Idle, Receives, Finish, CallbackOf

(* While nobody is inside the engine, a running protocol waits for the     *)
(* answer to its command, and so is never forgotten.                       *)
THEOREM RunningIsAwaited == RefusalsEnd /\ Spec => []RunningProtocolWaits
<1> SUFFICES ASSUME RefusalsEnd PROVE Spec => []RunningProtocolWaits
  OBVIOUS
<1>1. Init => WaitInv
  BY DEF Init, WaitInv, Idle, Calls
<1>2. TypeInv /\ BusInv /\ WaitInv /\ [Next]_vars => WaitInv'
  BY StepWaits
<1>3. WaitInv => RunningProtocolWaits
  BY DEF WaitInv, RunningProtocolWaits, Awaits, Idle, Calls
<1> QED
  BY <1>1, <1>2, <1>3, BusInvariant, PTL DEF Spec
=============================================================================
