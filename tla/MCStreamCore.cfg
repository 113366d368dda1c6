\* All commands and handlers, on a bus that answers later or from inside its
\* requests, and refuses only what ends the protocol.
CONSTANTS
  Byte = {"g", "b", "T"}
  InTerminator <- OneByteTerminator
  MaxInput = 0
  Protocols <- MCProtocols
  Chunks <- MCChunks
  MaxBuffer = 3
  Refusable = {"lock", "disconnect"}
  Immediate = {"lock", "write", "read", "event", "connect"}
  Unlimited = {"disconnect"}
  AsyncBus = TRUE
  MaxLocks = 2
SPECIFICATION FairSpec
INVARIANTS
  TypeOK BusLockBalance NothingLeftBehind RunningProtocolWaits CallbacksExpected
  WriteOnlyLocked FailureReported
PROPERTIES OneHandlerPerRun StartedProtocolFinishes
