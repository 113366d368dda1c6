\* Violated: a protocol that finishes before startProtocol returns.
CONSTANTS
  Byte = {"g", "b", "T"}
  InTerminator <- OneByteTerminator
  MaxInput = 0
  Protocols <- MCProtocols
  Chunks <- TwoLines
  MaxBuffer = 4
  Refusable = {"lock"}
  Immediate = {"event"}
  Unlimited = {"disconnect"}
  AsyncBus = TRUE
  MaxLocks = 1
  Reconnects = FALSE
  Unsolicited = FALSE
  Reloads = FALSE
  ScanChanges = FALSE
  Pauses = FALSE
  BootIoIntr = {FALSE}
  MaxCallbacks = 2
SPECIFICATION RecordSpec
INVARIANT PactEnds
