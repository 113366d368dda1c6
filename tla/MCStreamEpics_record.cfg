\* A passive or I/O Intr record on a bus that sends one line per read.
CONSTANTS
  Byte = {"g", "b", "T"}
  InTerminator <- OneByteTerminator
  MaxInput = 0
  Protocols <- MCProtocols
  Chunks <- SingleLines
  MaxBuffer = 2
  Refusable = {"lock"}
  Immediate = {"event"}
  Unlimited = {"disconnect"}
  AsyncBus = TRUE
  MaxLocks = 1
  Reconnects = FALSE
  Unsolicited = FALSE
  Reloads = FALSE
  ScanChanges = FALSE
  Pauses = FALSE
  BootIoIntr = {TRUE, FALSE}
  MaxCallbacks = 2
SPECIFICATION FairRecordSpec
INVARIANTS OneCompletion
PROPERTIES AlarmKept InitBeforeReturn ProcessingCompletes LoadingCompletes EngineUsedAsSpecified
