\* streamReload and changes of SCAN at any time.
CONSTANTS
  Byte = {"g", "b", "T"}
  InTerminator <- OneByteTerminator
  MaxInput = 0
  Protocols <- SubscribeOnly
  Chunks <- GoodLines
  MaxBuffer = 2
  Refusable = {"lock"}
  Immediate = {}
  Unlimited = {"disconnect"}
  AsyncBus = TRUE
  MaxLocks = 1
  Reconnects = FALSE
  Unsolicited = FALSE
  Reloads = TRUE
  ScanChanges = TRUE
  Pauses = FALSE
  BootIoIntr = {FALSE}
  MaxCallbacks = 1
SPECIFICATION RecordSpec
CHECK_DEADLOCK FALSE
INVARIANT ListensAfterRun
