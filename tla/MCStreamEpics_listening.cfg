\* Devices that send unasked, disconnect and connect by themselves; iocPause and iocRun.
CONSTANTS
  Byte = {"g", "b", "T"}
  InTerminator <- OneByteTerminator
  MaxInput = 0
  Protocols <- ListenProtocols
  Chunks <- GoodLines
  MaxBuffer = 2
  Refusable = {"lock"}
  Immediate = {"event"}
  Unlimited = {"disconnect"}
  AsyncBus = TRUE
  MaxLocks = 1
  Reconnects = TRUE
  Unsolicited = TRUE
  Reloads = FALSE
  ScanChanges = FALSE
  Pauses = TRUE
  BootIoIntr = {TRUE}
  MaxCallbacks = 2
SPECIFICATION RecordSpec
INVARIANT KeepsListening
