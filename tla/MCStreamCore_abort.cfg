\* Aborts at any time, also between two steps inside the engine.
CONSTANTS
  Byte = {"g", "b", "T"}
  InTerminator <- OneByteTerminator
  MaxInput = 0
  Protocols <- FewProtocols
  Chunks <- FewChunks
  MaxBuffer = 2
  Refusable = {"lock", "disconnect"}
  Immediate = {"event"}
  Unlimited = {"disconnect"}
  AsyncBus = TRUE
  MaxLocks = 2
SPECIFICATION AbortSpec
INVARIANT LockNeverOverdrawn
