\* Files of all kinds at boot; one of them is edited and reloaded.
CONSTANTS
  Numerals <- MCNumerals
  BadFormats <- MCBadFormats
  Digit <- MCDigit
  EventBus = TRUE
  RecordOrder <- MCRecords
  Link <- MCLink
  Files <- MCFiles
  Edits <- MCEdits
  NoFile <- MCNoFile
  Reloads <- MCReloads
SPECIFICATION Spec
CHECK_DEADLOCK FALSE
INVARIANTS OnlyLegalFilesLoad LoadedAsWritten
PROPERTY OneVersion
