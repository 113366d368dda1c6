\* Violated: a record runs after a load that failed.
CONSTANTS
  Numerals <- MCNumerals
  BadFormats <- MCBadFormats
  Digit <- MCDigit
  EventBus = TRUE
  RecordOrder <- MCRecords
  Link <- MCLink
  Files <- MCFiles
  Edits <- MCEdits
  NoFile <- MCNoFile
  Reloads <- MCReloads
SPECIFICATION Spec
CHECK_DEADLOCK FALSE
INVARIANT StaysInvalid
