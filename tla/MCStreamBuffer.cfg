SPECIFICATION Spec
CONSTANTS
    Bytes = {0, 1, 2}
    Texts <- MCTexts
    Numbers <- MCNumbers
    Local = 3
    Capacities = {6}
INVARIANTS TypeOK Terminated FindsFirst ReplacesRange 
PROPERTY ContentKept
CHECK_DEADLOCK FALSE
