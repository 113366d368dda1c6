CONSTANTS
  Byte = {"x", "R", "L"}
  MaxLength = 6
  Framings <- MCFramings
  Streams <- MCStreams
SPECIFICATION Spec
INVARIANTS LinesIndependentOfChunks NoLineOverlooked
PROPERTY AllLinesDelivered
CHECK_DEADLOCK FALSE
