\* Transcripts of up to three elements, one more than the loop has passes for.
CONSTANTS
  FieldSize = 5
  ByteSize = 2
  MaxElements = 3
  MAX_ITERATIONS = 3
SPECIFICATION Spec
INVARIANTS Verdict PartialIsReference
PROPERTIES EveryPassSettles
CHECK_DEADLOCK FALSE
