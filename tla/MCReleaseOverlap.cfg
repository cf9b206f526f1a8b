\* A re-record while a --write-keys run is under way.
CONSTANTS
  None = None
  Torn = Torn
  r1 = r1  r2 = r2  r3 = r3
  hello = hello  pool = pool  exec = exec
  hello1 = hello1  pool1 = pool1  exec1 = exec1  exec2 = exec2
  execGrown = execGrown
  Circuit = {hello, exec}
  Revision <- SoloRevision
  IR <- SoloIR
  Emission <- SoloEmission
  KOf <- MCKOf
  ReleaseOrder <- SoloReleaseOrder
  RecordedK <- MCRecordedK
  Tool = {"0.34"}
  Salt = {0}
  Quiet = FALSE
  MaxRuns = 1
  MaxEdits = 3
SPECIFICATION Spec
INVARIANTS RecordedKeysFitIr
CHECK_DEADLOCK FALSE
