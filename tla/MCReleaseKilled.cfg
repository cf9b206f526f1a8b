\* Runs killed anywhere, over a tree that changes under them; one that keys ends.
CONSTANTS
  None = None
  Torn = Torn
  r1 = r1  r2 = r2  r3 = r3
  hello = hello  pool = pool  exec = exec
  hello1 = hello1  pool1 = pool1  exec1 = exec1  exec2 = exec2
  execGrown = execGrown
  Circuit = {hello, pool, exec}
  Revision <- MCRevision
  IR <- MCIR
  Emission <- MCEmission
  KOf <- MCKOf
  ReleaseOrder <- MCReleaseOrder
  RecordedK <- MCRecordedK
  Tool = {"0.34"}
  Salt = {0}
  Quiet = FALSE
  MaxRuns = 3
  MaxEdits = 2
SPECIFICATION FairSpec
INVARIANTS SumsDescribeFiles
PROPERTIES KeygenEnds
CHECK_DEADLOCK FALSE
