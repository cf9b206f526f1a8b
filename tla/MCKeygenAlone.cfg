\* Three runs of one arm, one at a time, killed anywhere.
CONSTANTS
  None = None  Empty = Empty  Torn = Torn
  r1 = r1  r2 = r2  r3 = r3
  port = port
  ir1 = ir1  ir2 = ir2
  Runs = {r1, r2, r3}
  Arm <- MCArm
  Zkir <- MCZkir
  AtOnce = 1
  MaxRemove = 2
SPECIFICATION FairSpec
INVARIANTS LogNamesKeyedIr
PROPERTIES ResultStands ContainersEnd
CHECK_DEADLOCK FALSE
