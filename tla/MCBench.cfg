\* Two scenarios, two runs.
CONSTANTS
  compactc = compactc  minocrab = minocrab
  sel2 = sel2  sel6 = sel6
  Requested <- MCRequested
  Runs = 2
  Reference = compactc
  Port = minocrab
  ArmName <- MCArmName
  EmbeddedCovers = {compactc, minocrab}
  Earlier <- MCEarlier
SPECIFICATION Spec
INVARIANTS CountedIsSound RawFileComplete EarlierKept ArmsAbreast Delivered GatePassed
CHECK_DEADLOCK FALSE
