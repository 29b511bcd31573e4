CONSTANTS
  Proxies = {1}
  Sources = {s1}
  SchemeOf <- SchemeBoth
  FailLimit = 2
  RecheckDelays = 1
  SampleSize = 1
  EnqueueLimit = 1
  DropGates = {FALSE}
  EngineBacksOff = FALSE
  MaxFaults = 1
SPECIFICATION FairSpec
PROPERTIES QuarantineEnds T1ReachesEveryone T2ReachesWhatT1Skips
