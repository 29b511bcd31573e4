CONSTANTS
  Proxies = {1}
  Sources = {s1}
  SchemeOf <- SchemeBoth
  FailLimit = 2
  RecheckDelays = 1
  SampleSize = 1
  EnqueueLimit = 1
  DropGates = {FALSE}
  EngineBacksOff = FALSE
  MaxFaults = 0
SPECIFICATION Spec
INVARIANT NoRowFrozen
