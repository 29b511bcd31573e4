CONSTANTS
  Proxies = {1, 2}
  Sources = {s1}
  SchemeOf <- SchemesOffT1
  FailLimit = 2
  RecheckDelays = 2
  SampleSize = 1
  EnqueueLimit = 1
  DropGates = {FALSE}
  EngineBacksOff = TRUE
  MaxFaults = 1
SPECIFICATION Spec
PROPERTY StepsAreLawful
