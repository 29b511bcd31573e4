CONSTANTS
  Proxies = {1}
  Sources = {s1, s2}
  SchemeOf <- SchemeBoth
  FailLimit = 2
  RecheckDelays = 1
  SampleSize = 1
  EnqueueLimit = 1
  DropGates = {TRUE, FALSE}
  EngineBacksOff = TRUE
  MaxFaults = 1
SPECIFICATION HSpec
INVARIANTS TypeOK ColumnsAgree ChargedOncePerCycle FailuresAreConsecutive
PROPERTIES StepsAreLawful ImplementsDiagram
