\* The default configuration, the first row.
CONSTANTS
  Row <- NormalRow
  PayloadSize <- MCSizes
  QuerySize = 12
  Latency = {0, 120}
  StallTime = 200
  RequestDelay = 1
SPECIFICATION Spec
INVARIANTS SmokeTest
\* A run ends with the probe's verdict.
CHECK_DEADLOCK FALSE
