\* The smoke test's table, its request patterns, and lengths up to the limit of a prefix.
CONSTANTS
  Row <- AllRows
  PayloadSize <- AllSizes
  QuerySize = 12
  Latency = {0, 120}
  StallTime = 200
  RequestDelay = 1
SPECIFICATION MCSpec
INVARIANTS RowsMet ReplyIntact
\* A run ends with the probe's verdict.
CHECK_DEADLOCK FALSE
