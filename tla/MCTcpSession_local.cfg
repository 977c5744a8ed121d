\* Non-fresh names in a batch.
CONSTANTS
  Kind <- MCKindFew
  MaxQueries = 2
  MaxSent = 3
SPECIFICATION Spec
INVARIANTS NonFreshForwarded
\* A session is over when it is closed.
CHECK_DEADLOCK FALSE
