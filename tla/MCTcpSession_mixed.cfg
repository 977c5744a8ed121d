\* Every kind of query in short conversations, and a few kinds beyond the limit.
CONSTANTS
  Kind <- MCKindAll
  MaxQueries = 3
  MaxSent = 5
SPECIFICATION MCSpec
INVARIANTS TypeOK RepliesInOrder CleanEnd QueryBudget
PROPERTIES SessionEnds
\* A session is over when it is closed.
CHECK_DEADLOCK FALSE
