SPECIFICATION Spec
CONSTANTS
  MaxAttempts = 10
  MaxRuns = 2
  Listings <- MCListings
  Newline = "newline"
INVARIANTS CleansUp PublishesCompleteDisks DiffWalkDecides
PROPERTY Finishes
\* The tool ends.
CHECK_DEADLOCK FALSE
