SPECIFICATION Spec
CONSTANTS
  MaxAttempts = 10
  MaxRuns = 2
  Listings <- MCListings
  Newline = "newline"
INVARIANT RawIsSuperblock
\* The tool ends.
CHECK_DEADLOCK FALSE
