SPECIFICATION MCSpec
CHECK_DEADLOCK FALSE
CONSTANTS
  Invocations = {i1, i2}
  Payloads = {new, newer, forged}
  Genuine = {new, newer}
  Edits = {e1}
SYMMETRY Symmetry
INVARIANTS
  OnlyVerifiedInstalled
  OrphansAreReported
  EditsAreKept
  EnrolledShimRuns
PROPERTIES
  ReplacedIsBackedUpOrUnsaved
