SPECIFICATION Spec
CONSTANTS
  MaxId = 3
  Bodies = {b1, b2}
  Junk = junk
  Policy = sha
  MaxEdits = 2
CHECK_DEADLOCK FALSE
INVARIANTS
  VerdictIsExact
  SingleEditIsReported
  ReportsAreLocal
  ArchiveSeesTheRest
