CONSTANTS
  Ios = {i1, i2}
  Reqs = {r1, r2}
  Kinds = {d1, d2}
  Other = Other
  Buckets = {0}
  Elems = {e1, e2}
  LruFloor = 1
  MaxHistogramKeys = 2
  MaxIssues = 2
  MaxParts = 2
  None = None

SPECIFICATION FairSpec
INVARIANTS TracedMeasuredRight CompletedIsCounted ReportedOnce
PROPERTIES CountedIsReported
