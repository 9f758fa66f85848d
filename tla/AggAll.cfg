CONSTANTS
  k2 = k2
  k1 = k1
  Ops = {o1, o2, o3}
  Keys = {k1, k2}
  SelfKeys = {k2}
  Elems = {e1, e2}
  NoElem = NoElem
  NoKey = NoKey
  BusyRetries = 1

SPECIFICATION FairSpec
INVARIANTS CountedOnce ChargedOnce DropsReportedOnce SampleConsistent
PROPERTIES ImplementsLedger DrainEnds RecordedIsReported
