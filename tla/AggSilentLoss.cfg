CONSTANTS
  k2 = k2
  k1 = k1
  Ops = {o1, o2}
  Keys = {k1, k2}
  SelfKeys = {}
  Elems = {e1, e2}
  NoElem = NoElem
  NoKey = NoKey
  BusyRetries = 1

SPECIFICATION Spec
SYMMETRY Symmetry
INVARIANT NoSilentLoss
