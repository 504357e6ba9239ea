\* Calls, exceptions and scope overflow: three frames, two scopes.
SPECIFICATION Spec
CONSTANTS
  Obj = {o1, o2}
  Nil = Nil
  Global = {g1}
  Index = {i1, i2}
  FR_MAX_SCOPES = 2
  MaxFrames = 3
  MaxCount = 2
  StoreArgs = FALSE
  CatchDeep = FALSE
SYMMETRY Symmetry
INVARIANTS RcExact NoDanglingCell ScopesBalanced CleanExit
