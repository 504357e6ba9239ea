\* Three objects: cascades, cycles, unlinking from the middle of a list; the
\* runtime seen through owners only.
SPECIFICATION Spec
CONSTANTS
  Obj = {o1, o2, o3}
  Nil = Nil
  Global = {g1}
  Index = {1}
  FR_MAX_SCOPES = 1
  MaxFrames = 1
  MaxCount = 2
  StoreArgs = FALSE
  CatchDeep = FALSE
INVARIANTS ListsMatch
PROPERTIES FreedOnlyWhenUnowned CallsReturn ImplementsOwnership
