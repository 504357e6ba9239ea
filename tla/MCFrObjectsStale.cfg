SPECIFICATION Spec
CONSTANTS
  Obj = {o1, o2}
  Nil = Nil
  Global = {g1, g2}
  Index = {}
  FR_MAX_SCOPES = 3
  MaxFrames = 3
  MaxCount = 3
  StoreArgs = TRUE
  CatchDeep = FALSE
SYMMETRY Symmetry
INVARIANTS StoreRetains
