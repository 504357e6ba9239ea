\* Three frames, three nested tries of two types.
SPECIFICATION NativeSpec
CONSTANTS
  Exc = {ValueError, IndexError}
  MaxFrames = 3
  MAX_EXCEPTION_HANDLERS = 3
  Matched = TRUE
  ReturnInTry = FALSE
INVARIANTS TypeOK 
 
