SPECIFICATION CvmSpec
CONSTANTS
  Exc = {ValueError, RuntimeError}
  MaxFrames = 3
  MAX_EXCEPTION_HANDLERS = 3
  ReturnInTry = FALSE
INVARIANTS TypeOK 
