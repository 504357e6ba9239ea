SPECIFICATION AllocationSpec
CONSTANTS
  MAX_FRAMES = 8
  Fuel = 20
  MAX_ROUNDS = 2
  MAX_SLOTS = 30
  Inputs <- MCInputs
  Functions = {}
  Requests = {}
  Calls = {}
  Scratch <- MCScratch
  Memory <- Slots
  Files <- MCFiles
  CallerSaved <- MCCallerSaved
  CalleeSaved <- MCCalleeSaved
  ArgRegs <- MCArgRegs
INVARIANTS NoSharing LiveApart CallsKeep AllAtOnce EdgeKeeps AnalysesSound
PROPERTY CopiesEnd
CHECK_DEADLOCK FALSE
