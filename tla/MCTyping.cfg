SPECIFICATION Spec
CONSTANTS
  Forms <- MCForms
  Scanned <- MCScanned
  Late = {"float"}
  Fields <- MCFields
  LocalTypes <- MCLocalTypes
  Functions <- MCFunctions
  IrFields <- MCIrFields
  IrLocals <- MCIrLocals
  IrReturns <- MCIrReturns
  Callees <- MCCallees
  MAX_DEPTH = 3
  SCAN_DEPTH = 2
  MAX_SIM = 4
INVARIANTS InStep RightHelper  
CHECK_DEADLOCK FALSE
