SPECIFICATION Spec
CONSTANTS
  MAX_STACK = 8
  MAX_CALL_STACK = 8
  Slots = 8
  Fuel = 20
  Inputs <- MCInputs
INVARIANTS CodeSound LabelsBalanced OutputPromised SameEnd
PROPERTY Terminates
CHECK_DEADLOCK FALSE
