SPECIFICATION Spec
CONSTANTS
  MAX_FRAMES = 8
  Fuel = 20
  MAX_ROUNDS = 20
  Inputs <- CarryInputs
INVARIANT OutputPromised

CHECK_DEADLOCK FALSE
