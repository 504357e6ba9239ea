SPECIFICATION Spec
CONSTANTS
  MAX_FRAMES = 8
  Fuel = 20
  MAX_ROUNDS = 20
  Inputs <- MCInputs
INVARIANTS SsaForm FallsThrough OutputPromised SameEnd Settles

CHECK_DEADLOCK FALSE
