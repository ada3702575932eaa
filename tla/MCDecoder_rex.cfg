SPECIFICATION Spec
CONSTANTS
  MaxInst = 15
  PosMod = 16
  Inputs <- MCInputs
  Contexts <- MCContexts
INVARIANT RexImmediatelyPrecedes
CHECK_DEADLOCK FALSE
