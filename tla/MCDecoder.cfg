SPECIFICATION Spec
CONSTANTS
  MaxInst = 15
  PosMod = 16
  Inputs <- MCInputs
  Contexts <- MCContexts
INVARIANTS
  RexInForce
  LengthExact
  PositionsExact
  OpcodeInside
  DispatchSound
  HandlerHasModRM
CHECK_DEADLOCK FALSE
