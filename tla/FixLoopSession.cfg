SPECIFICATION Spec
CONSTANTS
  Setups <- MCSetups
  CodegenUnits = 2
  MaxSignals = 2
  MaxLinger = 1
  MaxLate = 2
INVARIANT NoSessionPermitLive
