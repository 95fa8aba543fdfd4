SPECIFICATION FairSpec
CONSTANTS
  Connection = {k1, k2}
  None = None
  MaxFaults = 6
INVARIANTS TypeOK OneConnection ClosedIsQuiet NeverStranded ForceRemembered
PROPERTIES Recovers CloseReturns
CHECK_DEADLOCK FALSE
