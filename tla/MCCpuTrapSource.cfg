CONSTANTS
  PcBits = 3
  MonitorBits = 1
  Mtvec = 4
  DebugPark = 2
  DebugExc = 6
  BootAddr = 0
  Targets <- MCTargets
  Configurations <- MCOneLine
SPECIFICATION Spec
INVARIANT TrapsHaveASource
