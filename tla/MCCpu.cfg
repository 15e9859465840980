CONSTANTS
  PcBits = 3
  MonitorBits = 1
  Mtvec = 4
  DebugPark = 2
  DebugExc = 6
  BootAddr = 0
  Targets <- MCTargets
  Configurations <- MCConfigurations
SPECIFICATION Spec
INVARIANTS AlwaysGoesOn DispatchedIsNext FaultedHasNoEffect
PROPERTIES TrapsArePrecise
