CONSTANTS
  AddrBits = 1
  WordBits = 2
  IndexBits = 1
  Lanes <- MCLanes
  OutReg = 1
  RandBits = 3
  Taps = {0, 1}
  Seed <- MCSeed
  StoreWords <- MCWords
  Masks <- MCMasks
  DebounceLimit = 1
  ADDRESS_LENGTH = 2
  DATA_LENGTH = 2
  MEMORY_DEPTH = 3
  LfsrBits = 5
  LfsrTaps = {0, 2}
  LfsrSeed <- MCLfsrSeed
  AddrSlice = 2
  BitSlice = 3
  InitialWords <- MCWords
SPECIFICATION BenchSpec
INVARIANTS BoardTypeOK RandvectNotZero PulseFindsIdle
PROPERTIES UpsetsAreAtomic 
