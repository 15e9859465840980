CONSTANTS
  Harts = {h1}
  Mains = {"m1", "m2"}
  Stacks = {"s1", "s2"}
  MaxLaunches = 3
  LoWords = 16
  HiWords = 3
  Times = {0, 15, 20, 32, 47}
  MaxGap = 3
  StackWords = 7
  NUM_HARTS = 2
  Kits <- MCKits
SPECIFICATION BootBenchSpec
INVARIANTS StoredImageLoads
CHECK_DEADLOCK FALSE
