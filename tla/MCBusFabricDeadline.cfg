CONSTANTS
  WordBits = 1
  Harts <- MCHarts
  Cells <- MCCells
  Holes <- MCHoles
  Externals <- MCExternals
  TmoInt = 2
  TmoExt = 2
  Setups <- MCOnlyOutside
SPECIFICATION ClockedSpec
INVARIANT EveryAccessIsWatched
