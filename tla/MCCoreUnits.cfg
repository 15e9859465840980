CONSTANTS
  RandBits = 2
  Taps1 = {0, 1}
  Taps2 = {0}
  Seed1 = {0}
  Seed2 = {1}
  MatchWidths = {1}
  DataBits = 4
  FlipMasks <- MCMasks
  ShamtBits = 2
  Operands <- MCOperands
  Victims = {"A"}
  Tags = {"s", "t"}
  Uncached = "io"
  Geometries <- MCGeometries
  Issued <- MCIssued
SPECIFICATION BenchSpec
INVARIANTS VotedIsClean  ReadsTheTruth SyncLeavesNothing
PROPERTIES HostIsServed
