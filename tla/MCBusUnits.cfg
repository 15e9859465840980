CONSTANTS
  RoundRobin = TRUE
  ReadOnly <- MCNoReader
  MaxBurst = 3
  WordBits = 4
  Depth = 8
  Leftovers <- MCLeftovers
  Programs <- MCPrograms
  MaxWords = 9
SPECIFICATION BenchSpec
INVARIANTS AnswerFindsOwner NoRequestLost LockExcludes OvertakenOnce ActsAsReference
PROPERTIES MovesWhatDescriptorsSay DoneMeansAll EveryTransferIsReported EveryRequestAnswered
