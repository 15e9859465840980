CONSTANTS
  RandBits = 16
  Taps1 <- SourceTaps1
  Taps2 <- SourceTaps2
  Seed1 <- SourceSeed1
  Seed2 <- SourceSeed2
  MatchWidths = {15}
  DataBits = 1
  FlipMasks = {{0}}
SPECIFICATION CampaignSpec

PROPERTIES MatchesRecur
