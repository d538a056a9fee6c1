SPECIFICATION FairSpec
CONSTANTS
  Mixes <- MCSlow
PROPERTIES Converges
CHECK_DEADLOCK FALSE
