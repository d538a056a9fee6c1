SPECIFICATION FairSpec
CONSTANTS
  Mixes <- MCEnds
PROPERTIES Converges NothingLeftBehind RevokedIsCleared
CHECK_DEADLOCK FALSE
