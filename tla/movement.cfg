SPECIFICATION MCSpec
CONSTANTS
  m1 = m1
  m2 = m2
  m3 = m3
  NoRow = NoRow
  TailBatch = 2
  StagedBatch = 2
  SplitLogMax = 2
  InboxMax = 2
  NKeys = 2
  Muts = {m1, m2, m3}
  MutKey <- MCMutKey
  Deletes = {m3}
  AbortFrom = {0, 1, 2, 3, 4, 5, 6}
  MaxFaults = 2
  LossyRpcs <- MCAllRpcs
  Mixes <- MCSafety
INVARIANTS SingleWriter DrainedOnlyWhenServing PrunedIsDurable CutoverIsFinal
  OutcomeIsClean AbortNeverRefused
PROPERTIES NothingUndone RangePreserved
