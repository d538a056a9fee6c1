SPECIFICATION Spec
CONSTANTS
  g1 = g1
  g2 = g2
  g3 = g3
  Migs = {g1, g2, g3}
  MaxIntents = 2
  MaxFaults = 2
INVARIANTS LeaseHasOwner CancelledNeverMoves MovementHasLease
SYMMETRY Alike
CHECK_DEADLOCK FALSE
