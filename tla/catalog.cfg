SPECIFICATION Spec
CONSTANTS
  s0 = s0
  s1 = s1
  s2 = s2
  g1 = g1
  g2 = g2
  g3 = g3
  NVshards = 3
  Shards = {s0, s1, s2}
  Shard0 = s0
  Migs = {g1, g2, g3}
  MaxSchema = 1
INVARIANTS TypeOK Contiguous LeaseDecided OutcomeMatchesRouting
PROPERTIES MovesUnderLease RoutingSteps
SYMMETRY Alike
