CONSTANTS
  Nbrs = {1, 2}
  Window = 3
  OrigPeriod = 6
  OrigLinks <- MCOrigLinks
  Infos <- MCInfos
  QueueMax = 3
  MaxMisses = 1
SPECIFICATION Spec
INVARIANTS TypeOK DistinctMatchingSlots
PROPERTIES MatchingSlotNotPassed
