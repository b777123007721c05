SPECIFICATION OHSpec
CONSTANTS
  k1 = k1  k2 = k2
  Key = {k1, k2}
  PassthroughSets <- MCPassthroughSets
  Siblings <- MCSiblings
  SubAllowance = {}
  Truths <- MCTruths
  Failures <- MCFailures
  Staleness = 1
  ResetAfter = 1
  MaxRun = 0
  MaxEntries = 1
  Never = Never
PROPERTY DoubtIsConfirmed
