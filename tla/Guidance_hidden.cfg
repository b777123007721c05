SPECIFICATION GFairSpec
CONSTANTS
  Offering = {"o1", "o2", "p"}
  Passthrough = {"p"}
  Edited = {"p"}
  Truths <- MCTruths
  Model <- MCModel
  Basis <- MCBasis
  Context <- MCContext
  Allowance <- MCAllowance
  Position <- MCPosition
  Score <- MCScore
  Able = {"small", "large"}
  Rules <- MCRules
  Staleness = 1
  ResetAfter = 1
  FigureFor = 1
  DemoteAtFull = TRUE
  Nothing = Nothing
PROPERTY NoneHiddenForEver
