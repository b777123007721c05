SPECIFICATION RoleSpec
CONSTANTS
  Offering = {"o1", "o2", "p"}
  Passthrough = {"p"}
  Edited = {"o1", "p"}
  Truths <- MCTruths
  Model <- MCModel
  Basis <- MCBasis
  Context <- MCContext
  Allowance <- MCAllowance
  Position <- MCPosition
  Score <- MCScore
  Able = {"small", "large"}
  Rules <- MCRules
  Staleness = 2
  ResetAfter = 1
  FigureFor = 1
  DemoteAtFull = TRUE
  Nothing = Nothing
PROPERTY OnlyFactsDrive
