SPECIFICATION Spec
CONSTANTS
  Offering = {"o1", "o2"}
  Declaration = {"d", "dw"}
  Name <- MCName
  Stem <- MCStem
  Derived <- MCDerived
  Suffixed <- MCSuffixed
  Policies <- MCPolicies
  Facts <- MCFacts
  Outcomes <- MCOutcomes
  Nothing = Nothing
  MaxMeasured = 1
  ProviderOf <- MCProviderOf
  PoolOf <- MCPoolOf
PROPERTY GoneIsFinal
