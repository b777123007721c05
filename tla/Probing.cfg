SPECIFICATION FairSpec
CONSTANTS
  Targets = {"slow", "slower", "thinker", "dead", "guest"}
  Worklist <- TheWorklist
  ProviderOf <- TheProvider
  RuleOf <- TheRules
  Uncallable = {"guest"}
  Answer <- TheAnswer
  Slow = {"slow", "slower"}
  Reasoning = {"thinker"}
  Raising = {"thinker"}
  Before = {"dead", "thinker"}
  Wired = {"native", "openai"}
  Seats <- TheSeats
  Interval <- TheInterval
  Backoff = 1
  Patience <- ThePatience
  None = None
INVARIANTS TypeOK FailsOnlyTwice BurstBounded
PROPERTY SweepEnds
