SPECIFICATION FairSpec
CONSTANTS
  Enabled = TRUE
  RequireProxy = TRUE
  Interval = 3
  MaximumStaleness = 4
  JournalFloor = 2
  Never = Never
  MaxAge = 6
  MaxRun = 4
  MaxEntries = 1
  MayDie = TRUE
INVARIANT TypeOK
INVARIANT ChainStops
PROPERTY RunsSpaced
PROPERTY SweepsGoOn
