SPECIFICATION Spec
CONSTANTS
  Allowances = {a1, a2}
  Sources = {s1, s2}
  Batched = {s1}
  Slots = {primary, secondary}
  StatedSlots = {primary}
  NamedSlots <- MCNamedSlots
  Declared <- MCDeclared
  Refreshers = {r1, r2}
  Full = 2
  Thresholds = {1, 2}
  Length = 2
  Staleness = 1
  MaxRun = 1
  MaxChanges = 3
  Unstated = Unstated
  None = None
  a1 = a1
  a2 = a2
  s1 = s1
  s2 = s2
  primary = primary
  secondary = secondary
  r1 = r1
  r2 = r2
SYMMETRY Interchangeable
CHECK_DEADLOCK FALSE
INVARIANT CrossingsAreMoves
