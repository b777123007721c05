SPECIFICATION Spec
CONSTANTS
  Surface = {s1, s2}
  Id = {i1, i2}
  Value = {v1, v2}
  None = None
  Maintainer = Maintainer
  FlowEntries = FALSE
  Commented = {i2}
  MaxSaves = 1
  MaxSections = 3
INVARIANT TypeOK
PROPERTY EditIsExact
