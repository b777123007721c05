SPECIFICATION Spec
CONSTANTS
  Surface = {s1}
  Id = {i1, i2}
  Value = {v1, v2}
  None = None
  Maintainer = Maintainer
  FlowEntries = FALSE
  Commented = {i2}
  MaxSaves = 1
  MaxSections = 3
PROPERTY ReasonIsReplaced
