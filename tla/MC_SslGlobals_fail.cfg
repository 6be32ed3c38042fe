CONSTANTS
  s1 = s1
  s2 = s2
  NoIndex = NoIndex
  Sessions <- MCSessions
  MayFail = TRUE
  FirstIndex = 1
  MaxIndex = 6
SPECIFICATION Spec
PROPERTY
  InitializedOnce
