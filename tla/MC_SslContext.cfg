CONSTANTS
  Rejects <- MCRejectsChecked
  PassLens = {0, 1, 4}
  PemBufSize = 4
SPECIFICATION Spec
INVARIANTS
  CreateReportsEveryFailure
