CONSTANTS
  Rejects <- MCRejectsCert
  PassLens = {0}
  PemBufSize = 4
SPECIFICATION Spec
INVARIANT
  CreateReportsEveryFailure
