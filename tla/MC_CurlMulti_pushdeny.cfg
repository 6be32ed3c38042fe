CONSTANTS
  h1 = h1
  h2 = h2
  h3 = h3
  m1 = m1
  m2 = m2
  NULL = NULL
  Handles <- MCHandles
  Multis <- MCMultis
  CallbackCalls <- MCCallbackNone
  CallbackKinds <- MCKindWrite
  PushAnswers <- MCPushDeny
  PHP82 = TRUE
  HeaderOutValues = {FALSE}
  Streams = {}
  MaxWriters = 1
  MaxRefs = 2
  MaxList = 3
SYMMETRY Symmetry
SPECIFICATION Spec
INVARIANT CloneCounterTracksCopies
