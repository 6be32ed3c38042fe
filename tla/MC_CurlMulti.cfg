CONSTANTS
  h1 = h1
  h2 = h2
  h3 = h3
  m1 = m1
  m2 = m2
  NULL = NULL
  Handles <- MCHandles
  Multis <- MCMultis
  CallbackCalls <- MCCallbackSafe
  CallbackKinds <- MCKinds
  PushAnswers <- MCPushAccept
  PHP82 = TRUE
  HeaderOutValues = {FALSE}
  Streams = {s1}
  MaxWriters = 1
  MaxRefs = 1
  MaxList = 2
SYMMETRY Symmetry
SPECIFICATION Spec
INVARIANTS
  TypeOK
  EasyListMirrorsEngine
  HandleMultiAgree
  LiveHandlesOwnEasy
  CloneCounterTracksCopies
  CallbackTargetAlive
  WriteTargetsOpen
