CONSTANTS
  a1 = a1
  a2 = a2
  NoVerdict = NoVerdict
  Peers <- MCPeers
  LongSize = 2
  SecretLen = 4
  Alignments = {0}
  StackBytes = {"rv", "junk"}
SPECIFICATION Spec
INVARIANTS
  GenuineCookieAccepted
  CookieBindsPeer
