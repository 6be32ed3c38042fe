CONSTANTS
  NotScanned = NotScanned
  Chars <- MCQuoteChars
  MaxLen = 5
SPECIFICATION Spec
INVARIANT
  EveryPlaceholderReported
