\* TLS, while the network may stop.
CONSTANTS
  Bytes <- MCBytes
  Newline = "nl"
  Texts <- ShortTexts
  Sizes <- MCSizes
  Longest = 3
  MaxBytes = 4
SPECIFICATION FairReads
PROPERTY ReadReturns

\* A peer that has ended, and a caller that was told of it, do nothing more.
CHECK_DEADLOCK FALSE
