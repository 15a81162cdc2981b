\* Records of all lengths, with and without TLS, under the fairness of reader
\* and network.
CONSTANTS
  Bytes <- MCBytes
  Newline = "nl"
  Texts <- MCTexts
  Sizes <- MCSizes
  Longest = 3
  MaxBytes = 6
SPECIFICATION FairSpec
INVARIANTS
  TypeOK
  OneStringEach
PROPERTIES
  StreamKept
  EndNoticed
  SentIsRead

\* A peer that has ended, and a caller that was told of it, do nothing more.
CHECK_DEADLOCK FALSE
