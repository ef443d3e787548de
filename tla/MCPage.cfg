SPECIFICATION ReaderSpec
CONSTANTS
  Documents <- MCDocuments
  MaxSchemaTypes = 2
  MinShingles = 1
  Answers <- MCAnswers
  Unknown = Unknown
  MaxBodyBytes = 2
  MaxXmlBytes = 3
  MaxRetries = 2
  MaxRetryAfter = 8
  Symbols <- MCSymbols
  Urls <- MCUrls
  Policy <- MCPolicy
  Seeds <- MCSeeds
  Disks <- MCDisks
INVARIANTS ReadAsWritten WordsNeverLost LossesTold WholeOrNothing PatientRetries OneUrlPerPage
CHECK_DEADLOCK FALSE
