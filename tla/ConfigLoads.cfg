SPECIFICATION ConfigSpec
CONSTANTS
  U64 = 1048576
  Files <- MCFiles
  Spelling <- MCSpelling
  Numerals <- MCNumerals
INVARIANTS
  AcceptedIsUsable
  LoggerUnderstandsConfig
  FileIsObeyed
  LogLinesReadBack
  CommandReadsBack
  UrlIsSplit
