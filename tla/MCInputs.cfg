SPECIFICATION Spec
CONSTANTS
  MaxU64 = 3000000
  Malformed = Malformed
  None = None
  MAX_QUESTION_CHARS = 3
  MAX_OPTION_CHARS = 2
  MIN_OPTIONS = 2
  MAX_OPTIONS = 3
  MAX_MESSAGE_CHARS = 4
  FORBIDDEN_SUBSTRINGS <- MCForbidden
  RESERVED <- MCReserved
  FALLBACK <- MCFallback
  MAX_LEN = 4
  Chars <- MCChars
  Lower <- MCLower
  TextLength = 6
  OptionsLength = 7
  NameLength = 6
  SpliceLength = 7
  Counts <- MCCounts
  DayCounts <- MCDayCounts
  TypedDurations <- MCTypedDurations
  PollForms <- MCPollForms
  RemoteMessages <- MCRemoteMessages
INVARIANTS
  CountsNeverAlias
  TimeoutAsAsked
  PollRunsAsTold
  OptionsAsTyped
  RelayedTextIsLegal
  RelayedNameIsLegal
  RelayedNameIsTheAuthors
CHECK_DEADLOCK FALSE
