\* Packets of up to five terms: two operators and three operands.  The longest
\* name term does not fit the buffer.
SPECIFICATION FairSpec
CONSTANTS
  Names = {"a", "b", "?"}
  Garbled = {"?"}
  Limits = {0, 2}
  Exts = {"avi"}
  Kinds = {"ST_EXTENSION", "ST_MINSIZE", "ST_MAXSIZE"}
  StrLen <- MCStrLen
  Rows <- MCRows
  MAX_NAME_TERM_LEN = 21
  MAX_SEARCH_FILES = 2
  MaxTokens = 5
INVARIANTS
  TreeIsInput
  AnsweredIffComplete
  ResultIsMeant
  EntriesAsAnnounced
PROPERTIES
  SearchEnds
CHECK_DEADLOCK FALSE
