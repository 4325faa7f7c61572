\* The chunked scan of every short file, and any sequence of checks, strips and
\* reconfigurations of texts in each comment syntax; templates of a configuration.
SPECIFICATION ContentSpec
CONSTANTS
  None = None
  Files <- ShortFiles
  ChunkSize = 2
  MaxChunks = 2
  Formats <- BuiltinFormats
  FieldValues = {"old", "new"}
  Texts <- MCTexts
  Orders <- MCOrders
  Documents <- MCDocuments
CHECK_DEADLOCK FALSE
INVARIANTS
  SampleIsJudgedAsAWhole
  UserTextStays
  DiffMakesText
  ParseUndoesRender
  TemplateSaysWhatWasAsked
PROPERTIES
  SecondCheckChangesNothing
  StripUndoesInsert
