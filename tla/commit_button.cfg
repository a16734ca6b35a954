SPECIFICATION Spec
CONSTANTS
  Fields <- Template
  Domains <- TwoDomains
  FieldLike <- FieldTable
  DomainLike <- DomainTable
  Prose <- ProseTable
  HeaderScanRows = 3
  Label <- TitleOf
  NameOf <- HeadingOf
  Marked <- MarkedText
  Alike <- AlikeTable
  Books <- OnlyUnnamed
  Own = "own"
  Said = "said"
  Reworded <- RewordedTable
  PreviewRowLimit = 2
  None = None
  MaxMappings = 2
  MaxSteps = 3
INVARIANT CommitFollowsTheBlocker
CHECK_DEADLOCK FALSE
