CONSTANTS
  File <- MCFile
  Root = "root"
  Ident <- MCIdent
  Dest <- MCDest
  Relocated = {"outside", "taken"}
  Histories <- MCHistories
  MaxDepth = 3
  MaxAttempts = 2
SPECIFICATION Spec
CHECK_DEADLOCK FALSE
INVARIANT TypeOK
INVARIANT CopiedOrRefused
INVARIANT RootComplete
INVARIANT DoneMeansCopied
