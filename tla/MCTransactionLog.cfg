CONSTANTS
  Types = {2, 4}
  Values = {0}
  Names <- MCNames
  QueryBytes = 4
  MaxBlocks = 0
  MaxLogs = 3
  MaxCrashes = 1
  MaxOpenFails = 1
  MaxTruncates = 1
SPECIFICATION Spec
INVARIANT TypeOK
INVARIANT StableRecordsReplayed
