CONSTANTS
  Types = {2, 4}
  Values = {0}
  Names <- MCNames
  QueryBytes = 4
  MaxBlocks = 0
  MaxLogs = 2
  MaxCrashes = 1
  MaxOpenFails = 0
  MaxTruncates = 0
SPECIFICATION Spec
INVARIANT ReplayedRecordsDecodable
