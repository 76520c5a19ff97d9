\* A file of two bytes reaches every turn of the read loop; escapes of two digits
\* leave room for strings around them.
CONSTANTS
  MaxFileBytes = 2
  MaxSize = 4
  HexDigits = 2
  Two32 = 8
  Two63 = 16
  DblMax = 24
  MaxRaw = 7
  Inputs <- MCInputs
  Handlers <- MCHandlers
SPECIFICATION Spec
INVARIANTS TypeOK LoadsExactlyTheSchema VersionComesFirst CommitsWhatLoads ScanIsExact
CHECK_DEADLOCK FALSE
