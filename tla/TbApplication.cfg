SPECIFICATION Spec
CONSTANTS
  Levels <- MCLevels
  IndicatorLevel <- MCIndicatorLevel
  MaxRetries <- MCMaxRetries
  NoState = NoState
INVARIANTS
  TypeOK
  UnsyncedIsDark
  OfflineIsDark
PROPERTIES
  LightEndsWithLink
  CallbacksReturn
