SPECIFICATION Spec
CONSTANTS
  Levels <- MCLevels
  IndicatorLevel <- MCIndicatorLevel
  MaxRetries <- MCMaxRetries
  NoState = NoState
PROPERTY
  OneFieldKeepsOther
