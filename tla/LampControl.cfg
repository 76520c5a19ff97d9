SPECIFICATION Spec
CONSTANTS
  Pins = {p1, p2, p3}
  NoPin = NoPin
  Brightness <- MCBrightness
  Colours <- MCColours
INVARIANTS
  TypeOK
  LitIsTracked
  ChannelsConsistent
  BarrierMeansDark
PROPERTIES
  FailureMeansDark
  FlagDropsOnlyWhenDark
  ImplementsFailOff
SYMMETRY PinSymmetry
