SPECIFICATION Spec
CONSTANTS
  MaxGen <- MCMaxGen
  MaxPolls <- MCMaxPolls
INVARIANTS
  TypeOK
  GateClosedIsDark
PROPERTIES
  ReleaseIsVerified
  CallsReturn
