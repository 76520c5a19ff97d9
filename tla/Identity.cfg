\* Four tokens: one from before, an enrollment, a change at the server and another
\* enrollment; two storage errors and two power cuts.
CONSTANTS
  AuthThreshold = 2
  MaxToken = 4
  MaxErr = 2
  MaxCut = 2
SPECIFICATION Spec
INVARIANTS TypeOK AuthorizedSession EnrollmentReplacesWhole IssuedTokenIsStored
PROPERTY ImplementsDocStore
CHECK_DEADLOCK FALSE
