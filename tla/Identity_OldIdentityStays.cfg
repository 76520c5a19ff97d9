\* A device whose registration is gone enrolls again; one storage error.
CONSTANTS
  AuthThreshold = 2
  MaxToken = 2
  MaxErr = 1
  MaxCut = 0
SPECIFICATION Spec
INVARIANT OldIdentityStays
CHECK_DEADLOCK FALSE
