SPECIFICATION Spec
CONSTANTS
  MaxRetries <- MCMaxRetries
  AuthThreshold <- MCAuthThreshold
  FallbackAttempts <- MCFallbackAttempts
  MaxFifo <- MCMaxFifo
INVARIANTS 
  TypeOK
  NoSessionWithoutIdentity
  SessionMatchesMode
  PortalIsFollowed
PROPERTIES
  OutcomesReachTheirGate
  ReprovisioningIsEarned
  NetworkGateResolves
  EnrollmentIsRetried
