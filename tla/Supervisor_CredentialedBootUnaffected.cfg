SPECIFICATION Spec
CONSTANTS
  MaxRetries <- MCMaxRetries
  AuthThreshold <- MCAuthThreshold
  FallbackAttempts <- MCFallbackAttempts
  MaxFifo <- MCMaxFifo
PROPERTIES
  CredentialedBootUnaffected

