CONSTANTS
  Kinds = {"atIntervals", "onSignal", "onlyOnce", "triggerable"}
  MaxEvents = 4
  MaxSignals = 3
  MaxCertDuration = 14
  MaxOCSPResponseDuration = 6
  certRenewalInterval = 7
  FetchInterval = 1
  BackoffMin = 1
  BackoffMax = 2
  CertDuration = 14
  SXGLifetime = 3
  MaxAge = 1
  MaxOutage = 2
  MinUp = 3
  MaxTime = 17
  MaxRestarts = 3
SPECIFICATION SourcesSpec
CHECK_DEADLOCK FALSE
INVARIANT TimelyCancelIsFinal
INVARIANT HeldIsUsable
 
 
INVARIANT RegisteredUser
PROPERTY CancelReturns
PROPERTY WaitingSignalServed
