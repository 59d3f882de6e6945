CONSTANTS
  q1 = q1
  q2 = q2
  qOff = qOff
  Queries = {q1, q2, qOff}
  Disabled = {qOff}
  MaxEffects = 5
  DelayCap = 19
  NoRates = NoRates
  ErrorBody = ErrorBody

SPECIFICATION Spec

INVARIANTS
  TypeOK
  OnlyLiveEffectRetries
  BackoffTracksFailures

PROPERTIES
  NoStaleRates
  RefinesRatePoller

CHECK_DEADLOCK FALSE
