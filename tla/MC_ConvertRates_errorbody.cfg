CONSTANTS
  q1 = q1
  q2 = q2
  qOff = qOff
  Queries = {q1, q2, qOff}
  Disabled = {qOff}
  MaxEffects = 3
  DelayCap = 2
  NoRates = NoRates
  ErrorBody = ErrorBody

SPECIFICATION Spec


PROPERTY RatesEventuallyShown
CHECK_DEADLOCK FALSE
