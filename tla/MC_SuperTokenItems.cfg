CONSTANTS
  t1 = t1
  t2 = t2
  t3 = t3
  c1 = c1
  c2 = c2
  net = net
  StoreTokens = {t1, t2, t3}
  ConvertToken <- MCConvertToken
  NoAddress = NoAddress
  Network = net
  NoNetwork = NoNetwork
  Queries <- MCQueries
  Disabled <- MCDisabled
  MaxEffects = 4
  DelayCap = 19
  NoRates = NoRates
  ErrorBody = ErrorBody

SPECIFICATION ItemsSpec

INVARIANT ItemsTypeOK

PROPERTY ItemsEventuallyConverted

CHECK_DEADLOCK FALSE
