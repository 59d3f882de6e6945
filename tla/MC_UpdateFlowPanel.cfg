CONSTANTS
  a = a
  o1 = o1
  t1 = t1
  Agent = a
  Others = {o1}
  Tokens = {t1}
  Keys <- MCKeys
  Rates = {1}
  VaultAmounts = {}
  MaxTime = 0
  MaxLedgerOps = 3
  NoNetFlow = NoNetFlow
  RateInputs = {1, 2}
  TooBig = {2}
  EmptyInput = EmptyInput
  NoToken = NoToken
  NoDeposit = NoDeposit
  NoParams = NoParams
  MaxSubmits = 2
SPECIFICATION PanelSpec
INVARIANT PanelTypeOK
PROPERTIES SubmitAddsToOpenFlow
CHECK_DEADLOCK FALSE
