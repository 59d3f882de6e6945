CONSTANTS
  a = a
  o1 = o1
  o2 = o2
  t1 = t1
  t2 = t2
  Agent = a
  Others = {o1, o2}
  Tokens = {t1, t2}
  Keys <- MCKeys
  Rates = {1, 2}
  VaultAmounts = {3}
  MaxTime = 2
  MaxLedgerOps = 4
  NoNetFlow = NoNetFlow

SPECIFICATION Spec

INVARIANTS
  TypeOK
  OpenFlowsMatchLedger
  NetFlowMatchesLedger
  EveryRowRenders

CHECK_DEADLOCK FALSE
