CONSTANTS
  a = a
  o1 = o1
  o2 = o2
  t1 = t1
  Agent = a
  Others = {o1, o2}
  Tokens = {t1}
  Keys <- MCKeys
  Rates = {1, 2}
  VaultAmounts = {3}
  MaxTime = 2
  MaxLedgerOps = 3
  NoNetFlow = NoNetFlow
  MaxRedeliveries = 2
  Delayed = FALSE
  Reorder = TRUE

SPECIFICATION ReplaySpec

INVARIANT OpenFlowsMatchLedger

PROPERTIES RedeliveredEventKeepsFlows RefinesFlowBook

CHECK_DEADLOCK FALSE
