CONSTANTS
  a = a
  o1 = o1
  o2 = o2
  t1 = t1
  Agent = a
  Others = {o1, o2}
  Tokens = {t1}
  Keys <- MCKeys
  Rates = {1, 2}
  VaultAmounts = {3}
  MaxTime = 2
  MaxLedgerOps = 3
  NoNetFlow = NoNetFlow
  MaxRedeliveries = 1
  Delayed = TRUE
  Reorder = FALSE

SPECIFICATION ReplaySpec

PROPERTY RedeliveredEventIsNoOp

CHECK_DEADLOCK FALSE
