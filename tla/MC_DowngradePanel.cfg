CONSTANTS
  t1 = t1
  t2 = t2
  bad = bad
  TokenChoices <- MCTokenChoices
  AmountInputs <- MCAmountInputs
  EmptyInput = EmptyInput
  NoToken = NoToken
  MaxRequests = 2
SPECIFICATION DSpec
INVARIANT ErrorShownIsCurrent
