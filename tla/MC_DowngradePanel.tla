--------------------------- MODULE MC_DowngradePanel ---------------------------
EXTENDS DowngradePanel, TLC

CONSTANTS t1, t2, bad

\* A listed Super Token with a balance, one without, a custom address that
\* is no Super Token, and a malformed custom address.
MCTokenChoices ==
  { [address |-> t1, validAddress |-> TRUE, error |-> "none"],
    [address |-> t2, validAddress |-> TRUE, error |-> "noBalance"],
    [address |-> t1, validAddress |-> TRUE, error |-> "invalidToken"],
    [address |-> bad, validAddress |-> FALSE, error |-> "none"] }
\* A negative amount (the field has min=0 but accepts typing), zero, and two positive amounts.
MCAmountInputs == {-1, 0, 1, 2}
=============================================================================
