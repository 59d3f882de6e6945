---------------------------- MODULE DowngradePanel ----------------------------
(***************************************************************************)
(* The Downgrade form of the Convert side panel                            *)
(* (app/src/components/SidePanels/Convert/Downgrade.js).                   *)
(*                                                                         *)
(* The TokenSelector (outside src/) hands the form a token object: its     *)
(* address, whether that address passes isAddress, and the error the       *)
(* selector found (not a Super Token, or no balance).  The form validates  *)
(* on submit, shows the first error, and otherwise requests a DOWNGRADE    *)
(* transaction; any change to a field clears the error.                    *)
(***************************************************************************)
EXTENDS Integers, Sequences

CONSTANTS
  TokenChoices,  \* token objects the selector may hand over:
                 \* [address, validAddress, error]
  AmountInputs,  \* numbers the user may type as the amount
  EmptyInput,    \* model value: the empty string ''
  NoToken,       \* model value: INITIAL_SELECTED_TOKEN
  MaxRequests    \* bound on requested transactions

ASSUME AmountInputs \subseteq Int /\ MaxRequests \in Nat

VARIABLES
  selectedToken,  \* selectedToken state
  amount,         \* amount state
  errorMessage,   \* errorMessage state: "none" or the validateFields error
  requests        \* DOWNGRADE transactions requested so far

dvars == <<selectedToken, amount, errorMessage, requests>>

-----------------------------------------------------------------------------

\* validateFields: the selector's errors first, then the address, then the
\* amount (Number('') is 0).
ValidateFields(token, amt) ==
  CASE token # NoToken /\ token.error = "invalidToken" -> "invalidToken"
    [] token # NoToken /\ token.error = "noBalance"    -> "noBalance"
    [] token = NoToken \/ ~token.validAddress         -> "invalidAddress"
    [] amt = EmptyInput \/ amt <= 0                   -> "nonPositive"
    [] OTHER                                          -> "none"

DisableSubmit ==
  errorMessage # "none" \/ selectedToken = NoToken \/ amount = EmptyInput

HandleTokenChange(t) ==
  /\ selectedToken' = t
  /\ errorMessage' = "none"
  /\ UNCHANGED <<amount, requests>>

\* Mutant: a new amount leaves the previous error on screen.
HandleAmountChangeKeepsError(v) ==
  /\ amount' = v
  /\ UNCHANGED <<selectedToken, errorMessage, requests>>

HandleAmountChange(v) ==
  /\ amount' = v
  /\ errorMessage' = "none"
  /\ UNCHANGED <<selectedToken, requests>>

\* handleSubmit: show the error, or request the downgrade.
HandleSubmit ==
  /\ ~DisableSubmit
  /\ Len(requests) < MaxRequests
  /\ IF ValidateFields(selectedToken, amount) # "none"
       THEN /\ errorMessage' = ValidateFields(selectedToken, amount)
            /\ UNCHANGED requests
       ELSE /\ requests' = Append(requests, [token |-> selectedToken, amount |-> amount])
            /\ UNCHANGED errorMessage
  /\ UNCHANGED <<selectedToken, amount>>

\* clear(): the fields and the error go back to their initial values.
Clear ==
  /\ selectedToken' = NoToken
  /\ amount' = EmptyInput
  /\ errorMessage' = "none"

\* The panel is unmounted (the reset effect's cleanup runs clear()) and
\* mounted again with the initial state.
Remount == Clear /\ UNCHANGED requests

DInit ==
  /\ selectedToken = NoToken
  /\ amount = EmptyInput
  /\ errorMessage = "none"
  /\ requests = <<>>

DNext ==
  \/ \E t \in TokenChoices : HandleTokenChange(t)
  \/ \E v \in AmountInputs \cup {EmptyInput} : HandleAmountChange(v)
  \/ HandleSubmit
  \/ Remount

DSpec == DInit /\ [][DNext]_dvars

-----------------------------------------------------------------------------
(* Properties                                                              *)

\* The error on screen is about what is entered now: every field change
\* clears it, so a shown error is the one validateFields gives the current
\* token and amount.
ErrorShownIsCurrent ==
  errorMessage # "none" => errorMessage = ValidateFields(selectedToken, amount)

=============================================================================
