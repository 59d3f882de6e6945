--------------------------- MODULE UpdateFlowPanel ---------------------------
(***************************************************************************)
(* The Create/Update Flow side panel                                       *)
(* (app/src/components/SidePanels/UpdateFlow/index.js), composed with the  *)
(* store and ledger of FlowReducer.                                        *)
(*                                                                         *)
(* The panel reads the store's `flows` to find an open outgoing flow to    *)
(* the recipient in the selected token; when there is one, the entered    *)
(* rate is added to it.  A debounced copy of the entered rate drives a     *)
(* deposit query (getDepositRequiredForFlowRate) that is never cancelled:  *)
(* its answer lands whenever it comes.  A submit queues a transaction      *)
(* that the user signs; once mined it sets the CFA rate of the flow, the   *)
(* ledger emits FlowUpdated and the store catches up as in FlowReducer.    *)
(*                                                                         *)
(* Inputs are abstracted to small sets: an address field holds a party or *)
(* EmptyInput.  A non-empty string failing isAddress is not modelled: it  *)
(* enables the button where '' does not, but its submit ends in the same  *)
(* validateFields error that the agent's address, a party, reaches here;  *)
(* a rate field holds                                                      *)
(* a member of RateInputs or EmptyInput.  errorMessage keeps only whether it *)
(* is truthy and why: undefined and '' are both "none".  Rates are integers*)
(* in the token's smallest unit, so toDecimals(fromDecimals(x)) is x.     *)
(***************************************************************************)
EXTENDS FlowReducer

CONSTANTS
  RateInputs,   \* numbers the user may type as a flow rate (0 included)
  TooBig,       \* rates the CFA rejects with "flow rate too big"
  EmptyInput,   \* model value: the empty string '' in a field
  NoToken,      \* model value: INITIAL_SELECTED_TOKEN (no address)
  NoDeposit,    \* model value: requiredDeposit undefined
  NoParams,     \* model value: panelState.params without a flow to update
  MaxSubmits    \* bound on submits

ASSUME RateInputs \subseteq Nat /\ TooBig \subseteq RateInputs
ASSUME MaxSubmits \in Nat

VARIABLES
  panelOpen,          \* panelState.didOpen
  params,             \* panelState.params: NoParams or [token, recipient]
  recipient,          \* recipient field
  selectedToken,      \* selectedToken.address, or NoToken
  flowRate,           \* flow rate field
  debouncedFlowRate,  \* useDebounce(flowRate, DEBOUNCE_TIME)
  requiredDeposit,    \* NoDeposit, or the [token, rate] it was computed for
  errorMessage,       \* "none", "invalid" (validateFields) or "tooBig"
  depositCalls,       \* deposit queries sent and not yet settled
  txQueue,            \* transactions requested and not yet signed or mined
  submits             \* submits so far (bounded)

panelVars == <<panelOpen, params, recipient, selectedToken, flowRate,
               debouncedFlowRate, requiredDeposit, errorMessage, depositCalls,
               txQueue, submits>>
allVars == <<vars, panelVars>>

AddressInputs == Parties \cup {EmptyInput}

-----------------------------------------------------------------------------

IsFlowRateTooBigError(r) == r \in TooBig

\* validateFields: an error for a bad recipient, the agent as recipient, or
\* a rate that is not positive (Number('') is 0).
ValidateFields(rcpt, rate, agentAddress) ==
  IF rcpt \notin Parties THEN "invalid"
  ELSE IF rcpt = agentAddress THEN "invalid"
  ELSE IF rate = EmptyInput \/ rate <= 0 THEN "invalid"
  ELSE "none"

\* Mutant: the entered rate replaces the existing one instead of adding.
CalculateNewFlowRateReplacing(existingFlow, rate) == rate

CalculateNewFlowRate(existingFlow, rate) == existingFlow.flowRate + rate

IsFlowUpdateOperation == params # NoParams

DisableSubmit ==
  \/ errorMessage # "none"
  \/ recipient = EmptyInput /\ ~IsFlowUpdateOperation
  \/ selectedToken = NoToken /\ ~IsFlowUpdateOperation
  \/ flowRate = EmptyInput

\* The index in `flows` of the open outgoing flow to the recipient in the
\* selected token, 0 when the panel looks for none (update operation, or a
\* field that is not an address) or finds none.
ExistingFlow ==
  IF IsFlowUpdateOperation \/ recipient \notin Parties \/ selectedToken = NoToken
    THEN 0
    ELSE SelectInSeq(flows, LAMBDA f : /\ ~f.isCancelled
                                       /\ ~f.isIncoming
                                       /\ f.entity = recipient
                                       /\ f.superTokenAddress = selectedToken)

\* Mutant: the effect only checks that a token is selected.
DepositEffectNoRateCheck(tok, r) ==
  IF tok = NoToken
    THEN UNCHANGED depositCalls
    ELSE depositCalls' = depositCalls \cup {[token |-> tok, rate |-> r]}

\* The deposit effect for token tok and debounced rate r: a query is sent
\* unless the token or the rate is missing or not positive.
DepositEffect(tok, r) ==
  IF tok = NoToken \/ r = EmptyInput \/ r <= 0
    THEN UNCHANGED depositCalls
    ELSE depositCalls' = depositCalls \cup {[token |-> tok, rate |-> r]}

\* clear(): the fields, the deposit and the error go back to their initial
\* values.  The debounced rate and the queries in flight are left alone.
Clear ==
  /\ recipient' = EmptyInput
  /\ requiredDeposit' = NoDeposit
  /\ selectedToken' = NoToken
  /\ flowRate' = EmptyInput
  /\ errorMessage' = "none"

\* The panel opens, for a new flow (p = NoParams) or to update the flow in
\* p; the reset effect's previous cleanup runs clear().
OpenPanel(p) ==
  /\ ~panelOpen
  /\ panelOpen' = TRUE
  /\ params' = p
  /\ Clear
  /\ UNCHANGED <<debouncedFlowRate, depositCalls, txQueue, submits, vars>>

\* The panel closes; the reset effect's cleanup runs clear().
ClosePanel ==
  /\ panelOpen
  /\ panelOpen' = FALSE
  /\ Clear
  /\ UNCHANGED <<params, debouncedFlowRate, depositCalls, txQueue, submits, vars>>

\* handleRecipientChange (the field is inert for an update operation).
HandleRecipientChange(v) ==
  /\ panelOpen /\ ~IsFlowUpdateOperation
  /\ recipient' = v
  /\ errorMessage' = "none"
  /\ UNCHANGED <<panelOpen, params, selectedToken, flowRate, debouncedFlowRate,
                 requiredDeposit, depositCalls, txQueue, submits, vars>>

\* handleTokenChange (the selector is disabled for an update operation); the
\* deposit effect runs again for the new token address.
HandleTokenChange(tok) ==
  /\ panelOpen /\ ~IsFlowUpdateOperation
  /\ tok # selectedToken
  /\ selectedToken' = tok
  /\ errorMessage' = "none"
  /\ DepositEffect(tok, debouncedFlowRate)
  /\ UNCHANGED <<panelOpen, params, recipient, flowRate, debouncedFlowRate,
                 requiredDeposit, txQueue, submits, vars>>

HandleFlowRateChange(v) ==
  /\ panelOpen
  /\ flowRate' = v
  /\ errorMessage' = "none"
  /\ UNCHANGED <<panelOpen, params, recipient, selectedToken, debouncedFlowRate,
                 requiredDeposit, depositCalls, txQueue, submits, vars>>

\* DEBOUNCE_TIME passes without a keystroke: the debounced rate catches up
\* and the deposit effect runs again.
DebounceSettles ==
  /\ debouncedFlowRate # flowRate
  /\ debouncedFlowRate' = flowRate
  /\ DepositEffect(selectedToken, flowRate)
  /\ UNCHANGED <<panelOpen, params, recipient, selectedToken, flowRate,
                 requiredDeposit, errorMessage, txQueue, submits, vars>>

\* A deposit query settles.  fetchDepositRequeriment has no cancelled flag:
\* the answer is set whatever the panel shows now, and the "too big"
\* revert sets the error message.
DepositAnswers(c) ==
  /\ c \in depositCalls
  /\ depositCalls' = depositCalls \ {c}
  /\ IF IsFlowRateTooBigError(c.rate)
       THEN errorMessage' = "tooBig" /\ UNCHANGED requiredDeposit
       ELSE requiredDeposit' = c /\ UNCHANGED errorMessage
  /\ UNCHANGED <<panelOpen, params, recipient, selectedToken, flowRate,
                 debouncedFlowRate, txQueue, submits, vars>>

\* Any other failure of the query is only logged.
DepositFails(c) ==
  /\ c \in depositCalls
  /\ depositCalls' = depositCalls \ {c}
  /\ UNCHANGED <<panelOpen, params, recipient, selectedToken, flowRate,
                 debouncedFlowRate, requiredDeposit, errorMessage, txQueue,
                 submits, vars>>

\* handleSubmit: validate; on error show it, otherwise request the
\* transaction, adding the entered rate to an existing open flow.
HandleSubmit ==
  LET rcpt == IF IsFlowUpdateOperation THEN params.recipient ELSE recipient
      tok  == IF IsFlowUpdateOperation THEN params.token ELSE selectedToken
      i    == ExistingFlow
      newFlowRate == IF i # 0 THEN CalculateNewFlowRate(flows[i], flowRate)
                              ELSE flowRate
  IN /\ panelOpen /\ ~DisableSubmit
     /\ submits < MaxSubmits
     /\ submits' = submits + 1
     /\ IF ValidateFields(rcpt, flowRate, Agent) # "none"
          THEN errorMessage' = ValidateFields(rcpt, flowRate, Agent)
               /\ UNCHANGED txQueue
          ELSE txQueue' = Append(txQueue, [token |-> tok, recipient |-> rcpt,
                                           rate |-> newFlowRate])
               /\ UNCHANGED errorMessage
     /\ UNCHANGED <<panelOpen, params, recipient, selectedToken, flowRate,
                    debouncedFlowRate, requiredDeposit, depositCalls, vars>>

\* The user signs the oldest requested transaction and it is mined: the
\* app's updateFlow sets the CFA rate of the flow (the contract tests show
\* the rate afterwards is the one passed) and FlowUpdated is emitted.
TxMined ==
  LET tx == Head(txQueue)
      k  == <<tx.token, Agent, tx.recipient>>
  IN /\ txQueue # <<>>
     /\ k \in Keys /\ ledgerOps < MaxLedgerOps
     /\ SetChainFlow(k, tx.rate)
     /\ txQueue' = Tail(txQueue)
     /\ UNCHANGED <<now, chainBalance, storeVars>>
     /\ UNCHANGED <<panelOpen, params, recipient, selectedToken, flowRate,
                    debouncedFlowRate, requiredDeposit, errorMessage,
                    depositCalls, submits>>

\* The user declines to sign the oldest requested transaction.
TxRejected ==
  /\ txQueue # <<>>
  /\ txQueue' = Tail(txQueue)
  /\ UNCHANGED <<panelOpen, params, recipient, selectedToken, flowRate,
                 debouncedFlowRate, requiredDeposit, errorMessage, depositCalls,
                 submits, vars>>

-----------------------------------------------------------------------------

PanelInit ==
  /\ Init
  /\ panelOpen = FALSE
  /\ params = NoParams
  /\ recipient = EmptyInput
  /\ selectedToken = NoToken
  /\ flowRate = EmptyInput
  /\ debouncedFlowRate = EmptyInput
  /\ requiredDeposit = NoDeposit
  /\ errorMessage = "none"
  /\ depositCalls = {}
  /\ txQueue = <<>>
  /\ submits = 0

\* Flows the Flows view offers to update: open and outgoing.
UpdatableFlows ==
  {[token |-> flows[i].superTokenAddress, recipient |-> flows[i].entity] :
     i \in {j \in DOMAIN flows : ~flows[j].isCancelled /\ ~flows[j].isIncoming}}

PanelNext ==
  \/ (LedgerNext \/ HandleEvent) /\ UNCHANGED panelVars
  \/ \E p \in {NoParams} \cup UpdatableFlows : OpenPanel(p)
  \/ ClosePanel
  \/ \E v \in AddressInputs : HandleRecipientChange(v)
  \/ \E tok \in Tokens : HandleTokenChange(tok)
  \/ \E v \in RateInputs \cup {EmptyInput} : HandleFlowRateChange(v)
  \/ DebounceSettles
  \/ \E c \in depositCalls : DepositAnswers(c) \/ DepositFails(c)
  \/ HandleSubmit
  \/ TxMined
  \/ TxRejected

PanelSpec == PanelInit /\ [][PanelNext]_allVars
               /\ WF_allVars(HandleEvent /\ UNCHANGED panelVars)

-----------------------------------------------------------------------------
(* Properties                                                              *)

RateInput == RateInputs \cup {EmptyInput}
Tx == [token : Tokens \cup {NoToken}, recipient : AddressInputs, rate : Int]

PanelTypeOK ==
  /\ panelOpen \in BOOLEAN
  /\ params \in {NoParams} \cup [token : Tokens, recipient : Parties]
  /\ recipient \in AddressInputs
  /\ selectedToken \in Tokens \cup {NoToken}
  /\ flowRate \in RateInput /\ debouncedFlowRate \in RateInput
  /\ requiredDeposit \in {NoDeposit} \cup [token : Tokens, rate : RateInputs]
  /\ errorMessage \in {"none", "invalid", "tooBig"}
  /\ depositCalls \subseteq [token : Tokens, rate : RateInputs]
  /\ txQueue \in Seq(Tx)
  /\ submits \in 0..MaxSubmits

\* Adding to a flow (ExistingFlowInfo: "We will add this amount to the
\* flow"): a create-panel submit that finds an open flow, made while the
\* store has caught up and no other transaction is pending, requests the
\* ledger's current rate plus the entered rate.
SubmitAddsToOpenFlow ==
  [][ /\ Len(txQueue') > Len(txQueue)
      /\ ~IsFlowUpdateOperation /\ Quiescent /\ txQueue = <<>>
      /\ ExistingFlow # 0
      => Last(txQueue').rate
           = chainFlows[<<selectedToken, Agent, recipient>>].rate + flowRate ]_allVars

\* The same promise for every create-panel submit: with the store caught up
\* and nothing pending, a running stream to the recipient is added to,
\* never replaced.
SubmitKeepsLiveRate ==
  [][ /\ Len(txQueue') > Len(txQueue)
      /\ ~IsFlowUpdateOperation /\ Quiescent /\ txQueue = <<>>
      => Last(txQueue').rate
           = chainFlows[<<selectedToken, Agent, recipient>>].rate + flowRate ]_allVars

\* RequiredDepositInfo and the "too big" error speak of the flow being
\* entered: once the debounce has settled and no query is in flight, a
\* deposit shown is the one for the selected token and entered rate, and a
\* "too big" error means the entered rate is too big.
DepositInfoMatchesInput ==
  (panelOpen /\ depositCalls = {} /\ debouncedFlowRate = flowRate) =>
    /\ requiredDeposit # NoDeposit =>
         requiredDeposit = [token |-> selectedToken, rate |-> flowRate]
    /\ errorMessage = "tooBig" => flowRate \in TooBig

=============================================================================
