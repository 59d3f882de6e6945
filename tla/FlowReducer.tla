---------------------------- MODULE FlowReducer ----------------------------
(***************************************************************************)
(* The app's event-sourced store for the Superfluid Constant Flow          *)
(* Agreement (app/src/store/event-handlers.js), composed with the ledger   *)
(* that emits its events.                                                  *)
(*                                                                         *)
(* The ledger (the CFA contract and the agent's Super Token balances) is   *)
(* the environment: it creates, updates and deletes flows keyed by         *)
(* <<token, sender, receiver>>, moves tokens in and out of the agent's     *)
(* vault, and lets time pass.  Each change appends an event to `feed`,     *)
(* which the app's store hands, in order and one at a time, to             *)
(* handleFlowUpdated or handleVaultEvent.  The store awaits each handler   *)
(* before the next event, so a handler is one atomic step; the chain goes  *)
(* on meanwhile, which is why a handler reads balanceOf at `now`, later    *)
(* than the block of the event it handles.                                 *)
(*                                                                         *)
(* Token metadata (decimals, name, symbol, underlying token, logo) and the *)
(* contract-handle cache are left out: no property tells them apart.      *)
(***************************************************************************)
EXTENDS Integers, Sequences, SequencesExt, FiniteSets

CONSTANTS
  Agent,         \* the app's agent, whose flows and balances are tracked
  Others,        \* the other accounts
  Tokens,        \* Super Token addresses
  Keys,          \* the flow identities <<token, sender, receiver>> in play
  Rates,         \* positive flow rates (smallest unit per second)
  VaultAmounts,  \* signed amounts moved by a vault deposit or transfer
  MaxTime,       \* last block timestamp of a behaviour
  MaxLedgerOps,  \* bound on ledger operations (flow changes, vault moves)
  NoNetFlow      \* model value: handleVaultEvent passes no netFlow

Parties == {Agent} \cup Others

ASSUME Agent \notin Others
ASSUME Keys \subseteq Tokens \X Parties \X Parties
ASSUME \A k \in Keys : k[2] # k[3]
ASSUME Rates \subseteq Nat \ {0}
ASSUME MaxTime \in Nat /\ MaxLedgerOps \in Nat

VARIABLES
  now,           \* timestamp of the latest block
  chainFlows,    \* CFA flow per key: rate, and a history field: amount
                 \* streamed by the current (or, once deleted, the last)
                 \* stream, accrued second by second
  chainBalance,  \* the agent's real-time Super Token balance per token
  feed,          \* events emitted and not yet handled by the store; `id`
                 \* stands for the event's position in the chain
  ledgerOps,     \* ledger operations so far (bounded)
  flows,         \* store: state.flows
  superTokens    \* store: state.superTokens

ledgerVars == <<now, chainFlows, chainBalance, ledgerOps>>
storeVars == <<flows, superTokens>>
vars == <<now, chainFlows, chainBalance, feed, ledgerOps, flows, superTokens>>

Token(k) == k[1]
Sender(k) == k[2]
Receiver(k) == k[3]

-----------------------------------------------------------------------------
(* The ledger (environment).                                               *)

\* Net flow rate of account p in token tok under the flow table cf, as the
\* CFA reports it in totalSenderFlowRate / totalReceiverFlowRate.
NetFlowIn(cf, p, tok) ==
  MapThenSumSet(LAMBDA k : (IF Receiver(k) = p THEN cf[k].rate ELSE 0)
                           - (IF Sender(k) = p THEN cf[k].rate ELSE 0),
                {k \in Keys : Token(k) = tok})

NetFlow(p, tok) == NetFlowIn(chainFlows, p, tok)

\* Amount streamed so far by the current stream on key k.
Streamed(k) == chainFlows[k].streamed

\* The CFA sets the rate of flow k to r and emits FlowUpdated.
SetChainFlow(k, r) ==
  LET after == [chainFlows EXCEPT
                  ![k] = [rate |-> r, streamed |-> IF @.rate = 0 THEN 0 ELSE @.streamed]]
  IN /\ chainFlows' = after
     /\ feed' = Append(feed,
          [id |-> ledgerOps + 1, type |-> "FlowUpdated", block |-> now, token |-> Token(k),
           sender |-> Sender(k), receiver |-> Receiver(k), flowRate |-> r,
           totalSenderFlowRate |-> NetFlowIn(after, Sender(k), Token(k)),
           totalReceiverFlowRate |-> NetFlowIn(after, Receiver(k), Token(k))])
     /\ ledgerOps' = ledgerOps + 1

LedgerCreateFlow(k, r) ==
  /\ ledgerOps < MaxLedgerOps
  /\ chainFlows[k].rate = 0
  /\ SetChainFlow(k, r)
  /\ UNCHANGED <<now, chainBalance, storeVars>>

LedgerUpdateFlow(k, r) ==
  /\ ledgerOps < MaxLedgerOps
  /\ chainFlows[k].rate > 0
  /\ SetChainFlow(k, r)
  /\ UNCHANGED <<now, chainBalance, storeVars>>

LedgerDeleteFlow(k) ==
  /\ ledgerOps < MaxLedgerOps
  /\ chainFlows[k].rate > 0
  /\ SetChainFlow(k, 0)
  /\ UNCHANGED <<now, chainBalance, storeVars>>

\* A Vault deposit or transfer of the agent (VaultDeposit/VaultTransfer).
LedgerVaultTransfer(tok, amt) ==
  /\ ledgerOps < MaxLedgerOps
  /\ chainBalance' = [chainBalance EXCEPT ![tok] = @ + amt]
  /\ feed' = Append(feed, [id |-> ledgerOps + 1, type |-> "Vault", block |-> now,
                           token |-> tok])
  /\ ledgerOps' = ledgerOps + 1
  /\ UNCHANGED <<now, chainFlows, storeVars>>

\* A new block: every open flow moves one second of tokens, which the
\* agent's balances and each stream's total take up.
AdvanceTime ==
  /\ now < MaxTime
  /\ now' = now + 1
  /\ chainBalance' = [tok \in Tokens |-> chainBalance[tok] + NetFlow(Agent, tok)]
  /\ chainFlows' = [k \in Keys |-> [chainFlows[k] EXCEPT !.streamed = @ + chainFlows[k].rate]]
  /\ UNCHANGED <<feed, ledgerOps, storeVars>>

-----------------------------------------------------------------------------
(* The store (app/src/store).                                              *)

\* Mutant: the elapsed time is taken the wrong way round.
CalculateNewAccumulatedAmountSwapped(flow, ts) ==
  flow.accumulatedAmount + flow.flowRate * (flow.lastTimestamp - ts)

\* store/helpers.js (not under src/): the amount streamed by `flow` up to
\* timestamp ts, banked on top of its accumulated amount.
CalculateNewAccumulatedAmount(flow, ts) ==
  flow.accumulatedAmount + flow.flowRate * (ts - flow.lastTimestamp)

\* store/helpers.js: the counterparty of the event's flow.
GetFlowEventEntity(e, isIncoming) ==
  IF isIncoming THEN e.sender ELSE e.receiver

\* Mutant: only a record that is still open matches.
IsFlowEqualOpenOnly(flow, e) ==
  /\ ~flow.isCancelled
  /\ flow.superTokenAddress = e.token
  /\ flow.isIncoming = (e.receiver = Agent)
  /\ flow.entity = GetFlowEventEntity(e, flow.isIncoming)

\* store/helpers.js: a stored flow stands for the event's
\* <<token, sender, receiver>>; a cancelled record is matched too, so a new
\* stream on the same identity overwrites it in place.
IsFlowEqual(flow, e) ==
  /\ flow.superTokenAddress = e.token
  /\ flow.isIncoming = (e.receiver = Agent)
  /\ flow.entity = GetFlowEventEntity(e, flow.isIncoming)

IsAgentSender(agentAddress, sender, receiver) ==
  agentAddress = sender \/ agentAddress = receiver

\* The fields of newSuperToken that the models keep.
NewSuperToken == [netFlow |-> 0, balance |-> 0]

\* Mutant: a token seen for the first time gets no record.
UpdateSuperTokensNoPush(tok, ts, netFlow) ==
  LET i == SelectInSeq(superTokens, LAMBDA s : s.address = tok)
  IN IF i = 0 THEN superTokens
              ELSE [superTokens EXCEPT ![i] = [address |-> tok, lastUpdateTimestamp |-> ts,
                      balance |-> chainBalance[tok],
                      netFlow |-> IF netFlow = NoNetFlow THEN superTokens[i].netFlow ELSE netFlow]]

\* The token record after an event on token tok at timestamp ts: the agent's
\* balance is read now, and netFlow is overwritten when one is given.
UpdateSuperTokens(tok, ts, netFlow) ==
  LET i == SelectInSeq(superTokens, LAMBDA s : s.address = tok)
      old == IF i = 0 THEN NewSuperToken ELSE superTokens[i]
      updated == [address |-> tok, lastUpdateTimestamp |-> ts,
                  balance |-> chainBalance[tok],
                  netFlow |-> IF netFlow = NoNetFlow THEN old.netFlow ELSE netFlow]
  IN IF i = 0 THEN Append(superTokens, updated)
              ELSE [superTokens EXCEPT ![i] = updated]

\* Mutant: the update case overwrites the rate without banking.
UpdateFlowsNoBanking(e, ts) ==
  LET isIncoming == e.receiver = Agent
      i == SelectInSeq(flows, LAMBDA f : IsFlowEqual(f, e))
  IN CASE i = 0 ->
            Append(flows, [isCancelled |-> FALSE, isIncoming |-> isIncoming,
                           entity |-> GetFlowEventEntity(e, isIncoming),
                           superTokenAddress |-> e.token, accumulatedAmount |-> 0,
                           creationTimestamp |-> ts, lastTimestamp |-> ts,
                           flowRate |-> e.flowRate])
       [] e.flowRate > 0 ->
            [flows EXCEPT ![i] = [@ EXCEPT !.lastTimestamp = ts, !.flowRate = e.flowRate]]
       [] OTHER ->
            [flows EXCEPT ![i] = [@ EXCEPT
               !.accumulatedAmount = CalculateNewAccumulatedAmount(flows[i], ts),
               !.lastTimestamp = ts, !.isCancelled = TRUE]]

\* The three cases of updateFlows: create, update (bank, then new rate) and
\* delete (bank, then cancel).
UpdateFlows(e, ts) ==
  LET isIncoming == e.receiver = Agent
      i == SelectInSeq(flows, LAMBDA f : IsFlowEqual(f, e))
  IN CASE i = 0 ->
            Append(flows, [isCancelled |-> FALSE, isIncoming |-> isIncoming,
                           entity |-> GetFlowEventEntity(e, isIncoming),
                           superTokenAddress |-> e.token, accumulatedAmount |-> 0,
                           creationTimestamp |-> ts, lastTimestamp |-> ts,
                           flowRate |-> e.flowRate])
       [] e.flowRate > 0 ->
            [flows EXCEPT ![i] = [@ EXCEPT
               !.accumulatedAmount = CalculateNewAccumulatedAmount(flows[i], ts),
               !.lastTimestamp = ts, !.flowRate = e.flowRate]]
       [] OTHER ->
            [flows EXCEPT ![i] = [@ EXCEPT
               !.accumulatedAmount = CalculateNewAccumulatedAmount(flows[i], ts),
               !.lastTimestamp = ts, !.isCancelled = TRUE]]

\* Mutant: the agent's net flow is always taken from the receiver side.
HandleFlowUpdatedReceiverSide(e) ==
  \/ /\ ~IsAgentSender(Agent, e.sender, e.receiver)
     /\ UNCHANGED storeVars
  \/ /\ IsAgentSender(Agent, e.sender, e.receiver)
     /\ superTokens' = UpdateSuperTokens(e.token, e.block, e.totalReceiverFlowRate)
     /\ flows' = UpdateFlows(e, e.block)

\* handleFlowUpdated: events of flows the agent is not part of are ignored;
\* otherwise the token record takes the agent's side of the net flow.
HandleFlowUpdated(e) ==
  \/ /\ ~IsAgentSender(Agent, e.sender, e.receiver)
     /\ UNCHANGED storeVars
  \/ /\ IsAgentSender(Agent, e.sender, e.receiver)
     /\ superTokens' = UpdateSuperTokens(e.token, e.block,
                         IF Agent = e.sender THEN e.totalSenderFlowRate
                                             ELSE e.totalReceiverFlowRate)
     /\ flows' = UpdateFlows(e, e.block)

HandleVaultEvent(e) ==
  /\ superTokens' = UpdateSuperTokens(e.token, e.block, NoNetFlow)
  /\ UNCHANGED flows

\* The store takes the next event of the feed and runs its handler.
HandleEvent ==
  /\ feed # <<>>
  /\ feed' = Tail(feed)
  /\ \/ Head(feed).type = "FlowUpdated" /\ HandleFlowUpdated(Head(feed))
     \/ Head(feed).type = "Vault" /\ HandleVaultEvent(Head(feed))
  /\ UNCHANGED ledgerVars

-----------------------------------------------------------------------------

Init ==
  /\ now = 0
  /\ chainFlows = [k \in Keys |-> [rate |-> 0, streamed |-> 0]]
  /\ chainBalance = [tok \in Tokens |-> 0]
  /\ feed = <<>>
  /\ ledgerOps = 0
  /\ flows = <<>>
  /\ superTokens = <<>>

LedgerNext ==
  \/ \E k \in Keys, r \in Rates : LedgerCreateFlow(k, r) \/ LedgerUpdateFlow(k, r)
  \/ \E k \in Keys : LedgerDeleteFlow(k)
  \/ \E tok \in Tokens, amt \in VaultAmounts : LedgerVaultTransfer(tok, amt)
  \/ AdvanceTime

Next == LedgerNext \/ HandleEvent

\* The store handles every event it is given (Aragon's store awaits each
\* reducer call and moves on to the next event).
Spec == Init /\ [][Next]_vars /\ WF_vars(HandleEvent)

-----------------------------------------------------------------------------
(* Properties                                                              *)

FlowRecord == [isCancelled : BOOLEAN, isIncoming : BOOLEAN, entity : Parties,
               superTokenAddress : Tokens, accumulatedAmount : Nat,
               creationTimestamp : 0..MaxTime, lastTimestamp : 0..MaxTime,
               flowRate : Nat]

TypeOK ==
  /\ now \in 0..MaxTime
  /\ chainFlows \in [Keys -> [rate : {0} \cup Rates, streamed : Nat]]
  /\ chainBalance \in [Tokens -> Int]
  /\ ledgerOps \in 0..MaxLedgerOps
  /\ Len(feed) <= ledgerOps
  /\ flows \in Seq(FlowRecord)
  /\ \A i \in DOMAIN superTokens :
       superTokens[i] \in [address : Tokens, lastUpdateTimestamp : 0..MaxTime,
                           balance : Int, netFlow : Int]

\* The store has handled every event the ledger emitted.
Quiescent == feed = <<>>

\* The ledger key a stored flow stands for.
KeyOf(f) ==
  IF f.isIncoming THEN <<f.superTokenAddress, f.entity, Agent>>
                  ELSE <<f.superTokenAddress, Agent, f.entity>>

\* The identities of the flows the agent is a party to.
AgentKeys == {k \in Keys : Agent \in {Sender(k), Receiver(k)}}

\* The agent's flow events still in the feed, as identity and rate.
BookEvents ==
  LET es == SelectSeq(feed, LAMBDA e : e.type = "FlowUpdated"
                                       /\ IsAgentSender(Agent, e.sender, e.receiver))
  IN [i \in DOMAIN es |-> [key |-> <<es[i].token, es[i].sender, es[i].receiver>>,
                           rate |-> es[i].flowRate]]

\* What the store shows for identity k: no record, only cancelled records,
\* or an open record at its rate.
BookEntry(k) ==
  LET recs == {i \in DOMAIN flows : KeyOf(flows[i]) = k}
      open == {i \in recs : ~flows[i].isCancelled}
  IN CASE recs = {}  -> [status |-> "none", rate |-> 0]
       [] open = {}  -> [status |-> "cancelled", rate |-> 0]
       [] OTHER      -> [status |-> "open", rate |-> flows[CHOOSE i \in open : TRUE].flowRate]

Book == INSTANCE FlowBook WITH BookKeys <- AgentKeys, events <- BookEvents,
                               book <- [k \in AgentKeys |-> BookEntry(k)]

\* The store implements spec.md section 4.2's state machine for which flows
\* it shows open and at which rate: each ledger step emits one event, each
\* handler applies one event that no older event of its identity precedes,
\* and a stream recreated on a cancelled identity stays cancelled in the
\* store, as the spec requires (updateFlows matches the cancelled record and
\* never clears isCancelled).  Amounts and netFlow are left to the
\* invariants below.
RefinesFlowBook == Book!BookSpec

\* Once the store has caught up, every flow it shows as open streams at the
\* ledger's rate, and its banked amount plus the accrual since its last
\* update is exactly what the ledger streamed, second by second, under
\* every rate the stream had (updateFlows' banking across any number of
\* rate changes, in blocks with and without time between: spec.md section
\* 8's segment additivity).
OpenFlowsMatchLedger ==
  Quiescent =>
    \A i \in DOMAIN flows :
      LET f == flows[i]  k == KeyOf(f) IN
        ~f.isCancelled =>
          /\ chainFlows[k].rate = f.flowRate
          /\ CalculateNewAccumulatedAmount(f, now) = Streamed(k)

\* Once the store has caught up, the netFlow of each token record is the
\* agent's net flow rate on the ledger, whichever side of the latest flow
\* event the agent was on, and a token the agent streams has a record.
NetFlowMatchesLedger ==
  Quiescent =>
    \A tok \in Tokens :
      LET i == SelectInSeq(superTokens, LAMBDA s : s.address = tok) IN
        IF i = 0 THEN NetFlow(Agent, tok) = 0
                 ELSE superTokens[i].netFlow = NetFlow(Agent, tok)

\* Signed sum of the rates of the flows shown as open in token tok.
OpenFlowsNetRate(tok) ==
  MapThenSumSet(LAMBDA i : IF flows[i].isIncoming THEN flows[i].flowRate
                                                  ELSE -flows[i].flowRate,
                {i \in DOMAIN flows : flows[i].superTokenAddress = tok
                                      /\ ~flows[i].isCancelled})

\* spec.md section 3: a token's netFlowRate equals the signed sum of the
\* rates of its non-cancelled flows.  The code takes netFlow from the event
\* and reopens a cancelled record without clearing isCancelled.
NetFlowIsSumOfOpenFlows ==
  Quiescent =>
    \A i \in DOMAIN superTokens :
      superTokens[i].netFlow = OpenFlowsNetRate(superTokens[i].address)

=============================================================================
