# TLA+ models of the Superfluid Aragon app

This directory holds TLA+ models of the Superfluid Aragon app's front end.
It covers the store that turns Constant Flow Agreement (CFA) events into a
list of flows and token balances, and the hook that polls conversion rates.
Each module is written from the source under `src/app/src`. Code that the
model relies on but that is not in the source (`store/helpers.js`, the Aragon
store dispatch) is modelled from `spec.md` and marked `spec_modelled` in
`PROJECT.json`.

## 1. Inventory

### Components and their state

| Component | Source | State | Operations |
|---|---|---|---|
| Flow reducer | `store/event-handlers.js` | `state.flows` (one record per flow, with `isCancelled`, `isIncoming`, `entity`, `superTokenAddress`, `accumulatedAmount`, `creationTimestamp`, `lastTimestamp`, `flowRate`); `state.superTokens` (per token: metadata, `balance`, `netFlow`, `lastUpdateTimestamp`); the module-level `superTokenContracts` cache | `handleFlowUpdated` (which runs `updateSuperTokens` and `updateFlows`), `handleVaultEvent`, `handleSetAgent` (a stub), `newSuperToken` |
| Accrual helpers | `store/helpers.js` (not in src) | none | `calculateNewAccumulatedAmount`, `isFlowEqual`, `getFlowEventEntity` |
| Conversion-rate poller | `hooks/useConvertRates.js` | `rates` state, the `retryDelay` ref shared by all effects, and per effect a `cancelled` flag and a `retryTimer` | render with new query → cleanup, then a new effect; `update` (fetch, success, failure, retry timer); unmount → cleanup |
| Super token items | `hooks/useSuperTokenItems.js` | none (memoised) | looks up each token's rate in the poller's table, keyed by lower-cased address |
| Flows view | `components/Flows/index.js`, `helpers/time.js` | none (renders) | sort (open flows first, then newest first); total so far (static if cancelled, live from `accumulatedAmount`, `flowRate` and `lastUpdateDate` if open); monthly rate (`MONTH` = 30 days); update/delete menu unless the flow is cancelled or is incoming from someone other than the connected account |
| Update flow panel | `components/SidePanels/UpdateFlow/index.js` | `recipient`, `selectedToken`, `flowRate`, `requiredDeposit`, `errorMessage` | `validateFields`; lookup of an existing open outgoing flow; `calculateNewFlowRate` (existing + input); submit; debounced deposit-requirement fetch |
| Downgrade panel | `components/SidePanels/Convert/Downgrade.js` | `selectedToken`, `amount`, `errorMessage` | `validateFields`, submit |
| Contracts (FlowFinance) | only the tests `src/test/*.test.ts` | agent, CFA flows | createFlow, updateFlow, deleteFlow, deposit, withdraw, setAgent |

### How they interact

- The ledger (the CFA contract and the Super Tokens) emits `FlowUpdated`
  events and the agent's vault events.
- Aragon's store hands these events, in order, to the async handlers. It
  awaits each handler before it passes the next event, so one handler's
  effect on `flows` and `superTokens` is atomic. The chain keeps moving
  during the handler's `await`s. `balanceOf` is therefore read at a later
  block than the event's own block.
- The views read the store's state. The Flows view shows a live total for
  open flows. The Update-flow panel reads `flows` to find an existing flow
  and adds the new rate to it.
- `useSuperTokenItems` feeds `useConvertRates` a query built from the
  tokens' addresses. The poller runs on its own, on React effects and
  timers. Its answers are multiplied into the displayed amounts.

### What is hard

- **Ordering and identity of events.** A flow is banked and then re-rated at
  each event. A key that is deleted and then created again meets its own
  cancelled record. The code does not check timestamps, so it relies on
  events arriving in order and only once.
- **Async handlers against a moving chain.** The balance is read at handling
  time but stamped with the event's timestamp.
- **Effects, timers and in-flight fetches.** A query change or an unmount
  races fetches that cannot be aborted and retry timers that may be pending.
  The only protection is the `cancelled` flag in each effect's closure, plus
  a ref that all effects share.
- **Retry forever.** The poller has backoff with a ceiling and never gives
  up, but `fetch` has no timeout.
- **Stale reads in the panels.** The Update-flow panel builds a new rate from
  the store's copy of a flow. Its deposit queries are never cancelled.

### Properties that make each component correct

- Reducer: once caught up, every flow shown open agrees with the ledger's
  rate and streamed total. Each token's `netFlow` is the agent's net rate
  and equals the signed sum of its open flows. A cancelled record's total is
  frozen. Replayed or stale events change nothing.
- Poller: no answer to a superseded query is applied. No timer or fetch
  outlives its effect. The backoff reflects only the live query's failures.
  A stable query eventually gets rates.
- Update panel: the deposit shown belongs to the rate shown. The submitted
  rate is the ledger's rate plus the input.
- Flows view: the total shown is the ledger's streamed amount. The
  comparator is a total preorder.

## 2. Modules and runs built so far

### `FlowReducer` (with `MC_FlowReducer`)

**Variables.** The ledger is the environment:

- `chainFlows` holds each key's rate and a history field: the amount the
  current (or last) stream has streamed. `AdvanceTime` adds each stream's
  rate to it every second, so it is a per-second sum over the stream's
  rate schedule. It shares no formula with the store's banking, which
  multiplies a rate by an elapsed time.
- `chainBalance` is the agent's real-time balance.
- `now` is the current block time.
- `ledgerOps` counts ledger operations.
- `feed` holds the events emitted but not yet handled.

`flows` and `superTokens` are the store's `state.flows` and
`state.superTokens`.

**Ledger actions.** `LedgerCreateFlow`, `LedgerUpdateFlow` and
`LedgerDeleteFlow` follow the CFA's rules: create only when there is no flow,
update and delete only when there is one. Each emits `FlowUpdated` carrying
the sender's and the receiver's net rates after the change, as the tests in
`src/test` expect. `LedgerVaultTransfer` moves tokens and emits a vault event.
`AdvanceTime` mints a block.

**Store action.** `HandleEvent` runs the whole handler for the head of the
feed:

- `HandleFlowUpdated` covers the non-agent early return and
  `updateSuperTokens` with the agent's side of the net flow. It then runs
  `updateFlows` with its create, update and delete branches.
- `HandleVaultEvent` covers the balance refresh with no `netFlow`.

Token metadata and the contract-handle cache are left out.
`isFlowEqual` follows the overwrite-in-place behaviour that `spec.md`
section 9 reports for the reference code. It matches a record by token,
direction and counterparty, cancelled or not.

**Bounds** (`MC_FlowReducer.cfg`):

- accounts: agent `a` and two others;
- tokens: `t1` and `t2`;
- keys: incoming and outgoing agent flows in `t1`, an outgoing agent flow in
  `t2`, and one flow between the two other accounts;
- rates: {1, 2};
- vault amount: 3;
- `MaxTime` = 2;
- `MaxLedgerOps` = 4.

These bounds are enough for these cases:

- create, then update, then delete of one key, with time between the steps
  (so banking matters) and without it (events in the same block);
- delete then create again;
- two keys of one token, and two tokens;
- the handler running late, after further blocks and changes.

This is about 2 million states.

**Fairness.** Weak fairness on `HandleEvent`: the store processes every
event it receives. The ledger gets none.

### `FlowReducerReplay` (with `MC_FlowReducerReplay`)

`FlowReducerReplay` extends `FlowReducer` with an at-least-once event
feed.

- `handledLog` records every event the store has handled.
- `Redeliver` appends an already handled event to the feed again. It may do
  so at most `MaxRedeliveries` times.
- `Delayed` decides which events come back:
  - `FALSE`: only the last handled event, and only while nothing newer is
    queued;
  - `TRUE`: any handled event, at any time.
- Each ledger event carries its chain position `id`. A new event with the
  same content as an old one is therefore not mistaken for a redelivery.

- `Reorder` lets the feed break the order across keys, which spec.md §5
  allows ("cross-key ordering is not constrained"). `HandleReordered` runs
  `handleFlowUpdated` on a FlowUpdated event that overtakes the head of the
  feed. Every event it passes must be a FlowUpdated of the same block on
  another key. Vault events keep their place.

`HandlesHandledEvent` is a step in which the store handles an event that is
already in `handledLog`. Two action properties use it:
- `RedeliveredEventKeepsFlows`: such a step changes no flow record;
- `RedeliveredEventIsNoOp`: it also leaves each token's `netFlow` unchanged
  (spec.md §4.2 and §8).

`RefinesFlowBook` (a PROPERTY of `reducer_duplicate`) shows that the store's
flow records implement `FlowBook`, the abstract specification of spec.md
§4.2 and §5. `FlowBook` has two variables:
- `events`: the agent's rate changes that have been emitted but not yet
  applied;
- `book`: one `[status, rate]` entry per identity `<<token, sender,
  receiver>>`.

An event is applied only after the older events of its own identity
(`Applicable`). A cancelled entry is terminal. `Apply` is weakly fair,
so the refinement also requires that every event of the agent's flows is
eventually applied. The store meets this through the weak fairness of its
handler step: Aragon's store awaits each reducer call and then takes the
next event. The ledger and the redeliveries get no fairness. A dispatch
with no case for vault events would leave such an event at the head of
the feed forever, and TLC reports that as a violation of this liveness
half.

The refinement mapping:
- `events` is the agent's FlowUpdated events still in the feed;
- an identity's entry is `none` when it has no record, `cancelled` when
  all its records are cancelled, and otherwise `open` with the open
  record's rate.

Because the store matches a reopened stream to its cancelled record
(`isFlowEqual`), the reopened stream stays cancelled, which is what
§4.2's "terminal" asks for. The accrual and `netFlow` that the same reopen
gets wrong are not part of `FlowBook`. `reducer_reopen` and
`reducer_reorder` check those.

If `isFlowEqual` matched open records only (the mutant
`IsFlowEqualOpenOnly`), a reopen would append an open record while the
book stays cancelled, and TLC finds the refinement violated.

The model has a single token, with the agent's incoming and outgoing flows
and a third-party flow. It uses `MaxTime = 2` and `MaxLedgerOps = 3`.
`reducer_duplicate` allows two redeliveries (about 487k states in about
40 s with the temporal check); the delayed run allows one. These
bounds are enough for a create, an update and a delete to be re-delivered,
and for two flow events to share a block.

`RedeliveredEventIsNoOp` cannot pass even with immediate duplicates once
`Reorder` holds. A newer event of another key in the same block can overtake
the duplicate, and the duplicate then resets `netFlow`. That is the defect
`reducer_reorder` isolates. The passing run therefore checks the flow-set
half of the promise.

### `UpdateFlowPanel` (with `MC_UpdateFlowPanel`)

`UpdateFlowPanel` extends `FlowReducer` with the Create/Update Flow side
panel (`components/SidePanels/UpdateFlow/index.js`). The panel reads the
store's `flows`; its transactions change the ledger, whose events feed the
store again.

| Model | Code |
|---|---|
| `recipient`, `selectedToken`, `flowRate`, `errorMessage`, `requiredDeposit` | the component's `useState`s |
| `debouncedFlowRate`, `DebounceSettles` | `useDebounce(flowRate, 500)` catching up, and the deposit effect it triggers |
| `depositCalls`, `DepositAnswers`, `DepositFails` | `fetchDepositRequeriment` promises still in flight, and their outcomes |
| `OpenPanel`, `ClosePanel`, `Clear` | the reset effect, whose cleanup runs `clear()` |
| `HandleRecipientChange`, `HandleTokenChange`, `HandleFlowRateChange` | the three `useCallback` handlers |
| `HandleSubmit`, `ValidateFields`, `ExistingFlow`, `CalculateNewFlowRate` | `handleSubmit` and the helpers it reads |
| `txQueue`, `TxMined`, `TxRejected` | `requestTransaction`, then the user signs or declines. A mined transaction sets the CFA rate, as the contract tests show. |

Abstractions:

- An address field holds a party or `EmptyInput`. `EmptyInput` also stands
  for any string that fails `isAddress`.
- A rate field holds a member of `RateInputs` or `EmptyInput`.
- `errorMessage` keeps only which error, if any, is shown.
- Rates are integers in the token's smallest unit, so the
  `fromDecimals`/`toDecimals` round trip is exact. The floating-point case is
  listed as a hazard.
- `TxMined` assumes `onUpdateFlow` (outside `src/`) creates or updates the
  flow as the ledger requires.

The MC setup:

- one token, and the agent's flow to `o1` and back;
- rate inputs 1 and 2, where 2 is "too big";
- `MaxTime = 0`, since accrual is `FlowReducer`'s concern;
- three ledger operations, which is enough to delete and recreate the flow;
- two submits.

### `FlowsView` (checked in `MC_FlowReducer`)

The Flows table (`components/Flows/index.js`) holds no state of its own.
`FlowsView` extends `FlowReducer` and keeps the one step of `renderEntry`
that can fail: `TokenDetails` is `tokenDetails`, and `RowRenders` is its
lookup, which throws for a token with no record. `EveryRowRenders` is
checked in every state the ledger and the store reach. The sort, the
INC/OG and Total So Far columns and the update/delete menu are pure
functions of one record that no property tells apart, so they are left out.

`MC_FlowReducer` extends `FlowsView`, so the reducer run checks the table
too. Its keys give the agent one outgoing flow in `t1` and two incoming
ones, from `o1` and from `o2`. There is also an
outgoing flow in `t2` and a third-party flow. With `MaxTime = 2` and four
ledger operations, the store holds up to four records with different
creation times in every mix of open and cancelled.

### `DowngradePanel` (with `MC_DowngradePanel`)

The Downgrade form (`components/SidePanels/Convert/Downgrade.js`) is a
sequential form.

- Each handler is an action: `HandleTokenChange`, `HandleAmountChange` and
  `HandleSubmit` with `ValidateFields`.
- `Clear` is `clear()`. `Remount` is the reset effect: its cleanup runs
  `Clear`, and a fresh mount follows.
- The token objects that the TokenSelector (outside `src/`) hands over form
  a constant set, `TokenChoices`. The MC gives four of them:
  - a listed token with a balance;
  - a listed token without a balance;
  - a custom address that is no Super Token;
  - a malformed address.
- The amounts are −1, 0, 1 and 2. The field accepts a typed negative
  number despite `min=0`.

### `ConvertRates` (with `MC_ConvertRates`)

**Variables.**

- `status` is `init`, `mounted` or `unmounted`.
- `query` holds the deps of the latest render.
- `effects` holds every effect run, each with its `query`, its `cancelled`
  flag and its state: `idle`, `fetching`, or `waiting` on its retry timer.
- `retryDelay` is the shared ref, counted in factors of 1.2 over the 2 s
  floor and capped at `DelayCap`. The code's cap is at 19 factors, and the
  `poller` and `token_items` runs use 19. `poller_errorbody` uses 2, which
  keeps the grow-then-saturate behaviour at a smaller size. The code grows the
  delay before it calls `setTimeout`, so the first retry waits 2.4 s.
  spec.md §8 (scenario C) says 2 s. `FetchFails` models that order, and
  `BackoffTracksFailures` checks the counter (delay = failures, capped),
  but the model has no timer durations, so no property tells the 2.4 s
  first wait from a 2 s one. The difference from the spec is recorded as a
  hazard, not as a separate run.
- `rates` is the state.
- `ratesBy` and `failures` are history variables: the effect that last set
  the rates, and the live effect's consecutive failures.

**Actions.**

- `Mount` and `Rerender` run the cleanup and then `StartEffect`, which is the
  first `update`. A disabled query clears the rates.
- `TimerFires`.
- The three outcomes of a fetch, each with its `cancelled` guard:
  - `FetchSucceeds`: the rates for the query;
  - `FetchErrorBody`: an HTTP error whose body is JSON. `response.ok` is
    never checked, so `ApplyResponse` treats it exactly like success;
  - `FetchFails`: a network or decoding error.
- `Unmount`.

**Bounds.** Two enabled queries and one disabled query. `poller` allows up to
five effects, so a query can change four times (away from a query and back
to it included) while older fetches are still in flight. It also uses the
code's own ceiling of 19 factors, so a failing query's delay reaches the
60 s cap and stays there (59k distinct states, about 16 s). `poller_errorbody` needs only three effects and a
cap of 2.

**Fairness.**

- Weak fairness on timers firing and on fetches settling. The browser runs
  due timers, and a fetch is assumed to end eventually, although the code
  sets no timeout (see the hazards).
- Strong fairness on success: the rate service eventually answers a request
  that keeps being retried.
- Renders and unmount get no fairness, because they are the user's.

**Refinement.** `RatePoller` is the abstract promise of the hook. It has no
effects, timers or fetches, and it states three things:

- each rendered query gets one answer;
- only the answer to the query rendered at that moment is shown;
- a disabled query shows the empty table at once.

`ConvertRates` instantiates it as `Promise`. `answered` is mapped to
`Latest > 0 /\ ratesBy = Latest`, which means the latest effect has called
`setRates`. The other variables map to themselves. `RefinesRatePoller`
(`Promise!PSpec`) is checked as a PROPERTY. Under this mapping, timers,
failures and a cancelled effect's answer are stuttering steps. The
promise's weak fairness on `PAnswer` follows from the hook's fairness.

### `SuperTokenItems` (with `MC_SuperTokenItems`)

`SuperTokenItems` extends `ConvertRates` with the hook that feeds it,
`hooks/useSuperTokenItems.js`.

| Model | Code |
|---|---|
| `storeTokens` | the addresses of `state.superTokens`, in store order. The store only appends (`updateSuperTokens`), so `StoreAddsToken` appends. |
| `network`, `NetworkConnects` | `useNetwork()`: no network (chain id `null`) until the client reports one |
| `ConvertRateTokens` | `tokenAddresses`: `getConvertRateToken` of each token, without those `isAddress` rejects |
| `QueryOf` | the deps of `useConvertRates`: the joined addresses and the chain id. The currency list is the constant `[DEFAULT_CURRENCY]`. |
| `MountItems`, `RenderItems` | a mount, or a render after the store or network changed, which runs `ConvertRates`' `Mount` or `Rerender` with `QueryOf` |
| `HasRate`, `BalanceItems` | the `balanceItems` memo: a converted amount and net flow when `convertRates[address][DEFAULT_CURRENCY]` is set |

A rates table is the query it answers. The service is taken to return a
rate for every address of the query. `getConvertRateToken` is the
constant map `ConvertToken`, and `getAvailableSuperTokens` is the
identity; both are outside `src/`.

**Fairness.** The model keeps the poller's fairness and adds weak fairness
on `RenderItems`: React renders again after the store or the network
changes. Mount, unmount, the store and the network get none.

**Bounds.** Tokens `t1` and `t2` have convert-rate addresses; `t3` has
none. The query therefore changes at most three times: two new addresses
and the network. `MaxEffects = 4` lets every such render run its effect, so
the bound never hides a query. The run uses the code's delay cap of 19
factors (31k distinct states, a few seconds).

`ItemsEventuallyConverted` says that once the store and the network have
settled, every token with a convert-rate address shows a converted amount
while the component is mounted. The one exception is an HTTP error body,
which `poller_errorbody` already reports. The property holds only if no
answer to a superseded query, one that lacks a newer token, is applied
after the query changes.

### Runs

| Run | Expect | What it shows |
|---|---|---|
| `reducer_sync` | pass | Reducer and Flows table together. `OpenFlowsMatchLedger`: once the feed is drained, every flow shown open has the ledger's rate, and its `accumulatedAmount + flowRate × (now − lastTimestamp)` equals the amount the ledger streamed, summed second by second, across any sequence of rate changes. `NetFlowMatchesLedger`: each token's `netFlow` is the agent's net rate on the ledger, and a token with flows has a record. `TypeOK` includes non-negative banked amounts. `EveryRowRenders`: in every state, the queued-events ones included, each row finds its token's details, so line 172 never throws. Neither `OpenFlowsMatchLedger` nor `NetFlowMatchesLedger` sees the reopen bug in the instance sizes used here; `reducer_reopen` does. |
| `reducer_reopen` | violation | `NetFlowIsSumOfOpenFlows` (spec.md §3). TLC's trace: the ledger creates, deletes and creates again the same flow, then the store handles the three events. The third event matches the cancelled record and takes the update branch. That banks the old rate over the closed period and leaves `isCancelled` set. The running stream is therefore shown as ended, while `netFlow` counts it. |
| `reducer_duplicate` | pass | With `Reorder` and up to two immediate duplicates: `RedeliveredEventKeepsFlows`, an event handled a second time changes no flow record, because a duplicate banks over zero elapsed time and matches its own record. `OpenFlowsMatchLedger` still holds, because each record depends only on its own key's events, and those stay in order. `RefinesFlowBook`: the flow records implement `FlowBook` (§4.2, cancel terminal), and every event of the agent's flows is eventually applied. |
| `reducer_replay` | violation | The same property when an older event may come back after newer ones. The code compares no timestamps, so `updateSuperTokens` overwrites `netFlow` with the stale total of the old event. spec.md §4.2 says such an event must be discarded. |
| `reducer_reorder` | violation | `NetFlowMatchesLedger` with `Reorder` and no redelivery. TLC's trace: the ledger opens the agent's outgoing flow (running total −1), then its incoming flow (running total 0, the ledger's net), in one block. The store handles them in the other order, so the outgoing event comes last and leaves `netFlow = −1`. `handleFlowUpdated` copies the running total of the last event it handled (`event-handlers.js:31`). It does not derive `netFlow` from the flows, which is what spec.md §4.3 asks. |
| `panel` | pass | `SubmitAddsToOpenFlow`: a create-panel submit that finds an open flow, made while the store has caught up and nothing is pending, requests the ledger's live rate plus the entered one. This holds only through the store's banking and matching, which the panel relies on. It is stated for the caught-up store only: a submit while events are queued uses a stale rate by design of the read path. |
| `panel_reopen` | violation | `SubmitKeepsLiveRate`: the same promise for every create-panel submit. TLC's trace has the ledger create, delete and recreate the flow. The store marks the record cancelled (the reopen bug), so `existingFlow` finds nothing. The panel then requests rate 2 and replaces the live rate 1, where it should have added to it. |
| `panel_deposit` | violation | `DepositInfoMatchesInput`. In TLC's trace the user enters 1, the deposit query goes out, and the user clears the field. The answer lands afterwards, and the panel shows the deposit for rate 1 with the field empty. The queries are never cancelled, and clearing the rate does not reset `requiredDeposit`. |
| `downgrade` | pass | `ErrorShownIsCurrent`: an error on screen is always the one `validateFields` gives for the current token and amount. |
| `poller` | pass | `NoStaleRates`: only the live effect ever calls `setRates`. `OnlyLiveEffectRetries`: no retry timer survives a query change or unmount. `BackoffTracksFailures`: while mounted, the delay is the live query's own consecutive failures, capped. `RefinesRatePoller`: the hook implements `RatePoller`, so each rendered query eventually gets exactly its own answer. |
| `poller_errorbody` | violation | `RatesEventuallyShown` (spec.md §3 and §4.5: last good rates are kept across failures, and the poller never stops on its own). TLC's trace: mount while the token list is still empty (the disabled query), the first render with tokens, which starts the fetch for that query, then an error response with a JSON body. It becomes the rate table, and no retry follows, so the query never shows its rates. `RefinesRatePoller` in `poller` still holds, because the promise counts whatever body the service returned as the answer. |
| `token_items` | pass | `ItemsEventuallyConverted`: the store adds tokens and the network connects, while fetches for older queries are still in flight. Every token with a convert-rate address still ends up converted, unless the service sent an HTTP error body. `ItemsTypeOK` also shows that a token without a mainnet equivalent never enters the query. |

Every property of a passing run has a mutant in `PROJECT.json`: a plausible
bug in the mapped code that TLC catches under the run's own configuration.

Deadlock checking is off in all runs, and in both cases the system really
does stop. The store idles once the bounded ledger has stopped and the feed
is drained. The poller stops after a success (the code never refreshes) and
after an unmount.

## 3. What is not modelled, and why

- Rendering, layout, formatting and identity badges. They
  are presentation only, and no property depends on them.
- The contracts. Only their tests are in the source. The ledger in
  `FlowReducer` stands in for the CFA that those tests exercise.
- `handleSetAgent`. It is a stub, and what the store does with its
  `undefined` result lies outside `src/`.
- Liquidation and negative balances on the ledger. The app reads balances;
  it does not enforce them.
- The spelling of addresses. Every model keeps an address as one model
  value. The code compares addresses with `addressesEqual` in most places,
  but with `===` for the delete flag (`Flows/index.js:295`). It also keys
  the rates table by lower-cased address. Both are listed as hazards; a
  check of either needs App or `helpers` code, which is outside `src/`.
- Decimal scaling (`toDecimals`, `fromDecimals`, `formatTokenAmount`).
  Amounts and rates are integers in the smallest unit. `handleSubmit` passes
  `selectedToken.decimals`, which is undefined (the token keeps its decimals
  under `data`); this is listed as a hazard.
- A rejected handler, a fetch that never settles, and the `undefined` state
  left by `handleSetAgent`. Each of these hazards turns on what Aragon's
  store or the browser does next, and neither spec.md nor `src/` says.
  Modelling them would mean inventing that behaviour.

## 4. Plan

Steps still open are marked; the others are done.

1. **`FlowReducer`: the reducer core.** Done.
2. **`ConvertRates`: the poller.** Done.
3. **`FlowReducer` redelivery and reordering.** Done (`FlowReducerReplay`). Still open: a lost-event variant for the
   rejected-handler hazard. It needs a choice of what Aragon's store (outside
   `src/`) does with a rejected reducer.
4. **Accrual.** Done, without a module of its own.
   - `OpenFlowsMatchLedger` checks `calculateNewAccumulatedAmount`, as the
     store banks it across rate changes, against the ledger's per-second
     sum (spec §8, segment additivity). The sum covers every schedule the
     bounded ledger can produce.
   - The display total and `MONTH` are left out: they are pure
     functions of one record that no property tells apart.
   - `DynamicFlowAmount` lies outside `src/`.
5. **`FlowsView`.** Done.
6. **`UpdateFlowPanel`, composed with `FlowReducer`.** Done.
7. **`SuperTokenItems`.** Done. The store's token list is the poller's
   query, composed with `ConvertRates`. The store is abstracted to its
   append-only token order rather than composed with `FlowReducer`,
   because only that order reaches the hook.
8. **Abstract specifications.** `RatePoller`, refined by `ConvertRates`,
   is done. `FlowBook`, the §4.2 status machine with per-identity order,
   is refined by `FlowReducer` under the redelivering and reordering
   feed (`RefinesFlowBook`), and is done too. The check runs in
   `reducer_duplicate` and not in `reducer_sync`, because the larger
   instance of `reducer_sync` takes about four minutes with it.
9. **`Downgrade`.** Done (`DowngradePanel`).
