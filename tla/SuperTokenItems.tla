---------------------------- MODULE SuperTokenItems ----------------------------
(***************************************************************************)
(* The hook useSuperTokenItems (app/src/hooks/useSuperTokenItems.js),      *)
(* composed with the conversion-rate poller of ConvertRates.               *)
(*                                                                         *)
(* The hook turns the store's superTokens into the poller's query: the     *)
(* convert-rate address of each token, dropping those that are not an      *)
(* address (no mainnet equivalent), joined in store order, with the chain  *)
(* id of the connected network.  Every render whose query differs runs the *)
(* poller's cleanup and a new effect.  The items show a converted amount   *)
(* for a token when the rates table has a rate for its address.            *)
(*                                                                         *)
(* The store only ever appends a token record (updateSuperTokens), so the  *)
(* store is modelled by the order in which tokens appear.  A rates table   *)
(* is the query it answers: it holds a rate for every address of that     *)
(* query.  getConvertRateToken and getAvailableSuperTokens are outside     *)
(* src/: the first is the constant ConvertToken, the second the identity.  *)
(***************************************************************************)
EXTENDS ConvertRates, SequencesExt

CONSTANTS
  StoreTokens,   \* Super Token addresses the store may come to hold
  ConvertToken,  \* getConvertRateToken: a convert-rate address or NoAddress
  NoAddress,     \* model value: a value isAddress rejects
  Network,       \* the chain id of the network the client connects to
  NoNetwork      \* model value: useNetwork() has no network yet (chain id null)

VARIABLES
  storeTokens,   \* the addresses of state.superTokens, in store order
  network        \* useNetwork(): NoNetwork or Network

itemVars == <<storeTokens, network>>
allVars == <<vars, itemVars>>

-----------------------------------------------------------------------------

\* Mutant: every convert-rate address goes into the query.
ConvertRateTokensUnfiltered(ts) ==
  [i \in DOMAIN ts |-> ConvertToken[ts[i]]]

\* tokenAddresses: the convert-rate address of each token, in store order,
\* without those isAddress rejects.
ConvertRateTokens(ts) ==
  SelectSeq([i \in DOMAIN ts |-> ConvertToken[ts[i]]], LAMBDA c : c # NoAddress)

\* The deps of useConvertRates for the current render.
QueryOf == [tokens |-> ConvertRateTokens(storeTokens), chainId |-> network]

\* convertRates[getConvertRateToken(superToken)][DEFAULT_CURRENCY] is set.
HasRate(tok) ==
  /\ rates \notin {NoRates, ErrorBody}
  /\ ConvertToken[tok] \in ToSet(rates.tokens)

\* balanceItems: each token of the store, with a converted amount and net
\* flow when a conversion rate is known for it.
BalanceItems ==
  [i \in DOMAIN storeTokens |-> [address |-> storeTokens[i],
                                 converted |-> HasRate(storeTokens[i])]]

\* The store handles the first event of a token and appends its record.
StoreAddsToken(tok) ==
  /\ tok \notin ToSet(storeTokens)
  /\ storeTokens' = Append(storeTokens, tok)
  /\ UNCHANGED <<vars, network>>

\* The Aragon client reports the network.
NetworkConnects ==
  /\ network = NoNetwork
  /\ network' = Network
  /\ UNCHANGED <<vars, storeTokens>>

\* The component mounts, or renders again after the store or the network
\* changed, with the query derived from them.
MountItems == Mount(QueryOf) /\ UNCHANGED itemVars

RenderItems == Rerender(QueryOf) /\ UNCHANGED itemVars

\* A step of the poller that no render causes.
PollerStep ==
  /\ \/ Unmount
     \/ \E i \in 1..Latest : TimerFires(i) \/ FetchSucceeds(i) \/ FetchFails(i)
                             \/ FetchErrorBody(i)
  /\ UNCHANGED itemVars

ItemsInit ==
  /\ Init
  /\ storeTokens = <<>>
  /\ network = NoNetwork
  /\ query = QueryOf

ItemsNext ==
  \/ \E tok \in StoreTokens : StoreAddsToken(tok)
  \/ NetworkConnects
  \/ MountItems
  \/ RenderItems
  \/ PollerStep

\* The poller's fairness (timers fire, fetches settle, the service answers a
\* request retried forever), and React renders the component again after
\* the store or the network changed.  Mounting, unmounting, the store and
\* the network get none.
ItemsFairness ==
  /\ \A i \in 1..MaxEffects :
       /\ WF_allVars(i <= Latest /\ TimerFires(i) /\ UNCHANGED itemVars)
       /\ WF_allVars(i <= Latest /\ UNCHANGED itemVars
                     /\ (FetchSucceeds(i) \/ FetchFails(i) \/ FetchErrorBody(i)))
       /\ SF_allVars(i <= Latest /\ FetchSucceeds(i) /\ UNCHANGED itemVars)
  /\ WF_allVars(RenderItems)

ItemsSpec == ItemsInit /\ [][ItemsNext]_allVars /\ ItemsFairness

-----------------------------------------------------------------------------
(* Properties                                                              *)

ItemsTypeOK ==
  /\ TypeOK
  /\ storeTokens \in Seq(StoreTokens)
  /\ network \in {NoNetwork, Network}

\* Once the store and the network have settled, every token of the store
\* that has a convert-rate address shows a converted amount while the
\* component is mounted: each new token restarts the poller, and the last
\* answer applied covers every token.  The exception is an HTTP error body,
\* which the hook applies as the rates table (ConvertRates, FetchErrorBody).
ItemsEventuallyConverted ==
  <>[](status = "mounted" /\ network # NoNetwork =>
         \/ rates = ErrorBody
         \/ \A i \in DOMAIN storeTokens :
              ConvertToken[storeTokens[i]] # NoAddress => BalanceItems[i].converted)

=============================================================================
