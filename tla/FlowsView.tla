------------------------------ MODULE FlowsView ------------------------------
(***************************************************************************)
(* The Flows table (app/src/components/Flows/index.js) over the store of   *)
(* FlowReducer.  The view changes no state.  What is kept is the one step *)
(* of renderEntry that can fail: the lookup of the row's token details,    *)
(* checked in every state the store and the ledger can reach.  The sort,   *)
(* the displayed amounts and the context menu are left out: each is a     *)
(* pure function of one record that no property tells apart.              *)
(***************************************************************************)
EXTENDS FlowReducer

-----------------------------------------------------------------------------

\* tokenDetails: the decimals and symbol of each token of the store, by
\* address (only the addresses are kept).
TokenDetails == {superTokens[j].address : j \in DOMAIN superTokens}

\* renderEntry destructures tokenDetails[checksumAddress]: a row whose
\* token has no record throws and takes the table down.
RowRenders(f) == f.superTokenAddress \in TokenDetails

-----------------------------------------------------------------------------
(* Properties                                                              *)

\* renderEntry never fails: in every state the store reaches, while events
\* are still queued included, each flow's token has a record, because a
\* handler updates flows and superTokens together or not at all.
EveryRowRenders ==
  \A i \in DOMAIN flows : RowRenders(flows[i])

=============================================================================
