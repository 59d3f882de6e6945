------------------------------ MODULE RatePoller ------------------------------
(***************************************************************************)
(* What the conversion-rate hook promises its caller, without effects,     *)
(* timers or fetches: while mounted, each query the caller renders gets    *)
(* one answer from the rate service, and only an answer to the query that  *)
(* is rendered at that moment is ever shown.  A disabled query shows the   *)
(* empty table at once.  A new query keeps the previous table on screen    *)
(* until its own answer arrives.                                           *)
(*                                                                         *)
(* The answer is whatever body the service returned for the query; the    *)
(* hook does not tell an error body from rates (ConvertRates, FetchError-  *)
(* Body), so neither does this promise.                                    *)
(***************************************************************************)
CONSTANTS Queries, Disabled, NoRates, ErrorBody

VARIABLES
  status,    \* "init", "mounted" or "unmounted"
  query,     \* the query rendered last
  rates,     \* the table shown
  answered   \* the rendered query has had its answer (or needs none)

pvars == <<status, query, rates, answered>>

\* Rendering query q: a disabled query empties the table and is done.
Render(q) ==
  /\ query' = q
  /\ answered' = (q \in Disabled)
  /\ rates' = IF q \in Disabled THEN NoRates ELSE rates

PMount(q) ==
  /\ status = "init"
  /\ status' = "mounted"
  /\ Render(q)

PChangeQuery(q) ==
  /\ status = "mounted"
  /\ q # query
  /\ Render(q)
  /\ UNCHANGED status

PUnmount ==
  /\ status = "mounted"
  /\ status' = "unmounted"
  /\ UNCHANGED <<query, rates, answered>>

\* The service's answer to the rendered query is shown.
PAnswer ==
  /\ status = "mounted"
  /\ ~answered
  /\ rates' \in {query, ErrorBody}
  /\ answered' = TRUE
  /\ UNCHANGED <<status, query>>

PInit ==
  /\ status = "init"
  /\ query \in Queries
  /\ rates = NoRates
  /\ answered = FALSE

PNext ==
  \/ \E q \in Queries : PMount(q) \/ PChangeQuery(q)
  \/ PUnmount
  \/ PAnswer

\* An answer owed to a query that stays rendered is eventually shown.
PSpec == PInit /\ [][PNext]_pvars /\ WF_pvars(PAnswer)

=============================================================================
