---------------------------- MODULE ConvertRates ----------------------------
(***************************************************************************)
(* The conversion-rate poller, the hook useConvertRates                    *)
(* (app/src/hooks/useConvertRates.js).                                     *)
(*                                                                         *)
(* Each render whose query (token addresses, currencies, chain id) differs *)
(* from the last runs the effect's cleanup and then a new effect.  An      *)
(* effect owns a `cancelled` flag and a retry timer; its `update` fetches  *)
(* the rates, sets them on success and, on failure, grows the shared       *)
(* retryDelay ref and schedules itself again.  Fetches cannot be aborted:  *)
(* a cancelled effect's fetch still settles, and only its `cancelled` flag *)
(* keeps it from touching the hook's state.                                *)
(*                                                                         *)
(* retryDelay is kept as the number k of 1.2 factors applied to the 2 s    *)
(* floor (the delay is min(60 s, 2 s * 1.2^k)); DelayCap is the k at which *)
(* the 60 s ceiling takes over (19 in the code).                           *)
(***************************************************************************)
EXTENDS Integers, Sequences

CONSTANTS
  Queries,     \* query values the component may render with
  Disabled,    \* queries with no addresses, currencies or chain id
  MaxEffects,  \* bound on effects run (mount plus query changes)
  DelayCap,    \* number of 1.2 factors after which the delay is capped
  NoRates,     \* model value: the empty rates object {}
  ErrorBody    \* model value: the JSON body of an HTTP error response

ASSUME Disabled \subseteq Queries
ASSUME MaxEffects \in Nat \ {0} /\ DelayCap \in Nat \ {0}

VARIABLES
  status,      \* "init", "mounted" or "unmounted"
  query,       \* the query of the latest render
  effects,     \* every effect run: its query, cancelled flag and state
               \* ("idle", "fetching", or "waiting" on its retry timer)
  retryDelay,  \* retryDelay.current, as a number of 1.2 factors
  rates,       \* the rates state: the answer for a query, or NoRates
  ratesBy,     \* history: the effect that last called setRates (0: none)
  failures     \* history: consecutive failures of the latest effect
               \* since it started or last succeeded, saturating

vars == <<status, query, effects, retryDelay, rates, ratesBy, failures>>

Latest == Len(effects)

MinOf(x, y) == IF x < y THEN x ELSE y

-----------------------------------------------------------------------------

\* Mutant: the cleanup does not clear the retry timer.
CleanupNoClear(es) ==
  [es EXCEPT ![Len(es)].cancelled = TRUE]

\* The effect's cleanup: mark it cancelled and clear its retry timer (its
\* fetch, if any, goes on).
Cleanup(es) ==
  [es EXCEPT ![Len(es)] = [@ EXCEPT !.cancelled = TRUE,
                                    !.state = IF @ = "waiting" THEN "idle" ELSE @]]

\* A new effect for query q runs its first update: with a disabled query it
\* empties the rates, otherwise it starts a fetch.  es are the effects so far.
StartEffect(es, q) ==
  /\ effects' = Append(es, [query |-> q, cancelled |-> FALSE,
                            state |-> IF q \in Disabled THEN "idle" ELSE "fetching"])
  /\ failures' = 0
  /\ IF q \in Disabled
       THEN rates' = NoRates /\ ratesBy' = Len(es) + 1
       ELSE UNCHANGED <<rates, ratesBy>>

Mount(q) ==
  /\ status = "init"
  /\ status' = "mounted"
  /\ query' = q
  /\ StartEffect(effects, q)
  /\ UNCHANGED retryDelay

\* Mutant: the cleanup leaves retryDelay as it was.
RerenderNoReset(q) ==
  /\ status = "mounted"
  /\ q # query
  /\ Latest < MaxEffects
  /\ query' = q
  /\ StartEffect(Cleanup(effects), q)
  /\ UNCHANGED <<status, retryDelay>>

\* A render with a new query: cleanup of the old effect, then the new one.
Rerender(q) ==
  /\ status = "mounted"
  /\ q # query
  /\ Latest < MaxEffects
  /\ query' = q
  /\ retryDelay' = 0
  /\ StartEffect(Cleanup(effects), q)
  /\ UNCHANGED status

Unmount ==
  /\ status = "mounted"
  /\ status' = "unmounted"
  /\ effects' = Cleanup(effects)
  /\ retryDelay' = 0
  /\ UNCHANGED <<query, rates, ratesBy, failures>>

\* The retry timer of effect i fires and update fetches again.
TimerFires(i) ==
  /\ effects[i].state = "waiting"
  /\ effects' = [effects EXCEPT ![i].state = "fetching"]
  /\ UNCHANGED <<status, query, retryDelay, rates, ratesBy, failures>>

\* Mutant: the answer is applied without looking at `cancelled`.
ApplyResponseUnguarded(i, body) ==
  /\ effects[i].state = "fetching"
  /\ effects' = [effects EXCEPT ![i].state = "idle"]
  /\ rates' = body
  /\ ratesBy' = i
  /\ retryDelay' = 0
  /\ failures' = 0
  /\ UNCHANGED <<status, query>>

\* The fetch of effect i resolves and response.json() decodes a body:
\* unless cancelled, the normalized body replaces the rates and the delay
\* goes back to the floor.  response.ok is not looked at.
ApplyResponse(i, body) ==
  /\ effects[i].state = "fetching"
  /\ effects' = [effects EXCEPT ![i].state = "idle"]
  /\ IF effects[i].cancelled
       THEN UNCHANGED <<rates, ratesBy, retryDelay, failures>>
       ELSE /\ rates' = body
            /\ ratesBy' = i
            /\ retryDelay' = 0
            /\ failures' = 0
  /\ UNCHANGED <<status, query>>

\* The rate service answers with the rates for the effect's query.
FetchSucceeds(i) == ApplyResponse(i, effects[i].query)

\* The rate service answers with an HTTP error whose body is JSON.
FetchErrorBody(i) == ApplyResponse(i, ErrorBody)

\* Mutant: the delay grows without the 60 s ceiling.
FetchFailsUncapped(i) ==
  /\ effects[i].state = "fetching"
  /\ IF effects[i].cancelled
       THEN /\ effects' = [effects EXCEPT ![i].state = "idle"]
            /\ UNCHANGED <<retryDelay, failures>>
       ELSE /\ effects' = [effects EXCEPT ![i].state = "waiting"]
            /\ retryDelay' = retryDelay + 1
            /\ failures' = MinOf(DelayCap + 1, failures + 1)
  /\ UNCHANGED <<status, query, rates, ratesBy>>

\* Mutant: a failure grows the delay but schedules no retry.
FetchFailsNoRetry(i) ==
  /\ effects[i].state = "fetching"
  /\ effects' = [effects EXCEPT ![i].state = "idle"]
  /\ IF effects[i].cancelled
       THEN UNCHANGED <<retryDelay, failures>>
       ELSE /\ retryDelay' = MinOf(DelayCap, retryDelay + 1)
            /\ failures' = MinOf(DelayCap + 1, failures + 1)
  /\ UNCHANGED <<status, query, rates, ratesBy>>

\* The fetch of effect i (or its JSON decoding) fails: unless cancelled, the
\* delay grows by 1.2 up to the ceiling and a retry is scheduled after it.
FetchFails(i) ==
  /\ effects[i].state = "fetching"
  /\ IF effects[i].cancelled
       THEN /\ effects' = [effects EXCEPT ![i].state = "idle"]
            /\ UNCHANGED <<retryDelay, failures>>
       ELSE /\ effects' = [effects EXCEPT ![i].state = "waiting"]
            /\ retryDelay' = MinOf(DelayCap, retryDelay + 1)
            /\ failures' = MinOf(DelayCap + 1, failures + 1)
  /\ UNCHANGED <<status, query, rates, ratesBy>>

-----------------------------------------------------------------------------

Init ==
  /\ status = "init"
  /\ query \in Queries
  /\ effects = <<>>
  /\ retryDelay = 0
  /\ rates = NoRates
  /\ ratesBy = 0
  /\ failures = 0

Next ==
  \/ \E q \in Queries : Mount(q) \/ Rerender(q)
  \/ Unmount
  \/ \E i \in 1..Latest : TimerFires(i) \/ FetchSucceeds(i) \/ FetchFails(i)
                          \/ FetchErrorBody(i)

\* Timers fire and fetches settle (weak fairness); the rate service answers
\* a request that is retried again and again (strong fairness on success).
\* Renders and unmounting are the user's and get no fairness.
Fairness ==
  \A i \in 1..MaxEffects :
    /\ WF_vars(i <= Latest /\ TimerFires(i))
    /\ WF_vars(i <= Latest /\ (FetchSucceeds(i) \/ FetchFails(i) \/ FetchErrorBody(i)))
    /\ SF_vars(i <= Latest /\ FetchSucceeds(i))

Spec == Init /\ [][Next]_vars /\ Fairness

-----------------------------------------------------------------------------
(* Properties                                                              *)

EffectStates == {"idle", "fetching", "waiting"}

TypeOK ==
  /\ status \in {"init", "mounted", "unmounted"}
  /\ query \in Queries
  /\ effects \in Seq([query : Queries, cancelled : BOOLEAN, state : EffectStates])
  /\ Latest <= MaxEffects
  /\ retryDelay \in 0..DelayCap
  /\ rates \in Queries \cup {NoRates, ErrorBody}
  /\ ratesBy \in 0..Latest
  /\ failures \in 0..DelayCap + 1

\* Only the effect of the latest render, while mounted, has a retry timer
\* pending: a cleanup clears the timer, and a fetch of a cancelled effect
\* that fails afterwards schedules none, so no request is made after a
\* query change or an unmount.
OnlyLiveEffectRetries ==
  \A i \in 1..Latest :
    effects[i].state = "waiting" =>
      /\ i = Latest
      /\ status = "mounted"
      /\ ~effects[i].cancelled

\* setRates is called only by the live effect: an answer to a superseded
\* query that arrives after the query changed is dropped.
NoStaleRates ==
  [][ratesBy' # ratesBy => (ratesBy' = Len(effects') /\ ~effects'[ratesBy'].cancelled)]_vars

\* While mounted, retryDelay reflects only the live query's own consecutive
\* failures: the shared ref is reset by the cleanup of every superseded
\* effect and by every success.
BackoffTracksFailures ==
  status = "mounted" => retryDelay = MinOf(DelayCap, failures)

\* The hook implements RatePoller: under the mapping below every step is a
\* step of the promise or leaves it unchanged (a timer, a failure, a
\* cancelled effect's answer), and the promise's fairness holds.  The
\* rendered query has been answered when the latest effect called setRates.
Promise == INSTANCE RatePoller WITH answered <- (Latest > 0 /\ ratesBy = Latest)

RefinesRatePoller == Promise!PSpec

\* spec.md sections 3 and 4.5: a failed poll keeps the last good table and
\* the poller never stops on its own, so a query that stays rendered ends
\* up showing its own rates.  An HTTP error with a JSON body is applied as
\* the table and schedules no retry.
RatesEventuallyShown ==
  \A i \in 1..MaxEffects :
    (status = "mounted" /\ Latest = i /\ effects[i].query \notin Disabled)
      ~> (Latest # i \/ status # "mounted" \/ rates = effects[i].query)

=============================================================================
