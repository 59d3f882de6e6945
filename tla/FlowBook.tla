------------------------------ MODULE FlowBook ------------------------------
(***************************************************************************)
(* What the store promises about the agent's flows (spec.md section 4.2),  *)
(* without timestamps, amounts or token records.  The rate-change events   *)
(* of the agent's flows are applied one at a time, in the order they were  *)
(* emitted, to a book with one entry per flow identity                     *)
(* <<token, sender, receiver>>:                                            *)
(*   - Create: an identity with no entry and a nonzero rate opens;         *)
(*   - Update: an open identity takes the new nonzero rate;                *)
(*   - Cancel: an open identity and a zero rate is cancelled;              *)
(*   - a cancelled identity is terminal: later events on it are discarded  *)
(*     and must not reopen it implicitly.                                  *)
(* Events are emitted at any time, so the book lags behind them by the     *)
(* events not yet applied.  Section 5 orders events per identity only: an  *)
(* event may be applied before older events of other identities, never    *)
(* before an older one of its own.  Every emitted event is eventually      *)
(* applied.                                                                *)
(***************************************************************************)
EXTENDS Naturals, Sequences, SequencesExt

CONSTANTS
  BookKeys,  \* the flow identities the agent is a party to
  Rates      \* positive flow rates

VARIABLES
  events,    \* emitted and not yet applied: [key, rate] in emission order
  book       \* per identity: [status, rate], the rate 0 unless open

bookVars == <<events, book>>

NoEntry == [status |-> "none", rate |-> 0]

\* The entry b of an identity after an event with rate r.
Applied(b, r) ==
  CASE b.status \in {"none", "open"} /\ r > 0 -> [status |-> "open", rate |-> r]
    [] b.status = "open" /\ r = 0              -> [status |-> "cancelled", rate |-> 0]
    [] OTHER                                   -> b

\* The ledger emits a rate change for identity k.
Emit(k, r) ==
  /\ events' = Append(events, [key |-> k, rate |-> r])
  /\ UNCHANGED book

\* Event j may be applied now: no older event is about its identity.
Applicable(j) == \A m \in 1..(j - 1) : events[m].key # events[j].key

\* An applicable event is applied to its identity's entry.
Apply ==
  \E j \in DOMAIN events :
    /\ Applicable(j)
    /\ book' = [book EXCEPT ![events[j].key] = Applied(@, events[j].rate)]
    /\ events' = RemoveAt(events, j)

BookInit ==
  /\ events = <<>>
  /\ book = [k \in BookKeys |-> NoEntry]

BookNext ==
  \/ \E k \in BookKeys, r \in Rates \cup {0} : Emit(k, r)
  \/ Apply

\* The store keeps applying events while any is pending (spec.md section 5:
\* the reducer consumes the feed); the ledger emits when it will.
BookSpec == BookInit /\ [][BookNext]_bookVars /\ WF_bookVars(Apply)

=============================================================================
