------------------------- MODULE FlowReducerReplay -------------------------
(***************************************************************************)
(* FlowReducer with a feed that may deliver an event again and, when      *)
(* Reorder holds, may hand over events of different keys out of order.    *)
(*                                                                         *)
(* spec.md describes the ledger feed as possibly replayed: Aragon's store  *)
(* resumes from a cached block, and an event near that block can reach    *)
(* the handlers twice.  handleFlowUpdated and updateFlows have no check on *)
(* the event's timestamp against the record's lastTimestamp, so whether a  *)
(* second delivery is harmless depends only on what the store handled in  *)
(* between.  Delayed says whether the repeated event may be an older one,  *)
(* handled before newer events, or only the latest handled event.          *)
(*                                                                         *)
(* spec.md section 5 orders reducer events per key only ("cross-key       *)
(* ordering is not constrained"), and section 8 asks that swapping two    *)
(* events of one block for different keys leave the final state alone.    *)
(* With Reorder the store may take, before the head of the feed, a        *)
(* FlowUpdated event of the same block whose key differs from every event *)
(* it passes.  Vault events keep their place.                              *)
(***************************************************************************)
EXTENDS FlowReducer

CONSTANTS
  MaxRedeliveries,  \* bound on events delivered a second time
  Delayed,          \* TRUE: any handled event may come again, later
  Reorder           \* TRUE: events of one block may overtake other keys'

ASSUME MaxRedeliveries \in Nat /\ Delayed \in BOOLEAN /\ Reorder \in BOOLEAN

VARIABLES
  handledLog,       \* history: the events handled so far, in order
  redeliveries      \* events delivered again so far

replayVars == <<vars, handledLog, redeliveries>>

\* The store handles the head of the feed, as in FlowReducer.
HandleEventLogged ==
  /\ HandleEvent
  /\ handledLog' = Append(handledLog, Head(feed))
  /\ UNCHANGED redeliveries

\* The flow identity an event is about.
EventKey(e) == <<e.token, e.sender, e.receiver>>

\* Event j of the feed may be handled first: it and every event before it
\* are flow events of one block, on keys other than its own.
MayOvertake(j) ==
  /\ feed[j].type = "FlowUpdated"
  /\ \A m \in 1..(j - 1) :
       /\ feed[m].type = "FlowUpdated"
       /\ feed[m].block = feed[j].block
       /\ EventKey(feed[m]) # EventKey(feed[j])

\* The store runs handleFlowUpdated on an event that overtook others.
HandleReordered ==
  /\ Reorder
  /\ \E j \in 2..Len(feed) :
       /\ MayOvertake(j)
       /\ feed' = RemoveAt(feed, j)
       /\ HandleFlowUpdated(feed[j])
       /\ handledLog' = Append(handledLog, feed[j])
  /\ UNCHANGED <<ledgerVars, redeliveries>>

\* The feed delivers an already handled event once more: the latest handled
\* event while nothing newer is pending, or, when Delayed, any handled one.
Redeliver ==
  /\ redeliveries < MaxRedeliveries
  /\ handledLog # <<>>
  /\ \E e \in (IF Delayed THEN ToSet(handledLog) ELSE {Last(handledLog)}) :
       /\ Delayed \/ feed = <<>>
       /\ feed' = Append(feed, e)
  /\ redeliveries' = redeliveries + 1
  /\ UNCHANGED <<ledgerVars, storeVars, handledLog>>

ReplayInit ==
  /\ Init
  /\ handledLog = <<>>
  /\ redeliveries = 0

ReplayNext ==
  \/ LedgerNext /\ UNCHANGED <<handledLog, redeliveries>>
  \/ HandleEventLogged
  \/ HandleReordered
  \/ Redeliver

ReplaySpec == ReplayInit /\ [][ReplayNext]_replayVars /\ WF_replayVars(HandleEventLogged)

-----------------------------------------------------------------------------

\* The net flow recorded for each token.
NetFlows == [j \in DOMAIN superTokens |-> superTokens[j].netFlow]

\* A step in which the store handles an event it has handled before.
HandlesHandledEvent ==
  \E e \in ToSet(handledLog) :
    handledLog' = Append(handledLog, e) /\ Len(feed') < Len(feed)

\* spec.md sections 4.2 and 8, for the flow set: handling an event that
\* was already handled (a duplicate, possibly overtaken by events of other
\* keys) changes no flow record, cancelled ones included.
RedeliveredEventKeepsFlows ==
  [][HandlesHandledEvent => flows' = flows]_replayVars

\* spec.md sections 4.2 and 8: handling an event that was already handled
\* changes no flow and no token's net flow (the balance may be read anew).
RedeliveredEventIsNoOp ==
  [][HandlesHandledEvent => (flows' = flows /\ NetFlows' = NetFlows)]_replayVars

=============================================================================
