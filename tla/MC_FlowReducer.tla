--------------------------- MODULE MC_FlowReducer ---------------------------
(***************************************************************************)
(* FlowReducer instantiated for TLC: the agent, two other accounts, two    *)
(* Super Tokens; an outgoing flow of the agent and incoming flows from o1 *)
(* and o2 in token t1, an outgoing flow in t2, and one flow between two    *)
(* other accounts, which the store must ignore.  The Flows table is seen   *)
(* by the wallet o1: it may manage o1's incoming flow but not o2's.        *)
(***************************************************************************)
EXTENDS FlowsView, TLC

CONSTANTS a, o1, o2, t1, t2

MCKeys == {<<t1, a, o1>>, <<t1, o1, a>>, <<t1, o2, a>>, <<t1, o1, o2>>, <<t2, a, o1>>}

=============================================================================
