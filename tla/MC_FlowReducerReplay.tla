------------------------ MODULE MC_FlowReducerReplay ------------------------
(***************************************************************************)
(* FlowReducerReplay for TLC: the agent's incoming and outgoing flows in  *)
(* one token, which the ledger can open in one block, a flow between two *)
(* other accounts, and a bounded number of redeliveries (per cfg).      *)
(***************************************************************************)
EXTENDS FlowReducerReplay, TLC

CONSTANTS a, o1, o2, t1

MCKeys == {<<t1, a, o1>>, <<t1, o1, a>>, <<t1, o1, o2>>}

=============================================================================
