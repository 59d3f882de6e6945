------------------------- MODULE MC_SuperTokenItems -------------------------
(***************************************************************************)
(* SuperTokenItems for TLC: two Super Tokens with a mainnet equivalent and *)
(* one without.  The query changes at most three times (two new addresses *)
(* and the network), so four effects let every render run its effect.     *)
(***************************************************************************)
EXTENDS SuperTokenItems, TLC

CONSTANTS t1, t2, t3, c1, c2, net

MCConvertToken == (t1 :> c1) @@ (t2 :> c2) @@ (t3 :> NoAddress)

\* Every query a render can derive: the addresses in either store order,
\* with or without a network.
MCQueries == [tokens : {<<>>, <<c1>>, <<c2>>, <<c1, c2>>, <<c2, c1>>},
              chainId : {NoNetwork, net}]

\* No address, or no chain id: the poller clears the rates and stays idle.
MCDisabled == {q \in MCQueries : q.tokens = <<>> \/ q.chainId = NoNetwork}

=============================================================================
